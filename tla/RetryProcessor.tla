--------------------------- MODULE RetryProcessor ---------------------------
(***************************************************************************)
(* operator/retry_processor.go: the sharded worker pool that executes the  *)
(* retries of failed watcher and reconciler calls.                         *)
(*                                                                         *)
(* Event handlers call Enqueue, Dequeue and DequeueAll; every worker loops *)
(* over the three phases of processReady: pop what is due (locked), run    *)
(* the retry functions (unlocked), push the failures back (locked).        *)
(* Between two locked phases handlers and the clock interleave freely.     *)
(*                                                                         *)
(* A shard's heap is a set of requests; heap.Pop takes one whose           *)
(* RetryAfter is minimal, in no particular order among equals.             *)
(***************************************************************************)
EXTENDS Naturals, FiniteSets

CONSTANTS
    Keys,          \* retry keys (one per watcher or reconciler and object)
    Workers,       \* the worker pool
    Shard,         \* xxhash(key) % workerCount, a function Keys -> Workers
    Actions,       \* ResourceActions handlers enqueue and dequeue with
    Delete,        \* ResourceActionDelete
    Gens,          \* generations of the objects
    Delays,        \* delays of new requests and of explicit requeues
    MaxAttempts,   \* maxAttempts of the RetryPolicy
    Backoff,       \* delay the RetryPolicy returns for an attempt it grants
    MaxReqs,       \* bound: requests enqueued in a behaviour
    MaxTime        \* bound: the clock

ASSUME RetryProcessorAssumption ==
    /\ Shard \in [Keys -> Workers]
    /\ Delete \in Actions
    /\ Gens \subseteq Nat
    /\ Delays \subseteq Nat
    /\ MaxAttempts \in Nat
    /\ Backoff \in [0..MaxAttempts -> Nat]
    /\ MaxReqs \in Nat
    /\ MaxTime \in Nat

Ids == 1..MaxReqs

(* RetryRequest.  id is the identity of the RetryFunc closure, which every *)
(* re-enqueue of the request keeps.                                        *)
Request == [id: Ids, key: Keys, after: Nat, attempt: 0..MaxAttempts, action: Actions, gen: Gens]

(* What a RetryFunc returned: no error, an error, or a RequeueAfter (in    *)
(* which case its error does not matter).                                  *)
Result == [kind: {"ok", "err"}, in: {0}] \cup [kind: {"requeue"}, in: Delays]

Fates == {"new", "pending", "ok", "exhausted", "dequeued"}

VARIABLES
    now,        \* the wall clock
    queue,      \* worker -> its heap
    wake,       \* worker -> is a token in its wake channel (capacity 1)?
    pc,         \* worker -> phase of its loop
    ready,      \* worker -> requests popped and not yet run
    results,    \* worker -> requests run, with their result
    policy,     \* is there a RetryPolicy (retryPolicyFn() # nil)?
    ctxDone,    \* has Run's context been cancelled?
    fate,       \* history: what became of each request
    fails,      \* history: errors the policy was asked about, per request
    superseded  \* history: requests that a Dequeue or DequeueAll matched

vars == <<now, queue, wake, pc, ready, results, policy, ctxDone,
          fate, fails, superseded>>

Pc == {"select", "run", "requeue", "stopped"}

-----------------------------------------------------------------------------
(* Requests a worker has taken out of its heap and not finished with.      *)
InFlight(w) == ready[w] \cup {x.req : x \in results[w]}

(* Every request the processor still knows of.                             *)
Pending(w) == queue[w] \cup InFlight(w)

Due(r) == r.after <= now

(* Mutant of WorkerOf: route by load instead of by key.                    *)
MutWorkerOf(k) ==
    CHOOSE w \in Workers : \A v \in Workers : Cardinality(queue[w]) <= Cardinality(queue[v])

(* workers[xxhash.Sum64(key) % workerCount].                               *)
WorkerOf(k) == Shard[k]

(* ExponentialBackoffRetryPolicy grants every attempt up to maxAttempts.   *)
RetryPolicyAllows(attempt) == attempt <= MaxAttempts

(* OpinionatedRetryDequeuePolicy.                                          *)
OpinionatedRetryDequeuePolicy(newAction, newGen, r) ==
    \/ newAction = Delete
    \/ newAction = r.action /\ newGen # r.gen

-----------------------------------------------------------------------------
Init ==
    /\ now = 0
    /\ queue = [w \in Workers |-> {}]
    /\ wake = [w \in Workers |-> FALSE]
    /\ pc = [w \in Workers |-> "select"]
    /\ ready = [w \in Workers |-> {}]
    /\ results = [w \in Workers |-> {}]
    /\ policy = TRUE
    /\ ctxDone = FALSE
    /\ fate = [i \in Ids |-> "new"]
    /\ fails = [i \in Ids |-> 0]
    /\ superseded = {}

(* Enqueue: push on the heap of the key's shard, then offer a wake token   *)
(* without blocking.                                                       *)
Enqueue(i, k, d, a, g) ==
    /\ fate[i] = "new"
    /\ \A j \in Ids : j < i => fate[j] # "new"
    /\ queue' = [queue EXCEPT ![WorkerOf(k)] = @ \cup
           {[id |-> i, key |-> k, after |-> now + d, attempt |-> 0, action |-> a, gen |-> g]}]
    /\ wake' = [wake EXCEPT ![WorkerOf(k)] = TRUE]
    /\ fate' = [fate EXCEPT ![i] = "pending"]
    /\ UNCHANGED <<now, pc, ready, results, policy, ctxDone, fails, superseded>>

(* The requests in hit leave the heap of worker w.  Nothing is done about  *)
(* those in flight; the history variable records them as superseded all    *)
(* the same.                                                               *)
RemoveMatching(w, hit) ==
    /\ queue' = [queue EXCEPT ![w] = @ \ hit]
    /\ fate' = [i \in Ids |-> IF \E r \in queue[w] \cap hit : r.id = i THEN "dequeued" ELSE fate[i]]
    /\ superseded' = superseded \cup {r.id : r \in hit}
    /\ UNCHANGED <<now, wake, pc, ready, results, policy, ctxDone, fails>>

(* Dequeue, with the predicate InformerController.dequeueIfRequired passes. *)
Dequeue(k, newAction, newGen) ==
    RemoveMatching(WorkerOf(k), {r \in Pending(WorkerOf(k)) :
        r.key = k /\ OpinionatedRetryDequeuePolicy(newAction, newGen, r)})

DequeueAll(k) == RemoveMatching(WorkerOf(k), {r \in Pending(WorkerOf(k)) : r.key = k})

(* InformerController.RetryPolicy is an exported field, read by phase 3    *)
(* through retryPolicyFn at the time of use.                               *)
SetRetryPolicy ==
    /\ policy' = ~policy
    /\ UNCHANGED <<now, queue, wake, pc, ready, results, ctxDone, fate, fails, superseded>>

(* processReady, phase 1 (locked): pop all requests that are due.  With    *)
(* nothing due the call returns and the worker is back at its select.      *)
PopDue(w) ==
    LET due == {r \in queue[w] : Due(r)}
    IN  /\ queue' = [queue EXCEPT ![w] = @ \ due]
        /\ ready' = [ready EXCEPT ![w] = due]
        /\ pc' = [pc EXCEPT ![w] = IF due = {} THEN "select" ELSE "run"]
        /\ UNCHANGED <<now, results, policy, ctxDone, fate, fails, superseded>>

(* run: the select takes a wake token ...                                  *)
OnWake(w) ==
    /\ pc[w] = "select" /\ wake[w]
    /\ wake' = [wake EXCEPT ![w] = FALSE]
    /\ PopDue(w)

(* Mutant of OnTick: no ticker, the worker relies on wake tokens alone.    *)
MutOnTick(w) == OnWake(w)

(* ... or a tick of the check interval ...                                 *)
OnTick(w) ==
    /\ pc[w] = "select"
    /\ UNCHANGED wake
    /\ PopDue(w)

(* Mutant of OnDone: drain the heap before returning.                      *)
MutOnDone(w) ==
    /\ pc[w] = "select" /\ ctxDone /\ queue[w] = {}
    /\ pc' = [pc EXCEPT ![w] = "stopped"]
    /\ UNCHANGED <<now, queue, wake, ready, results, policy, ctxDone, fate, fails, superseded>>

(* ... or the cancelled context, and the worker ends.                      *)
OnDone(w) ==
    /\ pc[w] = "select" /\ ctxDone
    /\ pc' = [pc EXCEPT ![w] = "stopped"]
    /\ UNCHANGED <<now, queue, wake, ready, results, policy, ctxDone, fate, fails, superseded>>

(* processReady, phase 2 (unlocked): run the retry functions in the order  *)
(* they were popped.                                                       *)
RunRetryFunc(w) ==
    /\ pc[w] = "run"
    /\ \E r \in ready[w], res \in Result :
          /\ \A s \in ready[w] : r.after <= s.after
          /\ ready' = [ready EXCEPT ![w] = @ \ {r}]
          /\ results' = [results EXCEPT ![w] = @ \cup {[req |-> r, res |-> res]}]
          /\ pc' = [pc EXCEPT ![w] = IF ready[w] = {r} THEN "requeue" ELSE "run"]
    /\ UNCHANGED <<now, queue, wake, policy, ctxDone, fate, fails, superseded>>

(* Phase 3 pushes x.req again iff it asked to be requeued, or it failed    *)
(* and the policy grants one more attempt.                                 *)
Repushed(x) ==
    \/ x.res.kind = "requeue"
    \/ x.res.kind = "err" /\ policy /\ RetryPolicyAllows(x.req.attempt + 1)

(* Mutants of NextTry: the attempt is counted twice; a failed request is   *)
(* pushed back with the attempt it had.                                    *)
MutNextTryTwice(x) ==
    [x.req EXCEPT !.after = now + x.res.in, !.attempt = IF x.res.kind = "err" THEN @ + 2 ELSE @]
MutNextTrySame(x) ==
    [x.req EXCEPT !.after = now + IF x.res.kind = "err" THEN Backoff[x.req.attempt] ELSE x.res.in]

(* The request phase 3 pushes: an explicit requeue keeps its attempt.      *)
NextTry(x) ==
    LET failed == x.res.kind = "err"
        attempt == IF failed THEN x.req.attempt + 1 ELSE x.req.attempt
        delay == IF failed THEN Backoff[attempt] ELSE x.res.in
    IN  [id |-> x.req.id, key |-> x.req.key, after |-> now + delay, attempt |-> attempt,
         action |-> x.req.action, gen |-> x.req.gen]

(* Mutant of PushedBack: a RequeueAfter without an error is forgotten.     *)
MutPushedBack(w) == {NextTry(x) : x \in {y \in results[w] : y.res.kind = "err" /\ Repushed(y)}}

PushedBack(w) == {NextTry(x) : x \in {y \in results[w] : Repushed(y)}}

(* processReady, phase 3 (locked): push back what has to be tried again.   *)
Requeue(w) ==
    /\ pc[w] = "requeue"
    /\ queue' = [queue EXCEPT ![w] = @ \cup PushedBack(w)]
    /\ results' = [results EXCEPT ![w] = {}]
    /\ pc' = [pc EXCEPT ![w] = "select"]
    /\ fate' = [i \in Ids |->
           IF \E x \in results[w] : x.req.id = i /\ ~Repushed(x)
           THEN IF \E x \in results[w] : x.req.id = i /\ x.res.kind = "ok" THEN "ok" ELSE "exhausted"
           ELSE fate[i]]
    /\ fails' = [i \in Ids |->
           IF \E x \in results[w] : x.req.id = i /\ x.res.kind = "err" THEN fails[i] + 1 ELSE fails[i]]
    /\ UNCHANGED <<now, wake, ready, policy, ctxDone, superseded>>

Advance ==
    /\ now < MaxTime
    /\ now' = now + 1
    /\ UNCHANGED <<queue, wake, pc, ready, results, policy, ctxDone, fate, fails, superseded>>

Cancel ==
    /\ ~ctxDone
    /\ ctxDone' = TRUE
    /\ UNCHANGED <<now, queue, wake, pc, ready, results, policy, fate, fails, superseded>>

Handler ==
    \/ \E i \in Ids, k \in Keys, d \in Delays, a \in Actions, g \in Gens : Enqueue(i, k, d, a, g)
    \/ \E k \in Keys, a \in Actions, g \in Gens : Dequeue(k, a, g)
    \/ \E k \in Keys : DequeueAll(k)

Worker(w) == OnWake(w) \/ OnTick(w) \/ OnDone(w) \/ RunRetryFunc(w) \/ Requeue(w)

Next ==
    \/ Handler
    \/ \E w \in Workers : Worker(w)
    \/ SetRetryPolicy
    \/ Advance
    \/ Cancel

(* The runtime schedules every goroutine and the ticker of every worker    *)
(* keeps firing.  Go's select chooses among ready cases at random, so a    *)
(* worker that passes its select again and again takes ctx.Done in the end.*)
Fairness ==
    \A w \in Workers :
        /\ WF_vars(OnTick(w))
        /\ WF_vars(RunRetryFunc(w))
        /\ WF_vars(Requeue(w))
        /\ SF_vars(OnDone(w))

Spec == Init /\ [][Next]_vars
FairSpec == Spec /\ Fairness

-----------------------------------------------------------------------------
TypeOK ==
    /\ now \in Nat
    /\ queue \in [Workers -> SUBSET Request]
    /\ wake \in [Workers -> BOOLEAN]
    /\ pc \in [Workers -> Pc]
    /\ ready \in [Workers -> SUBSET Request]
    /\ results \in [Workers -> SUBSET [req: Request, res: Result]]
    /\ policy \in BOOLEAN
    /\ ctxDone \in BOOLEAN
    /\ fate \in [Ids -> Fates]
    /\ fails \in [Ids -> Nat]
    /\ superseded \subseteq Ids

(* The policy bounds the work: however errors, explicit requeues and       *)
(* policy changes alternate, a request is failed at most MaxAttempts + 1   *)
(* times.                                                                  *)
RetryBudget == \A i \in Ids : fails[i] <= MaxAttempts + 1

(* A retry that was accepted by Enqueue is never lost and never duplicated *)
(* while it moves between heap, ready batch and results: as long as it is  *)
(* undecided it is in exactly one of them.  Nor is it run beyond the       *)
(* policy's budget.                                                        *)
Accounted ==
    /\ \A i \in Ids : fate[i] = "pending" <=> \E w \in Workers : \E r \in Pending(w) : r.id = i
    /\ \A w, v \in Workers : \A r \in Pending(w), s \in Pending(v) :
           r.id = s.id => w = v /\ r = s
    /\ \A w \in Workers :
           /\ queue[w] \cap InFlight(w) = {}
           /\ \A x \in results[w] : x.req \notin ready[w]
           /\ \A x, y \in results[w] : x.req = y.req => x = y
    /\ RetryBudget

(* Retries of one key are never run by two workers at a time: the sharding *)
(* keeps the calls a watcher sees for an object sequential.                *)
SerialPerKey ==
    \A w, v \in Workers : \A r \in InFlight(w), s \in InFlight(v) : r.key = s.key => w = v

(* Why those hold.  Every request stays on the shard of its key; a worker  *)
(* holds a batch only in the phases that consume it; the attempt of a      *)
(* request is the number of errors it was charged with.                    *)
Sharded == \A w \in Workers : \A r \in Pending(w) : WorkerOf(r.key) = w

Phased ==
    \A w \in Workers :
        /\ pc[w] # "run" => ready[w] = {}
        /\ pc[w] \notin {"run", "requeue"} => results[w] = {}

AttemptsCounted ==
    /\ \A w \in Workers : \A r \in Pending(w) : fails[r.id] = r.attempt
    /\ \A i \in Ids : fate[i] = "new" => fails[i] = 0

(* The inductive invariant.                                                *)
IInv ==
    /\ TypeOK
    /\ Accounted
    /\ Sharded
    /\ Phased
    /\ AttemptsCounted
    /\ RetryBudget

(* A due retry is taken off the heap by a worker (or dequeued) unless the  *)
(* processor is stopped.                                                   *)
Queued(i) == \E w \in Workers : \E r \in queue[w] : r.id = i /\ r.after <= now

DueRetryLeavesHeap == \A i \in Ids : Queued(i) ~> (~Queued(i) \/ ctxDone)

(* Run returns after its context is cancelled: every worker stops.         *)
RunReturns == ctxDone ~> \A w \in Workers : pc[w] = "stopped"

(* What DequeueAll ("removes all items for a key") and Dequeue promise: a  *)
(* retry that a newer event superseded is not waiting to run again.        *)
SupersededNotQueued == \A w \in Workers : \A r \in queue[w] : r.id \notin superseded

=============================================================================
