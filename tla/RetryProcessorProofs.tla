------------------------ MODULE RetryProcessorProofs ------------------------
(* Proofs about RetryProcessor, for every value of its constants.          *)
EXTENDS RetryProcessor, TLAPS

(* A request that phase 3 pushes back is again a request: the policy has   *)
(* granted its attempt, and the backoff of a granted attempt is a delay.   *)
LEMMA NextTryType ==
    ASSUME TypeOK, NEW x \in [req: Request, res: Result], Repushed(x)
    PROVE  /\ NextTry(x) \in Request
           /\ NextTry(x).id = x.req.id
           /\ NextTry(x).key = x.req.key
           /\ NextTry(x).attempt = IF x.res.kind = "err" THEN x.req.attempt + 1 ELSE x.req.attempt
<1>1. x.req \in Request /\ x.res \in Result
    OBVIOUS
<1>2. now \in Nat
    BY DEF TypeOK
<1>3. CASE x.res.kind = "requeue"
    <2>1. x.res.in \in Nat
        BY <1>1, <1>3, RetryProcessorAssumption DEF Result
    <2> QED
        BY <1>1, <1>2, <1>3, <2>1 DEF NextTry, Request
<1>4. CASE x.res.kind = "err"
    <2>1. x.req.attempt \in 0..MaxAttempts /\ x.req.attempt + 1 <= MaxAttempts
        BY <1>1, <1>4 DEF Repushed, RetryPolicyAllows, Request
    <2>2. x.req.attempt + 1 \in 0..MaxAttempts
        BY <2>1, RetryProcessorAssumption
    <2>3. Backoff[x.req.attempt + 1] \in Nat
        BY <2>2, RetryProcessorAssumption
    <2> QED
        BY <1>1, <1>2, <1>4, <2>2, <2>3 DEF NextTry, Request
<1> QED
    BY <1>3, <1>4 DEF Repushed


-----------------------------------------------------------------------------
LEMMA InitType == Init => TypeOK
<1> SUFFICES ASSUME Init PROVE TypeOK
    OBVIOUS
<1>1. wake \in [Workers -> BOOLEAN] /\ policy \in BOOLEAN /\ ctxDone \in BOOLEAN
    BY Zenon DEF Init
<1>2. /\ now \in Nat
      /\ fails \in [Ids -> Nat]
      /\ fate \in [Ids -> Fates]
      /\ pc \in [Workers -> Pc]
    BY DEF Init, Fates, Pc
<1>3. /\ queue \in [Workers -> SUBSET Request]
      /\ ready \in [Workers -> SUBSET Request]
      /\ results \in [Workers -> SUBSET [req: Request, res: Result]]
      /\ superseded \subseteq Ids
    BY DEF Init
<1> QED
    BY <1>1, <1>2, <1>3 DEF TypeOK

LEMMA EnqueueType ==
    ASSUME TypeOK, NEW i \in Ids, NEW k \in Keys, NEW d \in Delays, NEW a \in Actions,
           NEW g \in Gens, Enqueue(i, k, d, a, g)
    PROVE  TypeOK'
<1> DEFINE r == [id |-> i, key |-> k, after |-> now + d, attempt |-> 0, action |-> a, gen |-> g]
<1>1. WorkerOf(k) \in Workers
    BY RetryProcessorAssumption DEF WorkerOf
<1>2. r \in Request
    BY RetryProcessorAssumption DEF TypeOK, Request
<1>3. queue' = [queue EXCEPT ![WorkerOf(k)] = @ \cup {r}]
    BY DEF Enqueue
<1> HIDE DEF r
<1>4. queue' \in [Workers -> SUBSET Request]
    BY <1>1, <1>2, <1>3 DEF TypeOK
<1>5. wake' \in [Workers -> BOOLEAN] /\ fate' \in [Ids -> Fates]
    BY <1>1 DEF TypeOK, Enqueue, Fates
<1> QED
    BY <1>4, <1>5 DEF TypeOK, Enqueue

LEMMA PendingType ==
    ASSUME TypeOK, NEW w \in Workers
    PROVE  Pending(w) \subseteq Request /\ InFlight(w) \subseteq Request
BY DEF TypeOK, Pending, InFlight

(* Dequeue and DequeueAll both remove a set of pending requests.           *)
LEMMA RemoveType ==
    ASSUME TypeOK, NEW w \in Workers, NEW hit \in SUBSET Pending(w), RemoveMatching(w, hit)
    PROVE  TypeOK'
<1>1. queue' \in [Workers -> SUBSET Request]
    BY DEF TypeOK, RemoveMatching
<1>2. fate' \in [Ids -> Fates]
    BY DEF TypeOK, Fates, RemoveMatching
<1>3. superseded' \subseteq Ids
    BY PendingType DEF TypeOK, Request, RemoveMatching
<1> QED
    BY <1>1, <1>2, <1>3 DEF TypeOK, RemoveMatching

LEMMA PopDueType ==
    ASSUME TypeOK, NEW w \in Workers, wake' \in [Workers -> BOOLEAN], PopDue(w)
    PROVE  TypeOK'
<1> DEFINE due == {r \in queue[w] : Due(r)}
<1>1. due \subseteq Request
    BY DEF TypeOK
<1>2. /\ queue' = [queue EXCEPT ![w] = @ \ due]
      /\ ready' = [ready EXCEPT ![w] = due]
      /\ pc' = [pc EXCEPT ![w] = IF due = {} THEN "select" ELSE "run"]
      /\ UNCHANGED <<now, results, policy, ctxDone, fate, fails, superseded>>
    BY DEF PopDue
<1> HIDE DEF due
<1>3. queue' \in [Workers -> SUBSET Request] /\ ready' \in [Workers -> SUBSET Request]
    BY <1>1, <1>2 DEF TypeOK
<1>4. pc' \in [Workers -> Pc]
    BY <1>2 DEF TypeOK, Pc
<1> QED
    BY <1>2, <1>3, <1>4 DEF TypeOK

LEMMA RunRetryFuncType ==
    ASSUME TypeOK, NEW w \in Workers, RunRetryFunc(w)
    PROVE  TypeOK'
<1>1. PICK r \in ready[w], res \in Result :
          /\ ready' = [ready EXCEPT ![w] = @ \ {r}]
          /\ results' = [results EXCEPT ![w] = @ \cup {[req |-> r, res |-> res]}]
          /\ pc' = [pc EXCEPT ![w] = IF ready[w] = {r} THEN "requeue" ELSE "run"]
    BY DEF RunRetryFunc
<1>2. [req |-> r, res |-> res] \in [req: Request, res: Result]
    BY DEF TypeOK
<1>3. ready' \in [Workers -> SUBSET Request]
    BY <1>1 DEF TypeOK
<1>4. results' \in [Workers -> SUBSET [req: Request, res: Result]]
    BY <1>1, <1>2 DEF TypeOK
<1>5. pc' \in [Workers -> Pc]
    BY <1>1 DEF TypeOK, Pc
<1> QED
    BY <1>3, <1>4, <1>5 DEF TypeOK, RunRetryFunc

LEMMA PushedBackType ==
    ASSUME TypeOK, NEW w \in Workers
    PROVE  PushedBack(w) \subseteq Request
<1>1. \A x \in results[w] : x \in [req: Request, res: Result]
    BY DEF TypeOK
<1>2. \A x \in results[w] : Repushed(x) => NextTry(x) \in Request
    BY <1>1, NextTryType
<1> QED
    BY <1>2 DEF PushedBack

LEMMA RequeueType ==
    ASSUME TypeOK, NEW w \in Workers, Requeue(w)
    PROVE  TypeOK'
<1>1. queue' = [queue EXCEPT ![w] = @ \cup PushedBack(w)]
    BY DEF Requeue
<1>2. queue' \in [Workers -> SUBSET Request]
    BY <1>1, PushedBackType DEF TypeOK
<1>3. results' \in [Workers -> SUBSET [req: Request, res: Result]]
    BY DEF TypeOK, Requeue
<1>4. pc' \in [Workers -> Pc]
    BY DEF TypeOK, Requeue, Pc
<1>5. fate' \in [Ids -> Fates]
    BY DEF TypeOK, Requeue, Fates
<1>6. fails' \in [Ids -> Nat]
    BY DEF TypeOK, Requeue
<1> QED
    BY <1>2, <1>3, <1>4, <1>5, <1>6 DEF TypeOK, Requeue

LEMMA NextType == TypeOK /\ [Next]_vars => TypeOK'
<1> SUFFICES ASSUME TypeOK, [Next]_vars PROVE TypeOK'
    OBVIOUS
<1>1. ASSUME NEW i \in Ids, NEW k \in Keys, NEW d \in Delays, NEW a \in Actions, NEW g \in Gens,
             Enqueue(i, k, d, a, g)
      PROVE  TypeOK'
    BY <1>1, EnqueueType
<1>2. ASSUME NEW k \in Keys, NEW a \in Actions, NEW g \in Gens, Dequeue(k, a, g)
      PROVE  TypeOK'
    BY <1>2, RemoveType, RetryProcessorAssumption DEF Dequeue, WorkerOf
<1>3. ASSUME NEW k \in Keys, DequeueAll(k)
      PROVE  TypeOK'
    BY <1>3, RemoveType, RetryProcessorAssumption DEF DequeueAll, WorkerOf
<1>4. ASSUME NEW w \in Workers, OnWake(w) PROVE TypeOK'
    <2>1. wake' \in [Workers -> BOOLEAN]
        BY <1>4 DEF OnWake, TypeOK
    <2> QED
        BY <1>4, <2>1, PopDueType DEF OnWake
<1>5. ASSUME NEW w \in Workers, OnTick(w) PROVE TypeOK'
    <2>1. wake' \in [Workers -> BOOLEAN]
        BY <1>5 DEF OnTick, TypeOK
    <2> QED
        BY <1>5, <2>1, PopDueType DEF OnTick
<1>6. ASSUME NEW w \in Workers, OnDone(w) PROVE TypeOK'
    BY <1>6 DEF OnDone, TypeOK, Pc
<1>7. ASSUME NEW w \in Workers, RunRetryFunc(w) PROVE TypeOK'
    BY <1>7, RunRetryFuncType
<1>8. ASSUME NEW w \in Workers, Requeue(w) PROVE TypeOK'
    BY <1>8, RequeueType
<1>9. ASSUME SetRetryPolicy PROVE TypeOK'
    <2>1. policy' \in BOOLEAN
        BY <1>9 DEF SetRetryPolicy, TypeOK
    <2> QED
        BY <1>9, <2>1 DEF SetRetryPolicy, TypeOK
<1>10. ASSUME Advance PROVE TypeOK'
    BY <1>10 DEF Advance, TypeOK
<1>11. ASSUME Cancel PROVE TypeOK'
    <2>1. ctxDone' \in BOOLEAN
        BY <1>11, Zenon DEF Cancel
    <2> QED
        BY <1>11, <2>1 DEF Cancel, TypeOK
<1>12. ASSUME UNCHANGED vars PROVE TypeOK'
    BY <1>12 DEF TypeOK, vars
<1> QED
    BY <1>1, <1>2, <1>3, <1>4, <1>5, <1>6, <1>7, <1>8, <1>9, <1>10, <1>11, <1>12
    DEF Next, Handler, Worker

(* Type correctness, in which the bound on attempt is the substance: no    *)
(* sequence of failures, requeues and policy changes pushes a request back *)
(* with an attempt the policy did not grant.                               *)
THEOREM TypeCorrect == Spec => []TypeOK
<1>1. Init => TypeOK
    BY InitType
<1>2. TypeOK /\ [Next]_vars => TypeOK'
    BY NextType
<1> QED
    BY <1>1, <1>2, PTL DEF Spec

-----------------------------------------------------------------------------
(* Sharded is inductive given TypeOK.  A step is described by what it does *)
(* to the heaps and to the batches in flight.                              *)

(* Steps that add nothing to any heap or batch.                             *)
LEMMA NothingAdded ==
    ASSUME TypeOK, Sharded,
           \A w \in Workers : queue'[w] \subseteq queue[w], ready' = ready, results' = results
    PROVE  Sharded'
<1>1. \A w \in Workers : InFlight(w)' = InFlight(w)
    BY DEF InFlight
<1>2. \A w \in Workers : Pending(w)' \subseteq Pending(w)
    BY <1>1 DEF Pending
<1>3. Sharded'
    BY <1>2 DEF Sharded, WorkerOf
<1> QED
    BY <1>3

LEMMA EnqueueSharded ==
    ASSUME TypeOK, Sharded, NEW i \in Ids, NEW k \in Keys, NEW d \in Delays,
           NEW a \in Actions, NEW g \in Gens, Enqueue(i, k, d, a, g)
    PROVE  Sharded'
<1> DEFINE r == [id |-> i, key |-> k, after |-> now + d, attempt |-> 0, action |-> a, gen |-> g]
<1>1. r.key = k
    OBVIOUS
<1>2. queue' = [queue EXCEPT ![WorkerOf(k)] = @ \cup {r}] /\ ready' = ready /\ results' = results /\ now' = now
    BY DEF Enqueue
<1> HIDE DEF r
<1>3. \A w \in Workers : InFlight(w)' = InFlight(w)
    BY <1>2 DEF InFlight
<1>4. \A w \in Workers : \A s \in Pending(w)' : s \in Pending(w) \/ (s = r /\ w = WorkerOf(k))
    BY <1>2, <1>3 DEF Pending, TypeOK
<1>5. Sharded'
    BY <1>1, <1>4 DEF Sharded, WorkerOf
<1> QED
    BY <1>5

LEMMA PopDueSharded ==
    ASSUME TypeOK, Sharded, NEW v \in Workers, PopDue(v)
    PROVE  Sharded'
<1> DEFINE due == {r \in queue[v] : Due(r)}
<1>1. /\ queue' = [queue EXCEPT ![v] = @ \ due]
      /\ ready' = [ready EXCEPT ![v] = due]
      /\ results' = results /\ now' = now
    BY DEF PopDue
<1>2. \A r \in due : r \in queue[v] /\ r.after <= now
    BY DEF Due
<1> HIDE DEF due
<1>3. \A w \in Workers : \A r \in InFlight(w)' : r \in InFlight(w) \/ (w = v /\ r \in due)
    BY <1>1 DEF InFlight, TypeOK
<1>4. \A w \in Workers : Pending(w)' \subseteq Pending(w)
    BY <1>1, <1>2, <1>3 DEF Pending, TypeOK
<1>5. Sharded'
    BY <1>4 DEF Sharded, WorkerOf
<1> QED
    BY <1>5

LEMMA RunRetryFuncSharded ==
    ASSUME TypeOK, Sharded, NEW v \in Workers, RunRetryFunc(v)
    PROVE  Sharded'
<1>1. PICK r \in ready[v], res \in Result :
          /\ ready' = [ready EXCEPT ![v] = @ \ {r}]
          /\ results' = [results EXCEPT ![v] = @ \cup {[req |-> r, res |-> res]}]
    BY DEF RunRetryFunc
<1>2. queue' = queue /\ now' = now
    BY DEF RunRetryFunc
<1>3. \A w \in Workers : InFlight(w)' \subseteq InFlight(w)
    BY <1>1 DEF InFlight, TypeOK
<1>4. \A w \in Workers : Pending(w)' \subseteq Pending(w)
    BY <1>2, <1>3 DEF Pending
<1>5. Sharded'
    BY <1>4 DEF Sharded, WorkerOf
<1> QED
    BY <1>5

LEMMA RequeueSharded ==
    ASSUME TypeOK, Sharded, NEW v \in Workers, Requeue(v)
    PROVE  Sharded'
<1>1. /\ queue' = [queue EXCEPT ![v] = @ \cup PushedBack(v)]
      /\ results' = [results EXCEPT ![v] = {}]
      /\ ready' = ready /\ now' = now
    BY DEF Requeue
<1>2. \A x \in results[v] : x \in [req: Request, res: Result] /\ x.req \in InFlight(v)
    BY DEF TypeOK, InFlight
<1>3. \A x \in results[v] : Repushed(x) => NextTry(x).key = x.req.key
    BY <1>2, NextTryType
<1>4. \A s \in PushedBack(v) : \E x \in results[v] : s.key = x.req.key
    BY <1>3 DEF PushedBack
<1>5. \A s \in PushedBack(v) : \E r \in Pending(v) : s.key = r.key
    BY <1>2, <1>4 DEF Pending
<1>6. \A w \in Workers : InFlight(w)' \subseteq InFlight(w)
    BY <1>1 DEF InFlight, TypeOK
<1>7. \A w \in Workers : \A r \in Pending(w)' : r \in Pending(w) \/ (w = v /\ r \in PushedBack(v))
    BY <1>1, <1>6 DEF Pending, TypeOK
<1>8. Sharded'
    BY <1>5, <1>7 DEF Sharded, WorkerOf
<1> QED
    BY <1>8

LEMMA NextSharded ==
    TypeOK /\ Sharded /\ [Next]_vars => Sharded'
<1> SUFFICES ASSUME TypeOK, Sharded, [Next]_vars
             PROVE  Sharded'
    OBVIOUS
<1> USE DEF TypeOK
<1>1. ASSUME NEW i \in Ids, NEW k \in Keys, NEW d \in Delays, NEW a \in Actions, NEW g \in Gens,
             Enqueue(i, k, d, a, g)
      PROVE  Sharded'
    BY <1>1, EnqueueSharded
<1>2. ASSUME NEW k \in Keys, NEW a \in Actions, NEW g \in Gens, Dequeue(k, a, g)
      PROVE  Sharded'
    <2>1. \A w \in Workers : queue'[w] \subseteq queue[w]
        BY <1>2 DEF Dequeue, RemoveMatching
    <2> QED
        BY <1>2, <2>1, NothingAdded DEF Dequeue, RemoveMatching
<1>3. ASSUME NEW k \in Keys, DequeueAll(k)
      PROVE  Sharded'
    <2>1. \A w \in Workers : queue'[w] \subseteq queue[w]
        BY <1>3 DEF DequeueAll, RemoveMatching
    <2> QED
        BY <1>3, <2>1, NothingAdded DEF DequeueAll, RemoveMatching
<1>4. ASSUME NEW w \in Workers, OnWake(w) \/ OnTick(w)
      PROVE  Sharded'
    BY <1>4, PopDueSharded DEF OnWake, OnTick
<1>5. ASSUME NEW w \in Workers, RunRetryFunc(w)
      PROVE  Sharded'
    BY <1>5, RunRetryFuncSharded
<1>6. ASSUME NEW w \in Workers, Requeue(w)
      PROVE  Sharded'
    BY <1>6, RequeueSharded
<1>7. ASSUME NEW w \in Workers, OnDone(w)
      PROVE  Sharded'
    BY <1>7, NothingAdded DEF OnDone
<1>8. ASSUME SetRetryPolicy \/ Cancel \/ UNCHANGED vars
      PROVE  Sharded'
    BY <1>8, NothingAdded DEF SetRetryPolicy, Cancel, vars
<1>9. ASSUME Advance
      PROVE  Sharded'
    BY <1>9, NothingAdded DEF Advance
<1> QED
    BY <1>1, <1>2, <1>3, <1>4, <1>5, <1>6, <1>7, <1>8, <1>9 DEF Next, Handler, Worker

LEMMA ShardedAlways == Spec => [](TypeOK /\ Sharded)
<1>1. Init => TypeOK /\ Sharded
    BY InitType DEF Init, Sharded, Pending, InFlight
<1>2. (TypeOK /\ Sharded) /\ [Next]_vars => (TypeOK /\ Sharded)'
    BY NextType, NextSharded
<1> QED
    BY <1>1, <1>2, PTL DEF Spec

(* However many workers there are and whatever is enqueued, dequeued and   *)
(* requeued, the retries of one key are run by one worker at a time.       *)
THEOREM RetriesOfAKeyAreSerial == Spec => []SerialPerKey
<1>1. Sharded => SerialPerKey
    BY DEF Sharded, SerialPerKey, Pending
<1> QED
    BY <1>1, ShardedAlways, PTL

-----------------------------------------------------------------------------
(* Accounted, in parts: what is undecided is somewhere, in one place only, *)
(* and a worker holds it in one of its three collections.                  *)
Tracked ==
    \A i \in Ids : fate[i] = "pending" <=> \E w \in Workers : \E r \in Pending(w) : r.id = i

Unique ==
    \A w, v \in Workers : \A r \in Pending(w), s \in Pending(v) : r.id = s.id => w = v /\ r = s

Disjoint ==
    \A w \in Workers :
        /\ queue[w] \cap InFlight(w) = {}
        /\ \A x \in results[w] : x.req \notin ready[w]
        /\ \A x, y \in results[w] : x.req = y.req => x = y

(* The part of IInv that is inductive by itself.                           *)
Account == TypeOK /\ Tracked /\ Unique /\ Disjoint /\ Phased /\ AttemptsCounted /\ RetryBudget

LEMMA InitAccount == Init => Account
<1> SUFFICES ASSUME Init PROVE Account
    OBVIOUS
<1>1. \A w \in Workers : Pending(w) = {} /\ InFlight(w) = {} /\ results[w] = {} /\ ready[w] = {} /\ queue[w] = {}
    BY DEF Init, Pending, InFlight
<1>2. Tracked /\ Unique /\ Disjoint /\ Phased
    BY <1>1 DEF Init, Tracked, Unique, Disjoint, Phased
<1>3. AttemptsCounted /\ RetryBudget
    BY <1>1, RetryProcessorAssumption DEF Init, AttemptsCounted, RetryBudget
<1> QED
    BY <1>2, <1>3, InitType DEF Account

(* Steps that change neither the collections nor the histories.            *)
LEMMA SameAccount ==
    ASSUME Account, TypeOK', UNCHANGED <<queue, ready, results, fate, fails>>, Phased'
    PROVE  Account'
<1>1. \A w \in Workers : Pending(w)' = Pending(w) /\ InFlight(w)' = InFlight(w)
    BY DEF Pending, InFlight
<1>2. Tracked' /\ Unique' /\ AttemptsCounted' /\ RetryBudget'
    BY <1>1 DEF Account, Tracked, Unique, AttemptsCounted, RetryBudget
<1>3. Disjoint'
    BY <1>1 DEF Account, Disjoint
<1> QED
    BY <1>2, <1>3 DEF Account

(* Enqueue: the id is new, so nothing pending has it.                      *)
LEMMA EnqueueAccount ==
    ASSUME Account, NEW i \in Ids, NEW k \in Keys, NEW d \in Delays, NEW a \in Actions,
           NEW g \in Gens, Enqueue(i, k, d, a, g)
    PROVE  Account'
<1> DEFINE new == [id |-> i, key |-> k, after |-> now + d, attempt |-> 0, action |-> a, gen |-> g]
           u == WorkerOf(k)
<1>1. new.id = i /\ new.attempt = 0
    OBVIOUS
<1>2. /\ queue' = [queue EXCEPT ![u] = @ \cup {new}]
      /\ fate[i] = "new"
      /\ fate' = [fate EXCEPT ![i] = "pending"]
      /\ UNCHANGED <<pc, ready, results, fails>>
    BY DEF Enqueue
<1>3. u \in Workers
    BY RetryProcessorAssumption DEF WorkerOf
<1>4. TypeOK /\ TypeOK'
    BY EnqueueType DEF Account
<1> HIDE DEF new, u
<1>5. \A w \in Workers : InFlight(w)' = InFlight(w)
    BY <1>2 DEF InFlight
<1>6. \A w \in Workers : Pending(w)' = Pending(w) \cup (IF w = u THEN {new} ELSE {})
    BY <1>2, <1>3, <1>4, <1>5 DEF Pending, TypeOK
<1>7. \A w \in Workers : \A r \in Pending(w) : r.id \in Ids /\ r.id # i
    BY <1>2, <1>4, PendingType DEF Account, Tracked, Request
<1>8. Tracked'
    <2> SUFFICES ASSUME NEW j \in Ids
                 PROVE  fate'[j] = "pending" <=> \E w \in Workers : \E r \in Pending(w)' : r.id = j
        BY DEF Tracked
    <2>1. CASE j = i
        BY <1>1, <1>2, <1>3, <1>4, <1>6, <2>1 DEF TypeOK
    <2>2. CASE j # i
        <3>1. fate'[j] = fate[j]
            BY <1>2, <1>4, <2>2 DEF TypeOK
        <3>2. \A w \in Workers : (\E r \in Pending(w)' : r.id = j) <=> (\E r \in Pending(w) : r.id = j)
            BY <1>1, <1>6, <2>2
        <3> QED
            BY <3>1, <3>2 DEF Account, Tracked
    <2> QED
        BY <2>1, <2>2
<1>9. Unique'
    BY <1>1, <1>6, <1>7 DEF Account, Unique
<1>10. new \notin InFlight(u)
    BY <1>1, <1>3, <1>7 DEF Pending
<1>11. Disjoint'
    BY <1>2, <1>3, <1>4, <1>5, <1>10 DEF Account, Disjoint, TypeOK
<1>12. Phased'
    BY <1>2 DEF Account, Phased
<1>13. AttemptsCounted'
    <2>1. fails[i] = 0
        BY <1>2 DEF Account, AttemptsCounted
    <2> QED
        BY <1>1, <1>2, <1>4, <1>6, <2>1 DEF Account, AttemptsCounted, TypeOK
<1>14. RetryBudget'
    BY <1>2 DEF Account, RetryBudget
<1> QED
    BY <1>4, <1>8, <1>9, <1>11, <1>12, <1>13, <1>14 DEF Account

(* Dequeue and DequeueAll: what leaves the heap is decided, and nothing    *)
(* with its id is left anywhere.                                           *)
LEMMA RemoveAccount ==
    ASSUME Account, NEW v \in Workers, NEW hit \in SUBSET Pending(v), RemoveMatching(v, hit)
    PROVE  Account'
<1>1. /\ queue' = [queue EXCEPT ![v] = @ \ hit]
      /\ fate' = [i \in Ids |-> IF \E r \in queue[v] \cap hit : r.id = i THEN "dequeued" ELSE fate[i]]
      /\ UNCHANGED <<pc, ready, results, fails>>
    BY DEF RemoveMatching
<1>2. TypeOK /\ TypeOK'
    BY RemoveType DEF Account
<1>3. \A w \in Workers : InFlight(w)' = InFlight(w)
    BY <1>1 DEF InFlight
<1>4. \A w \in Workers : Pending(w)' \subseteq Pending(w)
    BY <1>1, <1>2, <1>3 DEF Pending, TypeOK
<1>5. \A w \in Workers : \A r \in Pending(w) : r \in Pending(w)' \/ (w = v /\ r \in queue[v] \cap hit)
    BY <1>1, <1>2, <1>3 DEF Pending, TypeOK
<1>6. \A r \in queue[v] \cap hit : \A w \in Workers : \A s \in Pending(w)' : s.id # r.id
    <2> SUFFICES ASSUME NEW r \in queue[v] \cap hit, NEW w \in Workers, NEW s \in Pending(w)', s.id = r.id
                 PROVE  FALSE
        OBVIOUS
    <2>1. r \in Pending(v) /\ s \in Pending(w)
        BY <1>4 DEF Pending
    <2>2. w = v /\ s = r
        BY <2>1 DEF Account, Unique
    <2>3. r \notin InFlight(v)
        BY DEF Account, Disjoint
    <2> QED
        BY <1>1, <1>2, <1>3, <2>2, <2>3 DEF Pending, TypeOK
<1>7. Tracked'
    <2> SUFFICES ASSUME NEW i \in Ids
                 PROVE  fate'[i] = "pending" <=> \E w \in Workers : \E r \in Pending(w)' : r.id = i
        BY DEF Tracked
    <2>1. CASE \E r \in queue[v] \cap hit : r.id = i
        BY <1>1, <1>6, <2>1
    <2>2. CASE ~\E r \in queue[v] \cap hit : r.id = i
        BY <1>1, <1>4, <1>5, <2>2 DEF Account, Tracked
    <2> QED
        BY <2>1, <2>2
<1>8. Unique'
    BY <1>4 DEF Account, Unique
<1>9. Disjoint'
    BY <1>1, <1>2, <1>3 DEF Account, Disjoint, TypeOK
<1>10. Phased' /\ RetryBudget'
    BY <1>1 DEF Account, Phased, RetryBudget
<1>11. AttemptsCounted'
    BY <1>1, <1>4 DEF Account, AttemptsCounted
<1> QED
    BY <1>2, <1>7, <1>8, <1>9, <1>10, <1>11 DEF Account

(* Phase 1: the worker holds nothing, and what it takes leaves the heap.   *)
LEMMA PopDueAccount ==
    ASSUME Account, TypeOK', NEW v \in Workers, pc[v] = "select", PopDue(v)
    PROVE  Account'
<1> DEFINE due == {r \in queue[v] : Due(r)}
<1>1. /\ queue' = [queue EXCEPT ![v] = @ \ due]
      /\ ready' = [ready EXCEPT ![v] = due]
      /\ pc' = [pc EXCEPT ![v] = IF due = {} THEN "select" ELSE "run"]
      /\ UNCHANGED <<results, fate, fails>>
    BY DEF PopDue
<1>2. due \subseteq queue[v]
    OBVIOUS
<1> HIDE DEF due
<1>3. ready[v] = {} /\ results[v] = {}
    BY DEF Account, Phased
<1>4. \A w \in Workers : InFlight(w)' = IF w = v THEN due ELSE InFlight(w)
    BY <1>1, <1>3 DEF InFlight, Account, TypeOK
<1>5. \A w \in Workers : Pending(w)' = Pending(w)
    BY <1>1, <1>2, <1>3, <1>4 DEF Pending, InFlight, Account, TypeOK
<1>6. Tracked' /\ Unique' /\ AttemptsCounted' /\ RetryBudget'
    BY <1>1, <1>5 DEF Account, Tracked, Unique, AttemptsCounted, RetryBudget
<1>7. Disjoint'
    BY <1>1, <1>3, <1>4 DEF Account, Disjoint, TypeOK
<1>8. Phased'
    BY <1>1, <1>3 DEF Account, Phased, TypeOK
<1> QED
    BY <1>6, <1>7, <1>8 DEF Account

(* Phase 2: one request moves from the batch to the results.               *)
LEMMA RunRetryFuncAccount ==
    ASSUME Account, NEW v \in Workers, RunRetryFunc(v)
    PROVE  Account'
<1>1. PICK r \in ready[v], res \in Result :
          /\ ready' = [ready EXCEPT ![v] = @ \ {r}]
          /\ results' = [results EXCEPT ![v] = @ \cup {[req |-> r, res |-> res]}]
          /\ pc' = [pc EXCEPT ![v] = IF ready[v] = {r} THEN "requeue" ELSE "run"]
    BY DEF RunRetryFunc
<1>2. UNCHANGED <<queue, fate, fails>> /\ pc[v] = "run"
    BY DEF RunRetryFunc
<1>3. TypeOK /\ TypeOK'
    BY RunRetryFuncType DEF Account
<1> DEFINE done == [req |-> r, res |-> res]
<1>4. done.req = r
    OBVIOUS
<1>5. results'[v] = results[v] \cup {done} /\ ready'[v] = ready[v] \ {r}
    BY <1>1, <1>3 DEF TypeOK
<1> HIDE DEF done
<1>6. InFlight(v)' = InFlight(v)
    BY <1>4, <1>5 DEF InFlight
<1>7. \A w \in Workers : w # v => ready'[w] = ready[w] /\ results'[w] = results[w] /\ InFlight(w)' = InFlight(w)
    BY <1>1, <1>3 DEF InFlight, TypeOK
<1>8. \A w \in Workers : Pending(w)' = Pending(w)
    BY <1>2, <1>6, <1>7 DEF Pending
<1>9. Tracked' /\ Unique' /\ AttemptsCounted' /\ RetryBudget'
    BY <1>2, <1>8 DEF Account, Tracked, Unique, AttemptsCounted, RetryBudget
<1>10. Disjoint'
    <2> SUFFICES ASSUME NEW w \in Workers
                 PROVE  /\ queue'[w] \cap InFlight(w)' = {}
                        /\ \A x \in results'[w] : x.req \notin ready'[w]
                        /\ \A x, y \in results'[w] : x.req = y.req => x = y
        BY DEF Disjoint
    <2>1. CASE w = v
        BY <1>2, <1>4, <1>5, <1>6, <2>1 DEF Account, Disjoint
    <2>2. CASE w # v
        BY <1>2, <1>7, <2>2 DEF Account, Disjoint
    <2> QED
        BY <2>1, <2>2
<1>11. Phased'
    BY <1>1, <1>3, <1>5, <1>7 DEF Account, Phased, TypeOK
<1> QED
    BY <1>3, <1>9, <1>10, <1>11 DEF Account

(* Of the requests a worker has run, no two have one id, and nothing on a  *)
(* heap or with another worker has the id of one of them.                  *)
LEMMA ResultsApart ==
    ASSUME Account, NEW v \in Workers, pc[v] = "requeue"
    PROVE  /\ \A x \in results[v] : x \in [req: Request, res: Result] /\ x.req \in Pending(v)
           /\ \A x, y \in results[v] : x.req.id = y.req.id => x = y
           /\ \A w \in Workers : \A s \in Pending(w) :
                  s \in queue[w] \/ w # v => \A x \in results[v] : s.id # x.req.id
           /\ InFlight(v) = {x.req : x \in results[v]}
<1>1. \A x \in results[v] : x \in [req: Request, res: Result] /\ x.req \in InFlight(v) /\ x.req \in Pending(v)
    BY DEF Account, TypeOK, InFlight, Pending
<1>2. \A x, y \in results[v] : x.req.id = y.req.id => x = y
    BY <1>1 DEF Account, Unique, Disjoint
<1>3. \A w \in Workers : \A s \in Pending(w) :
          s \in queue[w] \/ w # v => \A x \in results[v] : s.id # x.req.id
    <2> SUFFICES ASSUME NEW w \in Workers, NEW s \in Pending(w), NEW x \in results[v],
                        s \in queue[w] \/ w # v, s.id = x.req.id
                 PROVE  FALSE
        OBVIOUS
    <2>1. w = v /\ s = x.req
        BY <1>1 DEF Account, Unique
    <2> QED
        BY <1>1, <2>1 DEF Account, Disjoint
<1>4. ready[v] = {}
    BY DEF Account, Phased
<1> QED
    BY <1>1, <1>2, <1>3, <1>4 DEF InFlight

(* Phase 3: a result is pushed back, under its id and with its errors      *)
(* counted, or its request is decided.                                     *)
LEMMA RequeueAccount ==
    ASSUME Account, NEW v \in Workers, Requeue(v)
    PROVE  Account'
<1>1. /\ pc[v] = "requeue"
      /\ queue' = [queue EXCEPT ![v] = @ \cup PushedBack(v)]
      /\ results' = [results EXCEPT ![v] = {}]
      /\ pc' = [pc EXCEPT ![v] = "select"]
      /\ ready' = ready
    BY DEF Requeue
<1>2. \A i \in Ids : fate'[i] =
           IF \E x \in results[v] : x.req.id = i /\ ~Repushed(x)
           THEN IF \E x \in results[v] : x.req.id = i /\ x.res.kind = "ok" THEN "ok" ELSE "exhausted"
           ELSE fate[i]
    BY DEF Requeue
<1>3. \A i \in Ids : fails'[i] =
           IF \E x \in results[v] : x.req.id = i /\ x.res.kind = "err" THEN fails[i] + 1 ELSE fails[i]
    BY DEF Requeue
<1>4. TypeOK /\ TypeOK'
    BY RequeueType DEF Account
<1>5. /\ \A x \in results[v] : x \in [req: Request, res: Result] /\ x.req \in Pending(v)
      /\ \A x, y \in results[v] : x.req.id = y.req.id => x = y
      /\ \A w \in Workers : \A s \in Pending(w) :
             s \in queue[w] \/ w # v => \A x \in results[v] : s.id # x.req.id
      /\ InFlight(v) = {x.req : x \in results[v]}
    BY <1>1, ResultsApart
<1>6. \A x \in results[v] : Repushed(x) =>
          /\ NextTry(x) \in PushedBack(v)
          /\ NextTry(x).id = x.req.id
          /\ NextTry(x).attempt = IF x.res.kind = "err" THEN x.req.attempt + 1 ELSE x.req.attempt
    BY <1>4, <1>5, NextTryType DEF PushedBack
<1>7. \A s \in PushedBack(v) : \E x \in results[v] : Repushed(x) /\ s = NextTry(x)
    BY DEF PushedBack
<1>8. InFlight(v)' = {} /\ ready[v] = {}
    BY <1>1, <1>4 DEF InFlight, Account, Phased, TypeOK
<1>9. \A w \in Workers : w # v => InFlight(w)' = InFlight(w) /\ Pending(w)' = Pending(w)
    BY <1>1, <1>4 DEF InFlight, Pending, TypeOK
<1>10. Pending(v)' = queue[v] \cup PushedBack(v) /\ Pending(v) = queue[v] \cup {x.req : x \in results[v]}
    BY <1>1, <1>4, <1>5, <1>8 DEF Pending, TypeOK
\* Every pending request is an old one that was not in the results, or one of the results, pushed back.
<1>11. \A w \in Workers : \A s \in Pending(w)' :
           \/ s \in Pending(w) /\ \A x \in results[v] : s.id # x.req.id
           \/ w = v /\ \E x \in results[v] : Repushed(x) /\ s = NextTry(x) /\ s.id = x.req.id
    BY <1>5, <1>6, <1>7, <1>9, <1>10
<1>12. \A w \in Workers : \A s \in Pending(w) :
           s \in Pending(w)' \/ (w = v /\ \E x \in results[v] : s = x.req)
    BY <1>9, <1>10
<1>13. Tracked'
    <2> SUFFICES ASSUME NEW i \in Ids
                 PROVE  fate'[i] = "pending" <=> \E w \in Workers : \E r \in Pending(w)' : r.id = i
        BY DEF Tracked
    <2>1. CASE \E x \in results[v] : x.req.id = i /\ ~Repushed(x)
        <3>1. fate'[i] # "pending"
            BY <1>2, <2>1
        <3>2. ~\E w \in Workers : \E r \in Pending(w)' : r.id = i
            BY <1>5, <1>11, <2>1
        <3> QED
            BY <3>1, <3>2
    <2>2. CASE ~\E x \in results[v] : x.req.id = i /\ ~Repushed(x)
        <3>1. fate'[i] = fate[i]
            BY <1>2, <2>2
        <3>2. ASSUME NEW w \in Workers, NEW r \in Pending(w)', r.id = i
              PROVE  \E u \in Workers : \E s \in Pending(u) : s.id = i
            BY <1>5, <1>11, <3>2
        <3>3. ASSUME NEW w \in Workers, NEW r \in Pending(w), r.id = i
              PROVE  \E u \in Workers : \E s \in Pending(u)' : s.id = i
            <4>1. CASE r \in Pending(w)'
                BY <3>3, <4>1
            <4>2. CASE w = v /\ \E x \in results[v] : r = x.req
                BY <1>6, <1>10, <2>2, <3>3, <4>2
            <4> QED
                BY <1>12, <4>1, <4>2
        <3> QED
            BY <3>1, <3>2, <3>3 DEF Account, Tracked
    <2> QED
        BY <2>1, <2>2
<1>14. Unique'
    <2> SUFFICES ASSUME NEW w \in Workers, NEW u \in Workers, NEW r \in Pending(w)', NEW s \in Pending(u)',
                        r.id = s.id
                 PROVE  w = u /\ r = s
        BY DEF Unique
    <2>1. CASE r \in Pending(w) /\ s \in Pending(u)
        BY <2>1 DEF Account, Unique
    <2>2. CASE r \notin Pending(w) \/ s \notin Pending(u)
        BY <1>5, <1>11, <2>2
    <2> QED
        BY <2>1, <2>2
<1>15. Disjoint'
    <2> SUFFICES ASSUME NEW w \in Workers
                 PROVE  /\ queue'[w] \cap InFlight(w)' = {}
                        /\ \A x \in results'[w] : x.req \notin ready'[w]
                        /\ \A x, y \in results'[w] : x.req = y.req => x = y
        BY DEF Disjoint
    <2>1. CASE w = v
        BY <1>1, <1>4, <1>8, <2>1 DEF TypeOK
    <2>2. CASE w # v
        BY <1>1, <1>4, <1>9, <2>2 DEF Account, Disjoint, TypeOK
    <2> QED
        BY <2>1, <2>2
<1>16. Phased'
    BY <1>1, <1>4, <1>8 DEF Account, Phased, TypeOK
<1>17. \A x \in results[v] : fails[x.req.id] = x.req.attempt /\ x.req.attempt \in 0..MaxAttempts /\ x.req.id \in Ids
    BY <1>5 DEF Account, AttemptsCounted, Request
<1>18. \A x \in results[v] : fails'[x.req.id] = IF x.res.kind = "err" THEN x.req.attempt + 1 ELSE x.req.attempt
    <2> SUFFICES ASSUME NEW x \in results[v]
                 PROVE  fails'[x.req.id] = IF x.res.kind = "err" THEN x.req.attempt + 1 ELSE x.req.attempt
        OBVIOUS
    <2>1. (\E y \in results[v] : y.req.id = x.req.id /\ y.res.kind = "err") <=> x.res.kind = "err"
        BY <1>5
    <2> QED
        BY <1>3, <1>17, <2>1
<1>19. \A i \in Ids : (\A x \in results[v] : x.req.id # i) => fails'[i] = fails[i] /\ fate'[i] = fate[i]
    BY <1>2, <1>3
<1>20. AttemptsCounted'
    <2>1. ASSUME NEW w \in Workers, NEW s \in Pending(w)' PROVE fails'[s.id] = s.attempt
        <3>1. CASE s \in Pending(w) /\ \A x \in results[v] : s.id # x.req.id
            <4>1. s.id \in Ids
                BY <1>4, <3>1, PendingType DEF Request
            <4> QED
                BY <1>19, <3>1, <4>1 DEF Account, AttemptsCounted
        <3>2. CASE \E x \in results[v] : Repushed(x) /\ s = NextTry(x)
            BY <1>6, <1>18, <3>2
        <3> QED
            BY <1>11, <2>1, <3>1, <3>2
    <2>2. ASSUME NEW i \in Ids, fate'[i] = "new" PROVE fails'[i] = 0
        <3>1. fate[i] = "new"
            BY <1>2, <2>2
        <3>2. \A x \in results[v] : x.req.id # i
            BY <1>5, <3>1 DEF Account, Tracked
        <3> QED
            BY <1>19, <3>1, <3>2 DEF Account, AttemptsCounted
    <2> QED
        BY <2>1, <2>2 DEF AttemptsCounted
<1>21. RetryBudget'
    <2> SUFFICES ASSUME NEW i \in Ids PROVE fails'[i] <= MaxAttempts + 1
        BY DEF RetryBudget
    <2>1. CASE \A x \in results[v] : x.req.id # i
        BY <1>19, <2>1 DEF Account, RetryBudget
    <2>2. ASSUME NEW x \in results[v], x.req.id = i PROVE fails'[i] <= MaxAttempts + 1
        BY <1>17, <1>18, <2>2, RetryProcessorAssumption
    <2> QED
        BY <2>1, <2>2
<1> QED
    BY <1>4, <1>13, <1>14, <1>15, <1>16, <1>20, <1>21 DEF Account

LEMMA NextAccount == Account /\ [Next]_vars => Account'
<1> SUFFICES ASSUME Account, [Next]_vars PROVE Account'
    OBVIOUS
<1>1. TypeOK /\ TypeOK'
    BY NextType DEF Account
<1>2. ASSUME NEW i \in Ids, NEW k \in Keys, NEW d \in Delays, NEW a \in Actions, NEW g \in Gens,
             Enqueue(i, k, d, a, g)
      PROVE  Account'
    BY <1>2, EnqueueAccount
<1>3. ASSUME NEW k \in Keys, NEW a \in Actions, NEW g \in Gens, Dequeue(k, a, g)
      PROVE  Account'
    BY <1>3, RemoveAccount, RetryProcessorAssumption DEF Dequeue, WorkerOf
<1>4. ASSUME NEW k \in Keys, DequeueAll(k) PROVE Account'
    BY <1>4, RemoveAccount, RetryProcessorAssumption DEF DequeueAll, WorkerOf
<1>5. ASSUME NEW w \in Workers, OnWake(w) \/ OnTick(w) PROVE Account'
    BY <1>1, <1>5, PopDueAccount DEF OnWake, OnTick
<1>6. ASSUME NEW w \in Workers, RunRetryFunc(w) PROVE Account'
    BY <1>6, RunRetryFuncAccount
<1>7. ASSUME NEW w \in Workers, Requeue(w) PROVE Account'
    BY <1>7, RequeueAccount
<1>8. ASSUME NEW w \in Workers, OnDone(w) PROVE Account'
    <2>1. Phased'
        BY <1>1, <1>8 DEF OnDone, Account, Phased, TypeOK
    <2> QED
        BY <1>1, <1>8, <2>1, SameAccount DEF OnDone
<1>9. CASE SetRetryPolicy \/ Advance \/ Cancel \/ UNCHANGED vars
    <2>1. UNCHANGED <<queue, pc, ready, results, fate, fails>>
        BY <1>9 DEF SetRetryPolicy, Advance, Cancel, vars
    <2>2. Phased'
        BY <2>1 DEF Account, Phased
    <2> QED
        BY <1>1, <2>1, <2>2, SameAccount
<1> QED
    BY <1>2, <1>3, <1>4, <1>5, <1>6, <1>7, <1>8, <1>9 DEF Next, Handler, Worker

LEMMA InvAlways == Spec => []IInv
<1>1. Account /\ Sharded => IInv
    BY DEF Account, IInv, Accounted, Tracked, Unique, Disjoint
<1> QED
    BY <1>1, InitAccount, NextAccount, ShardedAlways, PTL DEF Spec

(* However handlers, workers, the clock and changes of the policy          *)
(* interleave, for any number of workers, keys and requests: a retry that  *)
(* Enqueue has accepted is in exactly one place until it is decided, and   *)
(* is not charged with more errors than the policy allows.                 *)
THEOREM NoRetryLostOrDoubled == Spec => []Accounted
<1>1. IInv => Accounted
    BY DEF IInv
<1> QED
    BY <1>1, InvAlways, PTL

=============================================================================
