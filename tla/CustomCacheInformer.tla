------------------------- MODULE CustomCacheInformer -------------------------
(***************************************************************************)
(* An informer with a custom cache (operator/informer_customcache.go): the *)
(* Reflector (k8s/cache/reflector.go) lists and watches the API server and *)
(* feeds a DeltaFIFO, whose deltas processDeltas applies to a store (in    *)
(* memory or MemcachedStore, operator/cache_memcached.go) and reports to   *)
(* the event handler.                                                      *)
(*                                                                         *)
(* The API server (external) keeps a log of changes; a resourceVersion is  *)
(* a position in it, 0 is "not known".  Requests fail, watches break, old  *)
(* versions expire, servers answer from caches that lag behind, items are  *)
(* evicted from memcached and the operator crashes.                        *)
(***************************************************************************)
EXTENDS DeltaFIFO

CONSTANTS
    Backends,     \* stores to consider, a subset of AllBackends
    WatchList,    \* the stores to combine with UseWatchList
    MaxChanges,   \* bound: changes at the API server
    MaxFaults,    \* bound: failing requests, broken watches, evictions
    MaxCrashes    \* bound: restarts of the operator

(* "tracked", "sharded" and "untracked" are memcached with KeySyncInterval, *)
(* with KeySyncInterval and ShardKey, and without.                          *)
AllBackends == {"memory", "tracked", "sharded", "untracked"}

NoKey == "-"    \* a change of another kind: it moves the resourceVersion only

ASSUME CustomCacheInformerAssumption ==
    /\ Backends \subseteq AllBackends /\ WatchList \subseteq Backends
    /\ {MaxChanges, MaxFaults, MaxCrashes} \subseteq Nat
    /\ IsFiniteSet(Keys) /\ NoKey \notin Keys

VARIABLES
    log, compacted,             \* API server: changes; versions below compacted have expired
    pc,                         \* where the Reflector is
    lastRV, unavailable,        \* lastSyncResourceVersion, isLastSyncResourceVersionUnavailable
    w,                          \* the watch: position, snapshot and pending initial events
    listed,                     \* version of the list that was received
    fifo,
    cache, keys, index,         \* the store; its key tracking, in memory and in memcached
    unanswered,                 \* history: keys added at memcached without the client knowing
    told,                       \* history: the version the handler was last sent, 0 if none
    missed,                     \* history: deletions the handler does not hear of
    useWatchList, backend,      \* options, chosen once
    faults, crashes

server  == <<log, compacted>>
refl    == <<pc, lastRV, unavailable, w, listed>>
store   == <<cache, keys, index, unanswered>>
handler == <<told, missed>>
options == <<useWatchList, backend>>
vars == <<server, refl, fifo, store, handler, options, faults, crashes>>

Memcached == backend # "memory"

-----------------------------------------------------------------------------
(* The API server.                                                          *)

NoObjects == [k \in Keys |-> 0]

(* The objects at version v: key -> version of its last change, 0 if none.  *)
At(v) ==
    [k \in Keys |->
        LET own == {i \in 1..v : log[i].key = k}
        IN IF own = {} \/ log[Max(own)].del THEN 0 ELSE Max(own)]

Change(e) ==
    /\ Len(log) <= MaxChanges
    /\ log' = Append(log, e)
    /\ UNCHANGED <<compacted, refl, fifo, store, handler, options, faults, crashes>>

Write == \E k \in Keys : Change([key |-> k, del |-> FALSE])

Delete == \E k \in Keys : At(Len(log))[k] # 0 /\ Change([key |-> k, del |-> TRUE])

OtherKind == Change([key |-> NoKey, del |-> FALSE])

Compact ==
    /\ compacted < Len(log)
    /\ compacted' = Len(log)
    /\ UNCHANGED <<log, refl, fifo, store, handler, options, faults, crashes>>

Fault == faults < MaxFaults /\ faults' = faults + 1

(* The versions of which a list may be.  The resourceVersion "" asks for    *)
(* the latest state, "0" for whatever a server has cached, any other for    *)
(* that version or a newer one.  A cache is not older than what has expired.*)
Latest == {Len(log)}

NotOlderThan(v) == Max({v, compacted})..Len(log)

-----------------------------------------------------------------------------
(* k8s/cache/reflector.go: list.                                            *)

(* Mutant: every relist may be served from any cache.                       *)
MutRelistRV == IF unavailable THEN Latest ELSE NotOlderThan(0)

relistResourceVersion == IF unavailable THEN Latest ELSE NotOlderThan(lastRV)

rewatchResourceVersion == IF unavailable \/ lastRV = 0 THEN Latest ELSE NotOlderThan(lastRV)

NoWatch == [pos |-> 0, snap |-> 0, init |-> {}]

ListAndWatch ==
    /\ pc = "start"
    /\ pc' = IF useWatchList THEN "watchList" ELSE "list"
    /\ UNCHANGED <<server, lastRV, unavailable, w, listed, fifo, store, handler, options, faults, crashes>>

ListSucceeds ==
    /\ pc = "list"
    /\ \E v \in relistResourceVersion : listed' = v
    /\ pc' = "syncWith"
    /\ unavailable' = FALSE
    /\ UNCHANGED <<server, lastRV, w, fifo, store, handler, options, faults, crashes>>

(* The version has expired, or the server is behind it: the list is         *)
(* repeated at once without a version, and that may fail too.               *)
ListExpired ==
    /\ pc = "list" /\ ~unavailable /\ lastRV # 0
    /\ Fault
    /\ \/ /\ unavailable' = FALSE
          /\ listed' = Len(log)
          /\ pc' = "syncWith"
       \/ /\ unavailable' = TRUE
          /\ pc' = "start"
          /\ UNCHANGED listed
    /\ UNCHANGED <<server, lastRV, w, fifo, store, handler, options, crashes>>

ListFails ==
    /\ pc = "list"
    /\ Fault
    /\ pc' = "start"
    /\ UNCHANGED <<server, lastRV, unavailable, w, listed, fifo, store, handler, options, crashes>>

(* The keys the store lists.                                                *)
ListKeys ==
    CASE backend = "memory"    -> {k \in Keys : cache[k] # 0}
      [] backend = "untracked" -> {}
      [] OTHER                 -> keys

(* The store's items are replaced; Replace asks the store for its keys.     *)
syncWith ==
    /\ pc = "syncWith"
    /\ fifo' = Replace(fifo, At(listed), ListKeys)
    /\ lastRV' = listed
    /\ listed' = 0
    /\ pc' = "watch"
    /\ UNCHANGED <<server, unavailable, w, store, handler, options, faults, crashes>>

-----------------------------------------------------------------------------
(* k8s/cache/reflector.go: watch.                                           *)

WatchOpens ==
    /\ pc = "watch" /\ lastRV >= compacted
    /\ w' = [NoWatch EXCEPT !.pos = lastRV]
    /\ pc' = "handleWatch"
    /\ UNCHANGED <<server, lastRV, unavailable, listed, fifo, store, handler, options, faults, crashes>>

(* A version that has expired ends ListAndWatch.                            *)
WatchExpired ==
    /\ pc = "watch" /\ lastRV < compacted
    /\ pc' = "start"
    /\ UNCHANGED <<server, lastRV, unavailable, w, listed, fifo, store, handler, options, faults, crashes>>

(* Connection refused and 429 are retried, other errors end ListAndWatch.   *)
WatchFails ==
    /\ pc = "watch"
    /\ Fault
    /\ pc' \in {"watch", "start"}
    /\ UNCHANGED <<server, lastRV, unavailable, w, listed, fifo, store, handler, options, crashes>>

(* The watch ends: closed in order, with 429 or with an internal error it   *)
(* is opened again, otherwise (expired, closed at once, ...) ListAndWatch   *)
(* ends.                                                                    *)
WatchEnds ==
    /\ pc = "handleWatch"
    /\ Fault
    /\ w' = NoWatch
    /\ pc' \in {"watch", "start"}
    /\ UNCHANGED <<server, lastRV, unavailable, listed, fifo, store, handler, options, crashes>>

(* The next change of our kind after p, or the end of the log.              *)
NextOwn(p) == Min({i \in p + 1 .. Len(log) : log[i].key \in Keys} \cup {Len(log) + 1})

(* Mutant: the version is not recorded, as if setLastSync... were missing.   *)
MutHandleEvent ==
    /\ pc = "handleWatch"
    /\ \E j \in {NextOwn(w.pos)} :
         /\ j <= Len(log)
         /\ fifo' = Put(fifo, log[j].key, "Updated", j)
         /\ w' = [w EXCEPT !.pos = j]
    /\ UNCHANGED <<server, pc, lastRV, unavailable, listed, store, handler, options, faults, crashes>>

(* handleAnyWatch: Added, Modified and Deleted.                              *)
HandleEvent ==
    /\ pc = "handleWatch"
    /\ \E j \in {NextOwn(w.pos)} :
         /\ j <= Len(log)
         /\ LET k == log[j].key
                found == log[j].del /\ Memcached /\ cache[k] # 0
            IN  /\ fifo' = IF log[j].del THEN DeleteKey(fifo, k, j, {x \in Keys : cache[x] # 0})
                           ELSE Put(fifo, k, IF At(j - 1)[k] = 0 THEN "Added" ELSE "Updated", j)
                /\ keys' = IF found THEN keys \cup {k} ELSE keys
                /\ unanswered' = IF found THEN unanswered \ {k} ELSE unanswered
         /\ w' = [w EXCEPT !.pos = j]
         /\ lastRV' = j
    /\ UNCHANGED <<server, pc, unavailable, listed, cache, index, handler, options, faults, crashes>>

(* handleAnyWatch: a Bookmark moves the version past other kinds' changes.   *)
HandleBookmark ==
    /\ pc = "handleWatch"
    /\ w.pos < NextOwn(w.pos) - 1
    /\ lastRV' = NextOwn(w.pos) - 1
    /\ w' = [w EXCEPT !.pos = lastRV']
    /\ UNCHANGED <<server, pc, unavailable, listed, fifo, store, handler, options, faults, crashes>>

-----------------------------------------------------------------------------
(* k8s/cache/reflector.go: watchList.  The initial state is streamed into    *)
(* the store itself.                                                         *)

WatchListOpens ==
    /\ pc = "watchList"
    /\ \E v \in rewatchResourceVersion :
         w' = [pos |-> v, snap |-> v, init |-> {k \in Keys : At(v)[k] # 0}]
    /\ pc' = "handleListWatch"
    /\ UNCHANGED <<server, lastRV, unavailable, listed, fifo, store, handler, options, faults, crashes>>

HandleInitialEvent ==
    /\ pc = "handleListWatch"
    /\ \E k \in w.init :
         /\ fifo' = Put(fifo, k, "Added", At(w.snap)[k])
         /\ w' = [w EXCEPT !.init = @ \ {k}]
    /\ UNCHANGED <<server, pc, lastRV, unavailable, listed, store, handler, options, faults, crashes>>

(* The bookmark that ends the initial events; the same watch goes on.       *)
InitialEventsEnd ==
    /\ pc = "handleListWatch" /\ w.init = {}
    /\ unavailable' = FALSE
    /\ lastRV' = w.snap
    /\ w' = [w EXCEPT !.snap = 0]
    /\ pc' = "handleWatch"
    /\ UNCHANGED <<server, listed, fifo, store, handler, options, faults, crashes>>

(* Retriable errors repeat the stream, expired and too large versions do so  *)
(* without a version, other errors fall back to list.                        *)
WatchListFails ==
    /\ pc \in {"watchList", "handleListWatch"}
    /\ Fault
    /\ w' = NoWatch
    /\ \/ pc' = "watchList" /\ unavailable' \in {unavailable, TRUE}
       \/ pc' = "list" /\ UNCHANGED unavailable
    /\ UNCHANGED <<server, lastRV, listed, fifo, store, handler, options, crashes>>

(* startResync: the timer fires while the watch is on.                       *)
ResyncTimer ==
    /\ pc \in {"watch", "handleWatch"}
    /\ fifo' = Resync(fifo, ListKeys, cache)
    /\ fifo' # fifo
    /\ UNCHANGED <<server, refl, store, handler, options, faults, crashes>>

-----------------------------------------------------------------------------
(* Events for the handler.  processDeltas pushes them to the queue of its    *)
(* listener, which delivers them in order (BufferedQueue): told is what the  *)
(* handler knows once that queue is empty.  The listener converts the object *)
(* (toResourceEventHandlerFuncs); a tombstone cannot be converted, and only  *)
(* the error handler hears of it.                                            *)

toResourceObject(d) == ~d.unknown

AddFunc(s, k, d) == [s EXCEPT !.told[k] = d.rv]

UpdateFunc(s, k, d) == [s EXCEPT !.told[k] = d.rv]

DeleteFunc(s, k, d) ==
    IF toResourceObject(d) THEN [s EXCEPT !.told[k] = 0]
    ELSE [s EXCEPT !.missed = IF s.told[k] # 0 THEN @ \cup {k} ELSE @]

-----------------------------------------------------------------------------
(* The store's operations on a record s of cache, keys, unanswered, told and *)
(* missed.  Memcached: Add does not overwrite, Update and Delete need the    *)
(* item, and any of them may fail.  fault is "none", "get" (Get fails),      *)
(* "write" (refused) or "lost": done, but the client sees an error.          *)

Failed(s) == [s EXCEPT !.ok = FALSE]

Track(s, k) == [s EXCEPT !.keys = @ \cup {k}, !.unanswered = @ \ {k}]

(* Mutant: the key of a new object is not tracked.                           *)
MutAddItem(s, k, d, fault) ==
    IF Memcached /\ (s.cache[k] # 0 \/ fault = "write") THEN Failed(s)
    ELSE [s EXCEPT !.cache[k] = d.rv]

AddItem(s, k, d, fault) ==
    IF Memcached /\ (s.cache[k] # 0 \/ fault = "write") THEN Failed(s)
    ELSE IF Memcached /\ fault = "lost" THEN Failed([s EXCEPT !.cache[k] = d.rv, !.unanswered = @ \cup {k}])
    ELSE Track([s EXCEPT !.cache[k] = d.rv], k)

UpdateItem(s, k, d, fault) ==
    IF Memcached /\ (s.cache[k] = 0 \/ fault = "write") THEN Failed(s)
    ELSE IF Memcached /\ fault = "lost" THEN Failed([s EXCEPT !.cache[k] = d.rv])
    ELSE [s EXCEPT !.cache[k] = d.rv]

DeleteItem(s, k, d, fault) ==
    IF Memcached /\ (s.cache[k] = 0 \/ fault = "write") THEN Failed(s)
    ELSE IF Memcached /\ fault = "lost" THEN Failed([s EXCEPT !.cache[k] = 0])
    ELSE [s EXCEPT !.cache[k] = 0, !.keys = @ \ {k}]

GetItem(s, k, fault) == fault # "get" /\ s.cache[k] # 0

(* Mutant: the handler hears of the deletion whether or not the store took   *)
(* part, and an update is not reported.                                      *)
MutProcessDelta(s, k, d, fault) ==
    IF d.type = "Deleted" THEN DeleteFunc(DeleteItem(s, k, d, fault), k, d)
    ELSE IF GetItem(s, k, fault) THEN UpdateItem(s, k, d, fault)
    ELSE AddFunc(AddItem(s, k, d, fault), k, d)

(* One delta; Get tracks the key of what it finds, and a failing operation   *)
(* ends processDeltas before the handler is told.                            *)
ProcessDelta(s, k, d, fault) ==
    IF d.type = "Deleted" THEN
        LET t == DeleteItem(s, k, d, fault) IN IF t.ok THEN DeleteFunc(t, k, d) ELSE t
    ELSE IF GetItem(s, k, fault) THEN
        LET t == UpdateItem(Track(s, k), k, d, fault) IN IF t.ok THEN UpdateFunc(t, k, d) ELSE t
    ELSE
        LET t == AddItem(s, k, d, fault) IN IF t.ok THEN AddFunc(t, k, d) ELSE t

(* processDeltas: all deltas of a key, oldest first; the i-th meets fault.   *)
processDeltas(s, k, ds, i, fault) ==
    LET after[n \in 0..Len(ds)] ==
            IF n = 0 THEN s
            ELSE IF after[n - 1].ok THEN ProcessDelta(after[n - 1], k, ds[n], IF n = i THEN fault ELSE "none")
            ELSE after[n - 1]
    IN  after[Len(ds)]

(* Controller.processLoop: Pop runs processDeltas with the queue locked; its *)
(* error is dropped, with the remaining deltas.                              *)
PopWith(i, fault) ==
    /\ fifo.queue # <<>>
    /\ i \in 0..Len(fifo.items[Head(fifo.queue)])
    /\ \E s \in {processDeltas([cache |-> cache, keys |-> keys, unanswered |-> unanswered,
                                told |-> told, missed |-> missed, ok |-> TRUE],
                               Head(fifo.queue), fifo.items[Head(fifo.queue)], i, fault)} :
          /\ cache' = s.cache /\ keys' = s.keys /\ unanswered' = s.unanswered
          /\ told' = s.told /\ missed' = s.missed
    /\ fifo' = Pop(fifo)
    /\ UNCHANGED <<server, refl, index, options, crashes>>

processLoop == PopWith(0, "none") /\ UNCHANGED faults

ProcessFails ==
    /\ Memcached /\ Fault
    /\ \E i \in 1..MaxChanges, fault \in {"get", "write", "lost"} : PopWith(i, fault)

-----------------------------------------------------------------------------
(* Memcached itself, and the goroutine that saves the keys.                  *)

Evict ==
    /\ Memcached /\ Fault
    /\ \E k \in Keys : cache[k] # 0 /\ cache' = [cache EXCEPT ![k] = 0]
    /\ UNCHANGED <<server, refl, fifo, keys, index, unanswered, handler, options, crashes>>

syncKeys ==
    /\ backend \in {"tracked", "sharded"}
    /\ index # keys
    /\ index' = keys
    /\ UNCHANGED <<server, refl, fifo, cache, keys, unanswered, handler, options, faults, crashes>>

(* NewMemcachedStore loads the keys under the name without the ShardKey,     *)
(* which is only appended afterwards.                                        *)
setKeysFromCache == IF backend = "tracked" THEN index ELSE {}

(* The operator is killed and started again: newInformer, NewReflector and   *)
(* the handler start from nothing, memcached is as it was.                   *)
Restart ==
    /\ crashes < MaxCrashes
    /\ crashes' = crashes + 1
    /\ pc' = "start" /\ lastRV' = 0 /\ unavailable' = FALSE /\ w' = NoWatch /\ listed' = 0
    /\ fifo' = EmptyFIFO
    /\ cache' = IF Memcached THEN cache ELSE NoObjects
    /\ keys' = setKeysFromCache /\ unanswered' = {}
    /\ told' = NoObjects /\ missed' = {}
    /\ UNCHANGED <<server, index, options, faults>>

Init ==
    /\ log = <<[key |-> NoKey, del |-> FALSE]>> /\ compacted = 1
    /\ pc = "start" /\ lastRV = 0 /\ unavailable = FALSE /\ w = NoWatch /\ listed = 0
    /\ fifo = EmptyFIFO
    /\ cache = NoObjects /\ keys = {} /\ index = {} /\ unanswered = {}
    /\ told = NoObjects /\ missed = {}
    /\ backend \in Backends /\ useWatchList \in BOOLEAN /\ (useWatchList => backend \in WatchList)
    /\ faults = 0 /\ crashes = 0

ReflectorNext ==
    \/ ListAndWatch \/ ListSucceeds \/ syncWith
    \/ WatchOpens \/ WatchExpired \/ HandleEvent \/ HandleBookmark
    \/ WatchListOpens \/ HandleInitialEvent \/ InitialEventsEnd

Next ==
    \/ Write \/ Delete \/ OtherKind \/ Compact
    \/ ReflectorNext
    \/ ListExpired \/ ListFails \/ WatchFails \/ WatchEnds \/ WatchListFails
    \/ ResyncTimer \/ processLoop \/ ProcessFails
    \/ Evict \/ syncKeys \/ Restart

Spec == Init /\ [][Next]_vars

(* The Reflector's and the Controller's goroutines go on; servers answer in  *)
(* the end.                                                                  *)
FairSpec == Spec /\ WF_vars(ReflectorNext) /\ WF_vars(processLoop)

-----------------------------------------------------------------------------
(* relistResourceVersion (reflector.go:708-729): whatever expires, lags or  *)
(* breaks, list and watch never go back to a version older than one already *)
(* seen, nor is an older version of an object pushed to the handler than    *)
(* the one before.  The latter is of a store in memory and without          *)
(* UseWatchList: a memcached cache of an earlier run may be ahead of the    *)
(* first list.                                                              *)
NeverBackInTime ==
    [][crashes' = crashes =>
         /\ lastRV' >= lastRV
         /\ ~useWatchList /\ ~Memcached =>
                \A k \in Keys : told'[k] # 0 => told'[k] >= told[k]]_vars

(* processDeltas (informer_customcache.go:508-543): with a store in memory, *)
(* what has been pushed to the handler is what the store holds, up to the   *)
(* tombstones, which cannot be.                                             *)
HandlerFollowsStore ==
    backend = "memory" => \A k \in Keys : told[k] = cache[k] \/ (cache[k] = 0 /\ k \in missed)

(* Key tracking (cache_memcached.go:170-189, 268-285): what is cached is    *)
(* listed, so that a relist finds what has been deleted.  The one exception *)
(* until a restart is an object whose Add memcached has done and the client *)
(* has not heard of, for as long as no later Add or Get meets it.           *)
CachedIsListed ==
    backend # "untracked" /\ crashes = 0 =>
        \A k \in Keys : cache[k] # 0 => k \in ListKeys \cup unanswered

(* The store in memory converges to the API server's objects                *)
(* (reflector.go:171, "keep the given store up to date with the server's    *)
(* contents"): once the changes and the failures stop, every object is      *)
(* there at its latest version, and, without UseWatchList, no other.        *)
Converged ==
    /\ \A k \in Keys : At(Len(log))[k] # 0 => cache[k] = At(Len(log))[k]
    /\ ~useWatchList => \A k \in Keys : At(Len(log))[k] = 0 => cache[k] = 0

CacheConverges == (backend = "memory") => <>[]Converged

(* "Any time the informer sees an add, update, or delete, it will call the  *)
(* observer's corresponding method" (informer_controller.go:281).           *)
NoDeleteMissed == missed = {}
=============================================================================
