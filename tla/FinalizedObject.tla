--------------------------- MODULE FinalizedObject ---------------------------
(***************************************************************************)
(* One object of the API server, the informer that delivers it to an       *)
(* operator, and the operator's calls that add and remove finalizers       *)
(* (operator/finalizers.go).  OpinionatedWatcher and OpinionatedReconciler *)
(* extend it with what their handlers do.                                  *)
(*                                                                         *)
(* The API server (external) keeps the versions of the object.  An object  *)
(* that came with a list is the very object the informer's cache holds:    *)
(* toResourceObject passes it on as it is, and PatchInto and GetInto       *)
(* change it.  An object that came with a watch is decoded anew for        *)
(* every event.  mem is this memory: mem[i] is what the object delivered   *)
(* as version i looks like by now.                                         *)
(***************************************************************************)
EXTENDS Naturals, SequencesExt

CONSTANTS
    Foreign,      \* finalizers of other controllers
    UseWatchList, \* the modes of the informer: UseWatchList of its options
    Merges,       \* PatchInto and GetInto: decode JSON into the object, or
                  \* replace its metadata
    MaxAttempts,  \* maxAttempts of the RetryPolicy
    MaxConflicts, \* conflicts a finalizer operation gets over (3 in the code)
    MaxOps,       \* bound: changes made by users and other controllers
    MaxFaults,    \* bound: failed API and user function calls
    MaxCrashes    \* bound: crashes of the operator

ASSUME FinalizedObjectAssumption ==
    /\ {MaxAttempts, MaxConflicts, MaxOps, MaxFaults, MaxCrashes} \subseteq Nat
    /\ IsFiniteSet(Foreign) /\ {"finalizer", "pending"} \cap Foreign = {}
    /\ UseWatchList \subseteq BOOLEAN /\ Merges \in BOOLEAN

VARIABLES
    log,        \* API server: the versions of the object, oldest first
    mem,        \* the operator's copies
    seen,       \* informer: the version it delivered last, 0 if none
    listed,     \* that version came with a list
    watchList,  \* the informer lists with a watch
    call,       \* goroutine -> the call it is executing
    retries,    \* queued retries
    ops, faults, crashes

object == <<log, mem>>
informer == <<seen, listed, watchList>>
bounds == <<ops, faults, crashes>>

(* The event handler and the retrier call the operator's code.             *)
Procs == {"handler", "retrier"}

Idle == [pc |-> "idle"]

Current == log[Len(log)]

-----------------------------------------------------------------------------
(* API server.  A version: generation, deletionTimestamp, finalizers; live *)
(* is FALSE in the last one, after the object is gone.                     *)

Version(gen, deleted, fins) ==
    [rv |-> Len(log) + 1, gen |-> gen, deleted |-> deleted, fins |-> fins,
     live |-> ~(deleted /\ fins = <<>>)]

Change(v) ==
    /\ Current.live /\ ops < MaxOps
    /\ ops' = ops + 1
    /\ log' = Append(log, v) /\ mem' = Append(mem, v)
    /\ UNCHANGED <<informer, call, retries, faults, crashes>>

UserUpdate == Change(Version(Current.gen + 1, Current.deleted, Current.fins))

UserDelete == ~Current.deleted /\ Change(Version(Current.gen + 1, TRUE, Current.fins))

(* A change that leaves the generation as it is.                            *)
ForeignFinalizerRemoved ==
    \E i \in DOMAIN Current.fins :
        /\ Current.fins[i] \in Foreign
        /\ Change(Version(Current.gen, Current.deleted, RemoveAt(Current.fins, i)))

Environment == UserUpdate \/ UserDelete \/ ForeignFinalizerRemoved

-----------------------------------------------------------------------------
(* A call: the action, the ids of the new and of the old object in mem,     *)
(* whether the old one is the cache's own, the attempt, and the lists of    *)
(* finalizers read at the start.                                            *)

Obj(c) == mem[c.id]

Old(c) == IF c.shared THEN mem[c.src] ELSE log[c.src]

(* k8s.Client decodes into the object, which leaves what the answer omits,  *)
(* an empty list of finalizers included; the watchPatcher of simple.App     *)
(* sets the metadata of the answer.                                         *)
Decoded(old, v) == IF Merges /\ v.fins = <<>> THEN [v EXCEPT !.fins = old.fins] ELSE v

(* A list read earlier shares its array with the object's list, which       *)
(* decoding overwrites.                                                     *)
Overlay(list, now) ==
    [i \in DOMAIN list |-> IF Merges /\ i <= Len(now) THEN now[i] ELSE list[i]]

newFinalizers(c) == Overlay(c.fins, Obj(c).fins)

oldFinalizers(c) == Overlay(c.oldFins, Old(c).fins)

(* The fields of a call when it starts, for the first time or again.        *)
Started(c) ==
    [pc |-> "start", action |-> c.action, id |-> c.id, src |-> c.src, shared |-> c.shared,
     attempt |-> c.attempt, state |-> c.state, tries |-> 0, stale |-> FALSE,
     fins |-> Obj(c).fins, oldFins |-> IF c.action = "CREATE" THEN <<>> ELSE Old(c).fins]

GoTo(c, pc) == IF pc = "idle" THEN Idle ELSE [c EXCEPT !.pc = pc, !.tries = 0, !.stale = FALSE]

(* What is queued for a call that has to be repeated.                       *)
Queued(c, attempt) ==
    [action |-> c.action, id |-> c.id, src |-> c.src, shared |-> c.shared,
     attempt |-> attempt, state |-> c.state]

(* The call returns an error.  queueRetry asks the policy about attempt 0,  *)
(* the retry processor about the attempt after the one that failed.         *)
Fail(p, c) ==
    LET attempt == IF p = "handler" THEN 0 ELSE c.attempt + 1
    IN  /\ call' = [call EXCEPT ![p] = Idle]
        /\ retries' = IF attempt <= MaxAttempts THEN retries \cup {Queued(c, attempt)} ELSE retries

(* A step of the call succeeds, and the call goes on as next.               *)
Succeed(p, next) == call' = [call EXCEPT ![p] = next] /\ UNCHANGED retries

-----------------------------------------------------------------------------
(* finalizers.go.  What an operation makes of a list of finalizers; the     *)
(* patch is skipped when that is no change.                                 *)

doAddFinalizer(fins, f) == IF Contains(fins, f) THEN fins ELSE Append(fins, f)

doRemoveFinalizer(fins, f) ==
    LET kept[n \in 0..Len(fins)] ==
            IF n = 0 THEN <<>>
            ELSE IF fins[n] = f THEN kept[n - 1] ELSE Append(kept[n - 1], fins[n])
    IN  kept[Len(fins)]

(* With neither finalizer present the code adds toReplace.                  *)
doReplaceFinalizer(fins, toReplace, replaceWith) ==
    IF Contains(fins, replaceWith) THEN doRemoveFinalizer(fins, toReplace)
    ELSE IF ~Contains(fins, toReplace) THEN doAddFinalizer(fins, toReplace)
    ELSE ReplaceAll(fins, toReplace, replaceWith)

(* A JSON patch built from the list fins applies to the list now: an        *)
(* element is appended to, or the list replaced where, there is a list; an  *)
(* element is replaced where the index exists.                              *)
Applies(fins, new, now) ==
    \/ fins = <<>>
    \/ /\ now # <<>>
       /\ Len(new) = Len(fins) => \A i \in DOMAIN fins : fins[i] # new[i] => i <= Len(now)

(* PatchInto, for the operation that makes new of the object's finalizers:  *)
(* refused when the object is gone, the patch does not apply or would add a *)
(* finalizer to an object being deleted, a conflict when the object has     *)
(* changed, else applied and the answer decoded into the object.  The       *)
(* answer to an applied patch may be lost.  After a success the call goes   *)
(* on as next.                                                              *)
PatchInto(p, new, next) ==
    \E c \in {call[p]} :
        LET fits == Current.live /\ Applies(Obj(c).fins, new, Current.fins)
            v    == Version(Current.gen, Current.deleted, new)
        IN  /\ ~c.stale
            /\ \/ /\ new = Obj(c).fins
                  /\ UNCHANGED <<object, faults>>
                  /\ Succeed(p, next)
               \/ /\ new # Obj(c).fins /\ ~fits
                  /\ UNCHANGED <<object, faults>>
                  /\ Fail(p, c)
               \/ /\ new # Obj(c).fins /\ fits /\ Obj(c).rv # Current.rv
                  /\ UNCHANGED <<object, faults>>
                  /\ IF c.tries < MaxConflicts
                     THEN call' = [call EXCEPT ![p].stale = TRUE] /\ UNCHANGED retries
                     ELSE Fail(p, c)
               \/ /\ new # Obj(c).fins /\ fits /\ Obj(c).rv = Current.rv
                  /\ IF Current.deleted /\ ~(ToSet(new) \subseteq ToSet(Current.fins))
                     THEN UNCHANGED <<object, faults>> /\ Fail(p, c)
                     ELSE /\ log' = Append(log, v)
                          /\ \/ /\ mem' = [Append(mem, v) EXCEPT ![c.id] = Decoded(Obj(c), v)]
                                /\ UNCHANGED faults
                                /\ Succeed(p, next)
                             \/ /\ faults < MaxFaults /\ faults' = faults + 1
                                /\ mem' = Append(mem, v)
                                /\ Fail(p, c)
            /\ UNCHANGED <<informer, ops, crashes>>

(* GetInto after a conflict, and the operation is tried again.              *)
GetInto(p) ==
    LET c == call[p]
    IN  /\ c.pc # "idle" /\ c.stale
        /\ IF Current.live
           THEN /\ mem' = [mem EXCEPT ![c.id] = Decoded(Obj(c), Current)]
                /\ call' = [call EXCEPT ![p].stale = FALSE, ![p].tries = @ + 1]
                /\ UNCHANGED <<log, retries>>
           ELSE Fail(p, c) /\ UNCHANGED object
        /\ UNCHANGED <<informer, bounds>>

(* An API call fails, a user function returns an error.                     *)
Fault(p) ==
    /\ faults < MaxFaults
    /\ faults' = faults + 1
    /\ Fail(p, call[p])
    /\ UNCHANGED <<object, informer, ops, crashes>>

-----------------------------------------------------------------------------
(* The informer and the retrier; begun is the call the operator makes of an *)
(* event or a retry.                                                        *)

(* OpinionatedRetryDequeuePolicy.                                           *)
Dequeued(newAction, newObj, r) ==
    \/ newAction = "DELETE"
    \/ newAction = r.action /\ newObj.gen # mem[r.id].gen

(* The event of version i, with the version delivered before as its old     *)
(* object.                                                                  *)
EventOf(action, i) ==
    [action |-> action, id |-> i, src |-> IF seen = 0 THEN i ELSE seen,
     shared |-> IF seen = 0 THEN ~watchList ELSE listed, attempt |-> 0, state |-> {}]

(* The informer delivers an event that came with a list of typed objects or *)
(* a watch (a list in watch mode is one): dequeueIfRequired, then the       *)
(* operator's code.                                                         *)
Deliver(event, list, begun) ==
    /\ call["handler"] = Idle
    /\ seen' = event.id /\ listed' = list
    /\ retries' = {r \in retries : ~Dequeued(event.action, log[event.id], r)}
    /\ call' = [call EXCEPT !["handler"] = begun]
    /\ UNCHANGED <<object, watchList, bounds>>

(* The initial list.                                                        *)
List(event, begun) == seen = 0 /\ Current.live /\ Deliver(event, ~watchList, begun)

(* The watch delivers the next version.                                     *)
Watch(event, begun) == seen # 0 /\ seen < Len(log) /\ Deliver(event, FALSE, begun)

(* A list after the watch broke: the latest version, or, if the object is   *)
(* gone, a tombstone that toResourceObject cannot convert.                  *)
Relist(event, begun) ==
    /\ seen # 0 /\ seen < Len(log)
    /\ IF Current.live THEN Deliver(event, ~watchList, begun)
       ELSE /\ call["handler"] = Idle
            /\ seen' = Len(log) /\ listed' = FALSE
            /\ UNCHANGED <<object, watchList, call, retries, bounds>>

(* The retrier takes a queued retry.                                        *)
TakeRetry(r, begun) ==
    /\ call["retrier"] = Idle
    /\ retries' = retries \ {r}
    /\ call' = [call EXCEPT !["retrier"] = begun]
    /\ UNCHANGED <<object, informer, bounds>>

(* The operator stops and starts again: only the API server remembers.      *)
Crash ==
    /\ crashes < MaxCrashes
    /\ crashes' = crashes + 1
    /\ mem' = log
    /\ seen' = 0 /\ listed' = FALSE
    /\ call' = [p \in Procs |-> Idle]
    /\ retries' = {}
    /\ UNCHANGED <<log, watchList, ops, faults>>

Init ==
    /\ \E fins \in UNION {SetToSeqs(f) : f \in SUBSET Foreign} :
           log = <<[rv |-> 1, gen |-> 1, deleted |-> FALSE, fins |-> fins, live |-> TRUE]>>
    /\ mem = log
    /\ seen = 0 /\ listed = FALSE /\ watchList \in UseWatchList
    /\ call = [p \in Procs |-> Idle]
    /\ retries = {}
    /\ ops = 0 /\ faults = 0 /\ crashes = 0
=============================================================================
