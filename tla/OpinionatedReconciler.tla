------------------------ MODULE OpinionatedReconciler ------------------------
(***************************************************************************)
(* operator/reconciler.go: the reconciler that guards an object with one   *)
(* finalizer and turns the events of the informer into requests to the     *)
(* user's reconciler, run by the InformerController's doReconcile, for one *)
(* object.                                                                 *)
(*                                                                         *)
(* A request is handled again, with the State of its first handling, when  *)
(* it failed or the user's reconciler asked for it with RequeueAfter.      *)
(***************************************************************************)
EXTENDS FinalizedObject

VARIABLES
    finished,   \* history: the user's reconciler has handled Deleted
    handled     \* history: the newest generation it has handled

history == <<finished, handled>>
vars == <<object, informer, call, retries, bounds, history>>

(* The calls of the user's reconciler, by the action it is given.           *)
Actions == {"Created", "Updated", "Deleted", "Resynced"}

FinalizerOps == {"addFinalizer", "removeFinalizer"}

(* The list of finalizers a step of finalizers.go makes of fins.            *)
Patched(op, fins) ==
    IF op = "addFinalizer" THEN doAddFinalizer(fins, "finalizer") ELSE doRemoveFinalizer(fins, "finalizer")

-----------------------------------------------------------------------------
Has(c) == Contains(Obj(c).fins, "finalizer")

(* Mutants of Reconcile: a deleted object is released without the user's    *)
(* reconciler; one that comes with its first event is not released; a       *)
(* resync is ignored.                                                       *)
MutReconcileRelease(c) ==
    CASE c.action = "DELETE"        -> "idle"
      [] Obj(c).deleted             -> IF Has(c) THEN "removeFinalizer" ELSE "idle"
      [] c.action = "CREATE"        -> IF Has(c) THEN "Resynced" ELSE "Created"
      [] OTHER                      -> IF Has(c) THEN "Updated" ELSE "addFinalizer"

MutReconcileRestart(c) ==
    CASE c.action = "DELETE"        -> "idle"
      [] c.action = "CREATE"        -> IF Has(c) THEN "Resynced" ELSE "Created"
      [] Obj(c).deleted             -> IF Has(c) THEN "Deleted" ELSE "idle"
      [] OTHER                      -> IF Has(c) THEN "Updated" ELSE "addFinalizer"

MutReconcileResync(c) ==
    CASE c.action \in {"DELETE", "RESYNC"} -> "idle"
      [] Obj(c).deleted             -> IF Has(c) THEN "Deleted" ELSE "idle"
      [] c.action = "CREATE"        -> IF Has(c) THEN "Resynced" ELSE "Created"
      [] OTHER                      -> IF Has(c) THEN "Updated" ELSE "addFinalizer"

(* Reconcile, from its start.  "add" and "remove" in the State say that the *)
(* user's reconciler has done its part in an earlier handling.              *)
Reconcile(c) ==
    CASE c.action = "DELETE"                 -> "idle"
      [] c.action # "DELETE" /\ Obj(c).deleted ->
             IF ~Has(c) THEN "idle" ELSE IF "remove" \in c.state THEN "removeFinalizer" ELSE "Deleted"
      [] c.action = "CREATE" /\ ~Obj(c).deleted ->
             IF Has(c) THEN "Resynced" ELSE IF "add" \in c.state THEN "addFinalizer" ELSE "Created"
      [] c.action = "UPDATE" /\ ~Obj(c).deleted -> IF Has(c) THEN "Updated" ELSE "addFinalizer"
      [] c.action = "RESYNC" /\ ~Obj(c).deleted -> "Resynced"

Begin(q) == LET c == Started(q) IN GoTo(c, Reconcile(c))

(* informerUpdateFunc: an update to the version the old object has already  *)
(* is a resync.                                                             *)
EventAction(i) ==
    CASE ~log[i].live                                                  -> "DELETE"
      [] log[i].live /\ (IF listed THEN mem[seen] ELSE log[seen]).rv = i -> "RESYNC"
      [] OTHER                                                         -> "UPDATE"

-----------------------------------------------------------------------------
ReconcilerInit == Init /\ finished = FALSE /\ handled = 0

(* The finalizer is patched once the user's reconciler has succeeded.  If   *)
(* the patch fails, the State says so; doReconcile keeps the State of the   *)
(* first handling only.                                                     *)
Handled(p, c) ==
    LET Patch(pc, key) == [GoTo(c, pc) EXCEPT !.state = IF p = "handler" THEN {key} ELSE @]
    IN  CASE c.pc = "Created" -> Patch("addFinalizer", "add")
          [] c.pc = "Deleted" -> Patch("removeFinalizer", "remove")
          [] OTHER            -> Idle

ReconcileOk(p) ==
    LET c == call[p]
    IN  /\ c.pc \in Actions
        /\ call' = [call EXCEPT ![p] = Handled(p, c)]
        /\ finished' = (finished \/ c.pc = "Deleted")
        /\ handled' = IF c.pc # "Deleted" /\ Obj(c).gen > handled THEN Obj(c).gen ELSE handled
        /\ UNCHANGED <<object, informer, retries, bounds>>

(* The user's reconciler, or the cast to its type, or an API call fails.    *)
CallFails(p) ==
    /\ \/ call[p].pc \in Actions
       \/ /\ call[p].pc \in FinalizerOps
          /\ call[p].stale \/ Patched(call[p].pc, Obj(call[p]).fins) # Obj(call[p]).fins
    /\ Fault(p)
    /\ UNCHANGED history

(* It returns RequeueAfter: handled again, at no cost to the retry budget.  *)
RequeueAfter(p) ==
    /\ call[p].pc \in Actions
    /\ faults < MaxFaults
    /\ faults' = faults + 1
    /\ retries' = retries \cup {Queued(call[p], call[p].attempt)}
    /\ call' = [call EXCEPT ![p] = Idle]
    /\ UNCHANGED <<object, informer, ops, crashes, history>>

PatchFinalizer(p) ==
    /\ call[p].pc \in FinalizerOps
    /\ PatchInto(p, Patched(call[p].pc, Obj(call[p]).fins), Idle)
    /\ UNCHANGED history

Proc(p) == ReconcileOk(p) \/ PatchFinalizer(p) \/ (GetInto(p) /\ UNCHANGED history)

InformerAdd ==
    LET event == EventOf("CREATE", Len(log))
    IN  List(event, Begin(event)) /\ UNCHANGED history

InformerUpdate ==
    LET event == EventOf(EventAction(seen + 1), seen + 1)
    IN  Watch(event, Begin(event)) /\ UNCHANGED history

InformerRelist ==
    LET event == EventOf(EventAction(Len(log)), Len(log))
    IN  Relist(event, Begin(event)) /\ UNCHANGED history

Retry == \E r \in retries : TakeRetry(r, Begin(r)) /\ UNCHANGED history

Next ==
    \/ Environment /\ UNCHANGED history
    \/ InformerAdd \/ InformerUpdate \/ InformerRelist \/ Retry
    \/ \E p \in Procs : Proc(p) \/ CallFails(p) \/ RequeueAfter(p)
    \/ Crash /\ UNCHANGED history

(* The operator keeps running: events are delivered, retries are taken and  *)
(* calls proceed.                                                           *)
Fairness ==
    /\ WF_vars(InformerAdd) /\ WF_vars(InformerUpdate) /\ WF_vars(Retry)
    /\ WF_vars(Proc("handler")) /\ WF_vars(Proc("retrier"))

Spec == ReconcilerInit /\ [][Next]_vars
FairSpec == Spec /\ Fairness

-----------------------------------------------------------------------------
(* The finalizer leaves the object only after the user's reconciler has     *)
(* handled Deleted: no order of events, retries with or without a State,    *)
(* conflicts, lost answers and restarts lets an object go that the          *)
(* operator has marked.                                                     *)
Marked == \E i \in 1..Len(log) : Contains(log[i].fins, "finalizer")

DeletedIsReconciled == Marked /\ ~Contains(Current.fins, "finalizer") => finished

(* A deleted object that nobody else holds goes away, also when a copy      *)
(* shared with the informer's cache was refreshed behind the event, as long *)
(* as failures stay within what the RetryPolicy grants.                     *)
DeletedObjectGoes ==
    (Current.deleted /\ ToSet(Current.fins) \cap Foreign = {}) ~> ~Current.live

(* Once changes and failures are over, the user's reconciler has handled    *)
(* the latest generation of an object that was not deleted.  Updates of an  *)
(* unmarked object are not handed on, "let the reconcile action for adding  *)
(* the finalizer propagate": it comes, whoever added the finalizer.         *)
EventuallyReconciled ==
    <>[](Current.live /\ ~Current.deleted => handled = Current.gen)
=============================================================================
