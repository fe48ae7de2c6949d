------------------------- MODULE OpinionatedWatcher -------------------------
(***************************************************************************)
(* operator/opinionatedwatcher.go: the watcher that guards the life of an  *)
(* object with two finalizers, run by the InformerController               *)
(* (operator/informer_controller.go), for one object.                      *)
(*                                                                         *)
(* Failed calls are queued and run again by the retrier, concurrently with *)
(* the event handler.  Every call of the user's functions and of the API   *)
(* is a step; the operator may crash between any two, losing everything    *)
(* but the object.                                                         *)
(***************************************************************************)
EXTENDS FinalizedObject

(* o.finalizer and o.addPendingFinalizer.                                  *)
Ours == {"finalizer", "pending"}

FinalizerOps == {"addPending", "replace", "removeFinalizer", "removePending"}
UserFuncs == {"addFunc", "updateFunc", "deleteFunc", "syncFunc"}

VARIABLES
    added,      \* history: AddFunc has succeeded
    finished    \* history: DeleteFunc has succeeded

history == <<added, finished>>
vars == <<object, informer, call, retries, bounds, history>>

(* The list of finalizers a step of finalizers.go makes of fins.            *)
Patched(op, fins) ==
    CASE op = "addPending"      -> doAddFinalizer(fins, "pending")
      [] op = "replace"         -> doReplaceFinalizer(fins, "pending", "finalizer")
      [] op = "removeFinalizer" -> doRemoveFinalizer(fins, "finalizer")
      [] op = "removePending"   -> doRemoveFinalizer(fins, "pending")

-----------------------------------------------------------------------------
(* The control flow of Add and Update: the step after pc succeeded.         *)

Has(c, f) == Contains(newFinalizers(c), f)

(* After DeleteFunc, SyncFunc or the removal of the first finalizer.        *)
RemovePending(c) == IF Has(c, "pending") THEN "removePending" ELSE "idle"

(* Mutants of StartDelete: the finalizer is removed before DeleteFunc runs; *)
(* an object that only has the in-progress finalizer is ignored.            *)
MutStartDelete(c) ==
    IF ~Has(c, "finalizer") /\ ~Has(c, "pending") THEN "idle"
    ELSE IF Has(c, "finalizer") THEN "removeFinalizer" ELSE "deleteFunc"

MutStartDeletePending(c) == IF ~Has(c, "finalizer") THEN "idle" ELSE "deleteFunc"

(* The object is being deleted: is it waiting for us?                       *)
StartDelete(c) == IF ~Has(c, "finalizer") /\ ~Has(c, "pending") THEN "idle" ELSE "deleteFunc"

(* Mutant of StartAdd: no in-progress finalizer is set.                     *)
MutStartAdd(c) ==
    IF Obj(c).deleted THEN StartDelete(c)
    ELSE IF Has(c, "finalizer") THEN "syncFunc" ELSE "addFunc"

(* Add, from its start.                                                     *)
StartAdd(c) ==
    IF Obj(c).deleted THEN StartDelete(c)
    ELSE IF Has(c, "finalizer") THEN "syncFunc" ELSE "addPending"

(* Update, after the check for a missing finalizer.                         *)
AfterAdd(c) ==
    IF Obj(c).deleted THEN StartDelete(c)
    ELSE IF ~Contains(oldFinalizers(c), "finalizer") /\ Has(c, "finalizer") THEN "idle" ELSE "updateFunc"

(* Update, from its start; generations are positive.                        *)
StartUpdate(c) ==
    IF Old(c).gen = Obj(c).gen THEN "idle"
    ELSE IF ~Has(c, "finalizer") /\ ~Obj(c).deleted THEN "addFunc" ELSE AfterAdd(c)

NextStep(c) ==
    CASE c.pc = "addPending"      -> "addFunc"
      [] c.pc = "addFunc"         -> "replace"
      [] c.pc = "replace"         -> IF c.action = "CREATE" THEN "idle" ELSE AfterAdd(c)
      [] c.pc = "deleteFunc"      -> IF Has(c, "finalizer") THEN "removeFinalizer" ELSE RemovePending(c)
      [] c.pc = "removeFinalizer" -> RemovePending(c)
      [] c.pc = "syncFunc"        -> RemovePending(c)
      [] OTHER                    -> "idle"

(* A call of the watcher begins; Delete does nothing.                       *)
Begin(q) ==
    LET c == Started(q)
    IN  CASE c.action = "CREATE" -> GoTo(c, StartAdd(c))
          [] c.action = "UPDATE" -> GoTo(c, StartUpdate(c))
          [] c.action = "DELETE" -> Idle

EventAction(i) == IF log[i].live THEN "UPDATE" ELSE "DELETE"

-----------------------------------------------------------------------------
WatcherInit == Init /\ added = FALSE /\ finished = FALSE

(* A user function succeeds.  The control flow sees the objects as they are *)
(* after the step ...                                                       *)
FuncOk(p) ==
    \E c \in {call[p]} :
        /\ c.pc \in UserFuncs
        /\ UNCHANGED <<object, informer, bounds>>
        /\ Succeed(p, GoTo(c, NextStep(c)'))
        /\ added' = (added \/ c.pc = "addFunc")
        /\ finished' = (finished \/ c.pc = "deleteFunc")

(* ... or returns an error, or an API call does.                            *)
CallFails(p) ==
    /\ \/ call[p].pc \in UserFuncs
       \/ call[p].pc \in FinalizerOps /\ (call[p].stale \/ Patched(call[p].pc, Obj(call[p]).fins) # Obj(call[p]).fins)
    /\ Fault(p)
    /\ UNCHANGED history

PatchFinalizer(p) ==
    /\ \E c \in {call[p]} :
          c.pc \in FinalizerOps /\ PatchInto(p, Patched(c.pc, Obj(c).fins), GoTo(c, NextStep(c)'))
    /\ UNCHANGED history

Proc(p) == FuncOk(p) \/ PatchFinalizer(p) \/ (GetInto(p) /\ UNCHANGED history)

InformerAdd ==
    LET event == EventOf("CREATE", Len(log))
    IN  List(event, Begin(event)) /\ UNCHANGED history

InformerUpdate ==
    LET event == EventOf(EventAction(seen + 1), seen + 1)
    IN  Watch(event, Begin(event)) /\ UNCHANGED history

InformerRelist ==
    LET event == EventOf(EventAction(Len(log)), Len(log))
    IN  Relist(event, Begin(event)) /\ UNCHANGED history

Retry == \E r \in retries : TakeRetry(r, Begin(r)) /\ UNCHANGED history

Next ==
    \/ Environment /\ UNCHANGED history
    \/ InformerAdd \/ InformerUpdate \/ InformerRelist \/ Retry
    \/ \E p \in Procs : Proc(p) \/ CallFails(p)
    \/ Crash /\ UNCHANGED history

(* The operator keeps running: events are delivered, retries are taken and  *)
(* calls proceed.                                                           *)
Fairness ==
    /\ WF_vars(InformerAdd) /\ WF_vars(InformerUpdate) /\ WF_vars(Retry)
    /\ WF_vars(Proc("handler")) /\ WF_vars(Proc("retrier"))

Spec == WatcherInit /\ [][Next]_vars
FairSpec == Spec /\ Fairness

-----------------------------------------------------------------------------
(* Our finalizers leave the object only after DeleteFunc has succeeded,     *)
(* whatever events, retries, conflicts, lost answers and crashes come       *)
(* between: the object cannot go away behind the operator's back once it    *)
(* has been marked.                                                         *)
OursOn(v) == ToSet(v.fins) \cap Ours # {}

Marked == \E i \in 1..Len(log) : OursOn(log[i])

FinalizerGuardsDelete == Marked /\ ~OursOn(Current) => finished

(* The finalizer tells handled objects from new ones: it is only on an      *)
(* object whose AddFunc has succeeded, so a restart that calls SyncFunc     *)
(* instead of AddFunc loses nothing.  While Add calls AddFunc the object is *)
(* held by one of our finalizers, so that a delete is not missed; unless it *)
(* has been handled already.                                                *)
AddIsGuarded ==
    /\ Contains(Current.fins, "finalizer") => added
    /\ \A p \in Procs : call[p].pc = "addFunc" /\ call[p].action = "CREATE" =>
          OursOn(Current) \/ finished

(* A deleted object that only waits for us goes away, as long as failures   *)
(* stay within what the RetryPolicy grants and the informer does not share  *)
(* its objects with the watcher.                                            *)
DeletionCompletes ==
    (watchList /\ Current.deleted /\ ToSet(Current.fins) \cap Foreign = {}) ~> ~Current.live

-----------------------------------------------------------------------------
(* The documentation of Update: "If the new object has a non-nil            *)
(* ObjectMetadata.DeletionTimestamp in its metadata, DeleteFunc will be     *)
(* called, and the object's finalizer will be removed".  An object deleted  *)
(* with our finalizer on it gets its call of DeleteFunc.                    *)
DeletionHandled == (Current.deleted /\ Contains(Current.fins, "finalizer")) ~> finished
=============================================================================
