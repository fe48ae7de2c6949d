-------------------------- MODULE SingletonRunner ---------------------------
(***************************************************************************)
(* app/runner.go, SingletonRunner: many Run() calls share one execution of *)
(* a wrapped Runnable.  operator.Runner keeps its webhook and metrics      *)
(* servers alive with two of them.                                         *)
(*                                                                         *)
(* A call that finds running = FALSE starts an instance: a context of its  *)
(* own (s.ctx, s.cancel), a goroutine running the wrapped Runnable and a   *)
(* goroutine that waits on the WaitGroup of the calls and then resets      *)
(* running.  Instances are numbered; s.ctx and s.cancel are those of cur.  *)
(***************************************************************************)
EXTENDS Naturals, FiniteSets

CONSTANTS
    Calls,      \* the calls of Run() in a behaviour
    StopOnAny   \* the field of the same name

ASSUME SingletonAssumption == IsFiniteSet(Calls) /\ StopOnAny \in BOOLEAN

(* Every call starts at most one instance.                                 *)
Instances == 1..Cardinality(Calls)

VARIABLES
    pc,         \* call -> where its Run() is
    ctxDone,    \* call -> has its context been cancelled?
    watcher,    \* call -> its goroutine waiting for ctxDone
    running,    \* s.running
    cur,        \* the instance of s.ctx and s.cancel, 0 for nil
    mine,       \* call -> the instance whose context its select waits on
    cause,      \* instance -> cause of its context, "open" if not cancelled
    wrapped,    \* instance -> its execution of the wrapped Runnable
    ctxOf,      \* instance -> the instance whose context that execution got
    waiter,     \* instance -> its goroutine waiting on the WaitGroup
    panicked    \* has the waiter panicked on a reused WaitGroup?

vars == <<pc, ctxDone, watcher, running, cur, mine, cause, wrapped, ctxOf, waiter, panicked>>

(* The WaitGroup counts the calls between its Add and their return.        *)
Active == {c \in Calls : pc[c] \in {"locking", "joined", "select"}}

(* s.cancel(why): only the first cancellation sets the cause.              *)
CancelWith(n, why) == [cause EXCEPT ![n] = IF @ = "open" THEN why ELSE @]

-----------------------------------------------------------------------------
Init ==
    /\ pc = [c \in Calls |-> "idle"]
    /\ ctxDone = [c \in Calls |-> FALSE]
    /\ watcher = [c \in Calls |-> "none"]
    /\ running = FALSE
    /\ cur = 0
    /\ mine = [c \in Calls |-> 0]
    /\ cause = [n \in Instances |-> "open"]
    /\ wrapped = [n \in Instances |-> "none"]
    /\ ctxOf = [n \in Instances |-> 0]
    /\ waiter = [n \in Instances |-> "none"]
    /\ panicked = FALSE

(* Run: wg.Add(1), and the goroutine that watches the context is started.  *)
Run(c) ==
    /\ pc[c] = "idle"
    /\ pc' = [pc EXCEPT ![c] = "locking"]
    /\ watcher' = [watcher EXCEPT ![c] = "waiting"]
    /\ UNCHANGED <<ctxDone, running, cur, mine, cause, wrapped, ctxOf, waiter, panicked>>

CancelCtx(c) ==
    /\ ~ctxDone[c]
    /\ ctxDone' = [ctxDone EXCEPT ![c] = TRUE]
    /\ UNCHANGED <<pc, watcher, running, cur, mine, cause, wrapped, ctxOf, waiter, panicked>>

(* Mutant of Watch: StopOnAny is ignored.                                  *)
MutWatch(c) ==
    /\ watcher[c] = "waiting" /\ ctxDone[c]
    /\ watcher' = [watcher EXCEPT ![c] = "done"]
    /\ cause' = IF cur # 0 THEN CancelWith(cur, "other") ELSE cause
    /\ UNCHANGED <<pc, ctxDone, running, cur, mine, wrapped, ctxOf, waiter, panicked>>

(* The watching goroutine: s.cancel is read when the context ends, so it   *)
(* is that of whatever instance is current then, or nil.                   *)
Watch(c) ==
    /\ watcher[c] = "waiting" /\ ctxDone[c]
    /\ watcher' = [watcher EXCEPT ![c] = "done"]
    /\ cause' = IF StopOnAny /\ cur # 0 THEN CancelWith(cur, "other") ELSE cause
    /\ UNCHANGED <<pc, ctxDone, running, cur, mine, wrapped, ctxOf, waiter, panicked>>

(* The section under mux: join the running instance or start a new one.    *)
Join(c) ==
    /\ pc[c] = "locking"
    /\ pc' = [pc EXCEPT ![c] = "joined"]
    /\ IF running
       THEN UNCHANGED <<running, cur, wrapped, waiter>>
       ELSE /\ running' = TRUE
            /\ cur' = cur + 1
            /\ wrapped' = [wrapped EXCEPT ![cur + 1] = "spawned"]
            /\ waiter' = [waiter EXCEPT ![cur + 1] = "spawned"]
    /\ UNCHANGED <<ctxDone, watcher, mine, cause, ctxOf, panicked>>

(* The select statement evaluates s.ctx.Done() and blocks on it.           *)
Select(c) ==
    /\ pc[c] = "joined"
    /\ pc' = [pc EXCEPT ![c] = "select"]
    /\ mine' = [mine EXCEPT ![c] = cur]
    /\ UNCHANGED <<ctxDone, watcher, running, cur, cause, wrapped, ctxOf, waiter, panicked>>

(* Mutant of Leave: the goroutine parked in Wait is never woken.           *)
MutLeave(c) ==
    /\ pc' = [pc EXCEPT ![c] = "returned"]
    /\ UNCHANGED <<ctxDone, watcher, running, cur, mine, cause, wrapped, ctxOf, waiter, panicked>>

(* The deferred wg.Done(): the last one wakes the goroutine parked in Wait. *)
Leave(c) ==
    /\ pc' = [pc EXCEPT ![c] = "returned"]
    /\ waiter' = IF Active = {c}
                 THEN [n \in Instances |-> IF waiter[n] = "parked" THEN "woken" ELSE waiter[n]]
                 ELSE waiter
    /\ UNCHANGED <<ctxDone, watcher, running, cur, mine, cause, wrapped, ctxOf, panicked>>

ReturnStopped(c) ==
    /\ pc[c] = "select" /\ cause[mine[c]] # "open"
    /\ Leave(c)

(* Mutant of ReturnDone: the select only waits for the instance.           *)
MutReturnDone(c) == ReturnStopped(c)

ReturnDone(c) ==
    /\ pc[c] = "select" /\ ctxDone[c]
    /\ Leave(c)

(* The goroutine of the instance reads s.ctx, unlocked, and calls          *)
(* Wrapped.Run with it: the context may be that of a later instance.       *)
StartWrapped(n) ==
    /\ wrapped[n] = "spawned"
    /\ wrapped' = [wrapped EXCEPT ![n] = "running"]
    /\ ctxOf' = [ctxOf EXCEPT ![n] = cur]
    /\ UNCHANGED <<pc, ctxDone, watcher, running, cur, mine, cause, waiter, panicked>>

(* Wrapped.Run returns, when its context is cancelled or on its own        *)
(* account, and s.cancel(err) is called: on the current instance's cancel. *)
WrappedReturns(n) ==
    /\ wrapped[n] = "running"
    /\ wrapped' = [wrapped EXCEPT ![n] = IF cause[ctxOf[n]] = "open" THEN "completed" ELSE "stopped"]
    /\ cause' = CancelWith(cur, "wrapped")
    /\ UNCHANGED <<pc, ctxDone, watcher, running, cur, mine, ctxOf, waiter, panicked>>

(* sync.WaitGroup.Wait: return at once at zero, else park until the count  *)
(* drops to zero ...                                                       *)
Wait(n) ==
    /\ waiter[n] = "spawned"
    /\ waiter' = [waiter EXCEPT ![n] = IF Active = {} THEN "passed" ELSE "parked"]
    /\ UNCHANGED <<pc, ctxDone, watcher, running, cur, mine, cause, wrapped, ctxOf, panicked>>

(* ... and panic when an Add has come in before Wait returned.             *)
WaitReturns(n) ==
    /\ waiter[n] = "woken"
    /\ waiter' = [waiter EXCEPT ![n] = IF Active = {} THEN "passed" ELSE "dead"]
    /\ panicked' = (Active # {})
    /\ UNCHANGED <<pc, ctxDone, watcher, running, cur, mine, cause, wrapped, ctxOf>>

(* Mutant of ResetRunning: running is reset without waiting for the calls. *)
MutResetRunning(n) ==
    /\ waiter[n] \in {"spawned", "passed"}
    /\ waiter' = [waiter EXCEPT ![n] = IF @ = "passed" THEN "done" ELSE "parked"]
    /\ running' = FALSE
    /\ UNCHANGED <<pc, ctxDone, watcher, cur, mine, cause, wrapped, ctxOf, panicked>>

(* The waiting goroutine resets running, under mux.                        *)
ResetRunning(n) ==
    /\ waiter[n] = "passed"
    /\ waiter' = [waiter EXCEPT ![n] = "done"]
    /\ running' = FALSE
    /\ UNCHANGED <<pc, ctxDone, watcher, cur, mine, cause, wrapped, ctxOf, panicked>>

(* A panic in a goroutine ends the process.                                *)
Next ==
    /\ ~panicked
    /\ \/ \E c \in Calls : \/ Run(c) \/ CancelCtx(c) \/ Watch(c) \/ Join(c) \/ Select(c)
                           \/ ReturnStopped(c) \/ ReturnDone(c)
       \/ \E n \in Instances : \/ StartWrapped(n) \/ WrappedReturns(n)
                               \/ Wait(n) \/ WaitReturns(n) \/ ResetRunning(n)

(* The context of the instance's wrapped Runnable has been cancelled.      *)
Stopping(n) == ctxOf[n] # 0 /\ cause[ctxOf[n]] # "open"

(* Goroutines that can run do run; a wrapped Runnable whose context is     *)
(* cancelled returns, one that is not cancelled need not.                  *)
Fairness ==
    /\ \A c \in Calls : /\ WF_vars(~panicked /\ Watch(c)) /\ WF_vars(~panicked /\ Join(c))
                        /\ WF_vars(~panicked /\ Select(c))
                        /\ WF_vars(~panicked /\ ReturnStopped(c)) /\ WF_vars(~panicked /\ ReturnDone(c))
    /\ \A n \in Instances : /\ WF_vars(~panicked /\ StartWrapped(n))
                            /\ WF_vars(~panicked /\ Stopping(n) /\ WrappedReturns(n))
                            /\ WF_vars(~panicked /\ Wait(n)) /\ WF_vars(~panicked /\ WaitReturns(n))
                            /\ WF_vars(~panicked /\ ResetRunning(n))

Spec == Init /\ [][Next]_vars
FairSpec == Spec /\ Fairness

-----------------------------------------------------------------------------
TypeOK ==
    /\ pc \in [Calls -> {"idle", "locking", "joined", "select", "returned"}]
    /\ ctxDone \in [Calls -> BOOLEAN]
    /\ watcher \in [Calls -> {"none", "waiting", "done"}]
    /\ running \in BOOLEAN
    /\ cur \in 0..Cardinality(Calls)
    /\ mine \in [Calls -> 0..Cardinality(Calls)]
    /\ cause \in [Instances -> {"open", "other", "wrapped"}]
    /\ wrapped \in [Instances -> {"none", "spawned", "running", "completed", "stopped"}]
    /\ ctxOf \in [Instances -> 0..Cardinality(Calls)]
    /\ waiter \in [Instances -> {"none", "spawned", "parked", "woken", "passed", "done", "dead"}]
    /\ panicked \in BOOLEAN

(* The flag and the goroutine that resets it agree: while running is set   *)
(* exactly one waiter is alive, the current instance's, so running cannot  *)
(* be reset under a later instance by the waiter of an earlier one.        *)
Live(n) == waiter[n] \in {"spawned", "parked", "woken", "passed", "dead"}

OneWaiter ==
    /\ running => cur # 0 /\ Live(cur)
    /\ \A n \in Instances : Live(n) => running /\ n = cur

(* Calls have independent lifecycles: without StopOnAny, cancelling one    *)
(* call ends no other, neither directly nor by way of the instance they    *)
(* share or of its successor; what ends a call that was not cancelled is a *)
(* wrapped Runnable that completed on its own.  And running is reset only  *)
(* by the waiter of the instance that set it.  A call may still find that  *)
(* instance after its waiter has passed Wait: see OneInstance.             *)
IndependentLifecycles ==
    /\ ~StopOnAny => \A c \in Calls :
           pc[c] = "returned" /\ ~ctxDone[c] => \E n \in Instances : wrapped[n] = "completed"
    /\ OneWaiter

(* A call whose context is cancelled returns.                              *)
CancelledCallReturns ==
    \A c \in Calls : (ctxDone[c] /\ c \in Active) ~> (pc[c] = "returned" \/ panicked)

(* After the last call has returned running is reset, so that a later call *)
(* starts the wrapped Runnable again.                                      *)
CanStartAgain == (running /\ Active = {}) ~> (~running \/ Active # {} \/ panicked)

-----------------------------------------------------------------------------
(* What the documentation says.                                            *)

(* "SingletonRunner runs a single Runnable".                               *)
SingleRunnable == \A m, n \in Instances : wrapped[m] = "running" /\ wrapped[n] = "running" => m = n

(* The calls that wait at a time wait on one and the same instance.        *)
OneInstance == \A c, d \in Calls : pc[c] = "select" /\ pc[d] = "select" => mine[c] = mine[d]

(* "allows for multiple distinct calls to Run() which [can] have           *)
(* independent lifecycles": whatever the order of calls, no panic.         *)
NoWaitGroupReuse == ~panicked

(* "Run runs until ... the underlying Runnable completes".                 *)
CompletionEndsCalls ==
    \A c \in Calls, n \in Instances :
        (mine[c] = n /\ wrapped[n] = "completed") ~> (pc[c] = "returned" \/ panicked)

(* "StopOnAny tells the SingletonRunner to stop all Run() calls if any one *)
(* of them is stopped".                                                    *)
StopAnyStopsAll ==
    StopOnAny => \A c, d \in Calls :
        (/\ pc[c] = "select" /\ pc[d] = "select" /\ mine[c] = mine[d]
         /\ ctxDone[c]) ~> (pc[d] = "returned" \/ panicked)

=============================================================================
