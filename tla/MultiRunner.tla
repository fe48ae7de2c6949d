---------------------------- MODULE MultiRunner -----------------------------
(***************************************************************************)
(* app/runner.go, MultiRunner: run every Runnable in a goroutine, hand the *)
(* errors to ErrorHandler over a buffered channel, and stop them all when  *)
(* the handler says so or the context ends.                                *)
(***************************************************************************)
EXTENDS Naturals, FiniteSets

CONSTANT Runners   \* m.Runners

ASSUME MultiRunnerAssumption == IsFiniteSet(Runners)

VARIABLES
    exitWait,   \* is m.ExitWait set?  Chosen once
    ctxDone,    \* the context of Run
    cancelled,  \* propagatedContext
    runner,     \* runner -> its goroutine
    errs,       \* runners whose error is in the channel
    closed,     \* errsClosed, and the channel is closed
    timedOut,   \* the flag, written and read without a lock
    main,       \* the goroutine of Run
    handled     \* history: runners whose error ErrorHandler was given

vars == <<exitWait, ctxDone, cancelled, runner, errs, closed, timedOut, main, handled>>

(* Mutant of ErrsCap: room for one error.                                  *)
MutErrsCap == 1

(* make(chan error, len(m.Runners)).                                       *)
ErrsCap == Cardinality(Runners)

-----------------------------------------------------------------------------
Init ==
    /\ exitWait \in BOOLEAN
    /\ ctxDone = FALSE
    /\ cancelled = FALSE
    /\ runner = [r \in Runners |-> "run"]
    /\ errs = {}
    /\ closed = FALSE
    /\ timedOut = FALSE
    /\ main = "select"
    /\ handled = {}

CtxDone ==
    /\ ~ctxDone
    /\ ctxDone' = TRUE
    /\ UNCHANGED <<exitWait, cancelled, runner, errs, closed, timedOut, main, handled>>

(* r.Run returns and wg.Done is called; the error is not yet delivered.    *)
Return(r) ==
    /\ runner[r] = "run"
    /\ \E next \in {"exited", "failed"} : runner' = [runner EXCEPT ![r] = next]
    /\ UNCHANGED <<exitWait, ctxDone, cancelled, errs, closed, timedOut, main, handled>>

(* errsClosedMux is held by the goroutine that is in its send.             *)
MuxFree == \A r \in Runners : runner[r] # "locked"

(* Take errsClosedMux to deliver the error, unless Run has timed out: that *)
(* flag is read without a lock, so either value may be seen.  The error is *)
(* dropped if Run has closed the channel.                                  *)
Acquire(r) ==
    /\ runner[r] = "failed"
    /\ \/ timedOut /\ runner' = [runner EXCEPT ![r] = "exited"]
       \/ MuxFree /\ runner' = [runner EXCEPT ![r] = IF closed THEN "exited" ELSE "locked"]
    /\ UNCHANGED <<exitWait, ctxDone, cancelled, errs, closed, timedOut, main, handled>>

(* Send the error with the mutex held, which blocks on a full channel, and *)
(* release it.                                                             *)
Deliver(r) ==
    /\ runner[r] = "locked"
    /\ Cardinality(errs) < ErrsCap
    /\ errs' = errs \cup {r}
    /\ runner' = [runner EXCEPT ![r] = "exited"]
    /\ UNCHANGED <<exitWait, ctxDone, cancelled, closed, timedOut, main, handled>>

(* Mutant of Receive: a received error is not given to ErrorHandler.       *)
MutReceive ==
    /\ main = "select"
    /\ \E r \in errs : errs' = errs \ {r}
    /\ UNCHANGED <<exitWait, ctxDone, cancelled, runner, closed, timedOut, main, handled>>

(* An error is received and ErrorHandler called; if it returns true the    *)
(* propagated context is cancelled and Run waits for the runners.          *)
Receive ==
    /\ main = "select"
    /\ \E r \in errs : errs' = errs \ {r} /\ handled' = handled \cup {r}
    /\ \/ UNCHANGED <<cancelled, main>>
       \/ cancelled' = TRUE /\ main' = "wait"
    /\ UNCHANGED <<exitWait, ctxDone, runner, closed, timedOut>>

OnCtxDone ==
    /\ main = "select" /\ ctxDone
    /\ cancelled' = TRUE
    /\ main' = "wait"
    /\ UNCHANGED <<exitWait, ctxDone, runner, errs, closed, timedOut, handled>>

(* Mutant of AllExited: Run does not wait for the slowest runner.          *)
MutAllExited ==
    /\ main = "wait"
    /\ \E r \in Runners : runner[r] # "run"
    /\ main' = "closing"
    /\ UNCHANGED <<exitWait, ctxDone, cancelled, runner, errs, closed, timedOut, handled>>

(* wg.Wait, or waitOrTimeout in time.                                      *)
AllExited ==
    /\ main = "wait"
    /\ \A r \in Runners : runner[r] # "run"
    /\ main' = "closing"
    /\ UNCHANGED <<exitWait, ctxDone, cancelled, runner, errs, closed, timedOut, handled>>

(* Mutant of Timeout: the wait is never cut short.                         *)
MutTimeout == AllExited

Timeout ==
    /\ main = "wait" /\ exitWait
    /\ timedOut' = TRUE
    /\ main' = "closing"
    /\ UNCHANGED <<exitWait, ctxDone, cancelled, runner, errs, closed, handled>>

(* The deferred function closes the channel under errsClosedMux.           *)
Close ==
    /\ main = "closing" /\ MuxFree
    /\ closed' = TRUE
    /\ main' = "returned"
    /\ UNCHANGED <<exitWait, ctxDone, cancelled, runner, errs, timedOut, handled>>

Next ==
    \/ CtxDone \/ Receive \/ OnCtxDone \/ AllExited \/ Timeout \/ Close
    \/ \E r \in Runners : Return(r) \/ Acquire(r) \/ Deliver(r)

(* The Run goroutine and the delivering goroutines are scheduled; a runner *)
(* is only relied on when there is no ExitWait, and then only to return    *)
(* once its context is cancelled.                                          *)
Fairness ==
    /\ WF_vars(Receive) /\ WF_vars(OnCtxDone) /\ WF_vars(AllExited) /\ WF_vars(Timeout) /\ WF_vars(Close)
    /\ \A r \in Runners :
          WF_vars(Acquire(r)) /\ WF_vars(Deliver(r)) /\ WF_vars(cancelled /\ ~exitWait /\ Return(r))

Spec == Init /\ [][Next]_vars
FairSpec == Spec /\ Fairness

-----------------------------------------------------------------------------
(* A goroutine with an error to send, which holds the mutex Run needs to   *)
(* return, finds room in the channel, however many pile up unreceived.     *)
SendNeverBlocks ==
    \A r \in Runners : runner[r] \in {"failed", "locked"} => Cardinality(errs) < ErrsCap

(* A graceful return leaves no runner running, only a timed-out one does.  *)
GracefulReturn ==
    main \in {"closing", "returned"} /\ ~timedOut => \A r \in Runners : runner[r] # "run"

(* Run is neither held up by a goroutine that cannot send its error nor    *)
(* gone before the runners it can still wait for.                          *)
WaitsForRunners == SendNeverBlocks /\ GracefulReturn

(* Run is told of every early failure until it decides to stop.            *)
FailureReachesHandler ==
    \A r \in Runners : (runner[r] = "failed") ~> (r \in handled \/ main # "select")

(* Run returns after its context is cancelled, past every goroutine that   *)
(* holds the mutex; with ExitWait even when the runners do not react to    *)
(* the cancellation.                                                       *)
RunReturns == ctxDone ~> main = "returned"

(* No goroutine is left behind: a runner's error is delivered or dropped,  *)
(* also when it arrives after Run has returned.                            *)
NoGoroutineLeft == \A r \in Runners : (runner[r] = "failed") ~> (runner[r] = "exited")

(* Everything ends: Run, and every goroutine it has started.               *)
RunEnds == RunReturns /\ NoGoroutineLeft

=============================================================================
