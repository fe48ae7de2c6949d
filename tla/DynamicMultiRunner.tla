------------------------- MODULE DynamicMultiRunner -------------------------
(***************************************************************************)
(* app/runner.go, DynamicMultiRunner: a MultiRunner whose Runnables come   *)
(* and go while it runs.  InformerController runs its informers with it.   *)
(*                                                                         *)
(* Errors go over an unbuffered channel that Run closes when it returns.   *)
(* The Runnables are taken to be distinct, so that the list is a set.      *)
(***************************************************************************)
CONSTANT Runnables

VARIABLES
    exitWait,      \* is d.ExitWait set?  Chosen once
    runners,          \* d.runners
    running,       \* d.running
    ctxDone,       \* the context of Run
    cancelled,     \* Runnable -> is the context of its tuple cancelled?
    runner,        \* Runnable -> the goroutine of its tuple
    mainTimedOut,  \* Runnable -> the flag of its tuple
    main,          \* the goroutine of Run
    waiter,        \* the goroutine in d.wg.Wait: Run's, or waitOrTimeout's
    refused,       \* history: has a Run been refused as "already running"
                   \* when no Run was active?
    panicked       \* has a goroutine sent on the closed channel, or met a
                   \* WaitGroup that was reused?

dynamicVars == <<exitWait, runners, running, ctxDone, cancelled, runner, mainTimedOut, main, waiter, refused, panicked>>

(* d.runCtx is cancelled from the moment Run stops listening.              *)
RunCtxDone == ctxDone \/ main \in {"wait", "closing", "returned"}

(* d.wg counts the tuples whose Runnable has not returned.                 *)
WaitGroup == {r \in Runnables : runner[r] = "run"}

-----------------------------------------------------------------------------
DynamicInit ==
    /\ exitWait \in BOOLEAN
    /\ runners = {}
    /\ running = FALSE
    /\ ctxDone = FALSE
    /\ cancelled = [r \in Runnables |-> FALSE]
    /\ runner = [r \in Runnables |-> "none"]
    /\ mainTimedOut = [r \in Runnables |-> FALSE]
    /\ main = "idle"
    /\ waiter = "none"
    /\ refused = FALSE
    /\ panicked = FALSE

(* Run, up to the unlock: every tuple of the list is started (runTuple).   *)
Run ==
    /\ main = "idle" /\ ~running
    /\ running' = TRUE
    /\ runner' = [r \in Runnables |-> IF r \in runners THEN "run" ELSE runner[r]]
    /\ mainTimedOut' = [r \in Runnables |-> IF r \in runners THEN FALSE ELSE mainTimedOut[r]]
    /\ main' = "select"
    /\ UNCHANGED <<exitWait, runners, ctxDone, cancelled, waiter, refused, panicked>>

(* A Run that finds running set returns the error "already running".       *)
RunRefused ==
    /\ running
    /\ refused' = (refused \/ main = "returned")
    /\ UNCHANGED <<exitWait, runners, running, ctxDone, cancelled, runner, mainTimedOut, main, waiter, panicked>>

CtxDone ==
    /\ main = "select" /\ ~ctxDone
    /\ ctxDone' = TRUE
    /\ UNCHANGED <<exitWait, runners, running, cancelled, runner, mainTimedOut, main, waiter, refused, panicked>>

(* Mutant of AddRunnable: a running DynamicMultiRunner ignores newcomers.  *)
MutAddRunnable(r) ==
    /\ r \notin runners /\ runner[r] = "none"
    /\ runners' = runners \cup {r}
    /\ UNCHANGED <<exitWait, running, ctxDone, cancelled, runner, mainTimedOut, main, waiter, refused, panicked>>

(* A Runnable is added for the first time; if running it is started, also  *)
(* when Run is about to return or has returned.                            *)
AddRunnable(r) ==
    /\ r \notin runners /\ runner[r] = "none"
    /\ runners' = runners \cup {r}
    /\ runner' = [runner EXCEPT ![r] = IF running THEN "run" ELSE @]
    /\ UNCHANGED <<exitWait, running, ctxDone, cancelled, mainTimedOut, main, waiter, refused, panicked>>

(* Mutant of RemoveRunnable: the context of the Runnable stays open.       *)
MutRemoveRunnable(r) ==
    /\ r \in runners
    /\ runners' = runners \ {r}
    /\ UNCHANGED <<exitWait, running, ctxDone, cancelled, runner, mainTimedOut, main, waiter, refused, panicked>>

RemoveRunnable(r) ==
    /\ r \in runners
    /\ runners' = runners \ {r}
    /\ cancelled' = [cancelled EXCEPT ![r] = @ \/ running]
    /\ UNCHANGED <<exitWait, running, ctxDone, runner, mainTimedOut, main, waiter, refused, panicked>>

(* runTuple's goroutine: the Runnable returns, wg.Done, which wakes the    *)
(* goroutine parked in Wait if it is the last ...                          *)
RunnableReturns(r) ==
    /\ runner[r] = "run"
    /\ \E next \in {"exited", "failed"} : runner' = [runner EXCEPT ![r] = next]
    /\ waiter' = IF WaitGroup = {r} /\ waiter = "parked" THEN "woken" ELSE waiter
    /\ UNCHANGED <<exitWait, runners, running, ctxDone, cancelled, mainTimedOut, main, refused, panicked>>

(* ... and unless mainTimedOut is seen the error is sent: the goroutine    *)
(* blocks until Run receives, and panics if the channel is closed.  The    *)
(* flag is read without the lock, so that its old value may be seen.       *)
Send(r) ==
    /\ runner[r] = "failed"
    /\ \/ /\ mainTimedOut[r]
          /\ runner' = [runner EXCEPT ![r] = "exited"]
          /\ UNCHANGED panicked
       \/ /\ runner' = [runner EXCEPT ![r] = "sending"]
          /\ panicked' = (main = "returned")
    /\ UNCHANGED <<exitWait, runners, running, ctxDone, cancelled, mainTimedOut, main, waiter, refused>>

(* Run receives an error; ErrorHandler decides whether to stop.            *)
Receive(r) ==
    /\ main = "select" /\ runner[r] = "sending"
    /\ runner' = [runner EXCEPT ![r] = "exited"]
    /\ main' \in {"select", "wait"}
    /\ UNCHANGED <<exitWait, runners, running, ctxDone, cancelled, mainTimedOut, waiter, refused, panicked>>

OnCtxDone ==
    /\ main = "select" /\ ctxDone
    /\ main' = "wait"
    /\ UNCHANGED <<exitWait, runners, running, ctxDone, cancelled, runner, mainTimedOut, waiter, refused, panicked>>

(* sync.WaitGroup.Wait (external): return at once at zero, else park until *)
(* the count drops to zero, and panic when AddRunnable has raised it again *)
(* before Wait returned.  After a timeout the goroutine waits on alone.    *)
Wait ==
    /\ main \in {"wait", "closing", "returned"}
    /\ \/ /\ waiter = "none"
          /\ waiter' = IF WaitGroup = {} THEN "passed" ELSE "parked"
          /\ UNCHANGED panicked
       \/ /\ waiter = "woken"
          /\ waiter' = "passed"
          /\ panicked' = (WaitGroup # {})
    /\ UNCHANGED <<exitWait, runners, running, ctxDone, cancelled, runner, mainTimedOut, main, refused>>

(* Mutant of AllExited: wg.Done comes after the send instead of before it. *)
MutAllExited ==
    /\ main = "wait" /\ \A r \in Runnables : runner[r] \in {"none", "exited"}
    /\ main' = "closing"
    /\ UNCHANGED <<exitWait, runners, running, ctxDone, cancelled, runner, mainTimedOut, waiter, refused, panicked>>

(* Wait has returned.  A Runnable added since then is not waited for.      *)
AllExited ==
    /\ main = "wait" /\ waiter = "passed"
    /\ main' = "closing"
    /\ UNCHANGED <<exitWait, runners, running, ctxDone, cancelled, runner, mainTimedOut, waiter, refused, panicked>>

(* waitOrTimeout gives up and setTimedOut flags the tuples of the list.    *)
Timeout ==
    /\ main = "wait" /\ exitWait
    /\ mainTimedOut' = [r \in Runnables |-> r \in runners \/ mainTimedOut[r]]
    /\ main' = "closing"
    /\ UNCHANGED <<exitWait, runners, running, ctxDone, cancelled, runner, waiter, refused, panicked>>

(* Mutant of Close: Run returns and leaves the channel open.               *)
MutClose ==
    /\ main = "closing"
    /\ main' = "returned"
    /\ UNCHANGED <<exitWait, runners, running, ctxDone, cancelled, runner, mainTimedOut, waiter, refused, panicked>>

(* The deferred close: a goroutine blocked in its send panics.             *)
Close ==
    /\ main = "closing"
    /\ main' = "returned"
    /\ panicked' = (\E r \in Runnables : runner[r] = "sending")
    /\ UNCHANGED <<exitWait, runners, running, ctxDone, cancelled, runner, mainTimedOut, waiter, refused>>

(* A panic in a goroutine ends the process.                                *)
DynamicNext ==
    /\ ~panicked
    /\ \/ Run \/ RunRefused \/ CtxDone \/ OnCtxDone \/ Wait \/ AllExited \/ Timeout \/ Close
       \/ \E r \in Runnables : \/ AddRunnable(r) \/ RemoveRunnable(r)
                               \/ RunnableReturns(r) \/ Send(r) \/ Receive(r)

(* Goroutines are scheduled.  A Runnable whose context is cancelled is     *)
(* relied on to return only where there is no ExitWait, or it was removed. *)
Fairness ==
    /\ WF_dynamicVars(~panicked /\ OnCtxDone) /\ WF_dynamicVars(~panicked /\ Wait)
    /\ WF_dynamicVars(~panicked /\ AllExited) /\ WF_dynamicVars(~panicked /\ Timeout)
    /\ WF_dynamicVars(~panicked /\ Close)
    /\ \A r \in Runnables :
           /\ WF_dynamicVars(~panicked /\ Send(r)) /\ WF_dynamicVars(~panicked /\ Receive(r))
           /\ WF_dynamicVars(~panicked /\ (cancelled[r] \/ (RunCtxDone /\ ~exitWait)) /\ RunnableReturns(r))

DynamicSpec == DynamicInit /\ [][DynamicNext]_dynamicVars
DynamicFairSpec == DynamicSpec /\ Fairness

-----------------------------------------------------------------------------
(* Whatever the order of Run, AddRunnable and RemoveRunnable, a Runnable   *)
(* in the list of a running DynamicMultiRunner has been started.           *)
ListedIsStarted == running => \A r \in runners : runner[r] # "none"

(* A Runnable that was removed while running is cancelled and ends.        *)
RemovedEnds ==
    \A r \in Runnables : (r \notin runners /\ runner[r] = "run") ~> (runner[r] # "run" \/ panicked)

(* Run returns after its context is cancelled, also while Runnables are    *)
(* added; unless a goroutine panics.                                       *)
RunReturns == ctxDone ~> (main = "returned" \/ panicked)

(* A goroutine that sends its error does not hang: it is received, or the  *)
(* channel is closed under it.                                             *)
SenderReleased ==
    \A r \in Runnables : (runner[r] = "sending") ~> (runner[r] = "exited" \/ panicked)

(* Everything ends: Run, and every goroutine that has an error to send.    *)
RunEnds == RunReturns /\ SenderReleased

-----------------------------------------------------------------------------
(* What the comments say.                                                  *)

(* "Only send the error if main isn't timed out (otherwise the channel is  *)
(* closed)": no error is sent on a closed channel.  A WaitGroup that is    *)
(* reused ends the process too.                                            *)
NoSendOnClosed == ~panicked

(* "Only one concurrent Run call is allowed at a time": a Run is refused   *)
(* only while another is active.                                           *)
RefusedOnlyWhileRunning == ~refused

=============================================================================
