---------------------------- MODULE BufferedQueue ---------------------------
(***************************************************************************)
(* operator/informer_processor.go, bufferedQueue, with its two consumers:  *)
(* informerProcessorListener (the processor stops the queue, the listener  *)
(* reads until the output channel is closed) and a worker of               *)
(* concurrentWatcher (operator/concurrentwatcher.go: the worker leaves     *)
(* when its context ends and then stops the queue).                        *)
(*                                                                         *)
(* Both channels are unbuffered: a send and its receive are one step.      *)
(***************************************************************************)
EXTENDS Naturals, Sequences

CONSTANTS
    Producers,   \* goroutines that push
    MaxPush      \* bound: events each of them pushes

ASSUME BufferedQueueAssumption == MaxPush \in Nat

(* The n-th event of a producer.                                           *)
Events == Producers \X (1..MaxPush)

VARIABLES
    ctxStops,   \* TRUE: a concurrentWatcher worker, FALSE: a listener
    blocking,   \* does the consumer's handler block for ever?
    pushed,     \* producer -> number of its events pushed so far
    sending,    \* producers in push, holding the read lock of stopMux
    stopper,    \* the goroutine in stop
    stopped,    \* l.stopped, and incomingEvents is closed
    runner,     \* the goroutine in run
    event,      \* local of run: <<e>> while e is offered on toProcess, else <<>>
    buf,        \* the ring buffer
    consumer,   \* the goroutine reading toProcess
    delivered   \* history: events the consumer has received

queueVars == <<ctxStops, blocking, pushed, sending, stopper, stopped, runner, event, buf, consumer, delivered>>

Pushing(p) == <<p, pushed[p] + 1>>

-----------------------------------------------------------------------------
QueueInit ==
    /\ ctxStops \in BOOLEAN
    /\ blocking \in BOOLEAN
    /\ pushed = [p \in Producers |-> 0]
    /\ sending = {}
    /\ stopper = "idle"
    /\ stopped = FALSE
    /\ runner = "off"
    /\ event = <<>>
    /\ buf = <<>>
    /\ consumer = "reading"
    /\ delivered = <<>>

(* push: take the read lock, which a waiting writer holds up; drop the     *)
(* event if stopped, else block in the send with the lock held.            *)
Push(p) ==
    /\ pushed[p] < MaxPush /\ p \notin sending
    /\ stopper # "locking"
    /\ IF stopped
       THEN pushed' = [pushed EXCEPT ![p] = @ + 1] /\ UNCHANGED sending
       ELSE sending' = sending \cup {p} /\ UNCHANGED pushed
    /\ UNCHANGED <<ctxStops, blocking, stopper, stopped, runner, event, buf, consumer, delivered>>

StartRun ==
    /\ runner = "off"
    /\ runner' = "on"
    /\ UNCHANGED <<ctxStops, blocking, pushed, sending, stopper, stopped, event, buf, consumer, delivered>>

(* Mutants of Receive: the newest event is offered first; an event is only *)
(* taken in when no other is waiting.                                      *)
MutReceive(p) ==
    /\ runner = "on" /\ p \in sending
    /\ event' = <<Pushing(p)>>
    /\ buf' = IF event = <<>> THEN buf ELSE buf \o event
    /\ pushed' = [pushed EXCEPT ![p] = @ + 1]
    /\ sending' = sending \ {p}
    /\ UNCHANGED <<ctxStops, blocking, stopper, stopped, runner, consumer, delivered>>
MutReceiveUnbuffered(p) ==
    /\ runner = "on" /\ p \in sending /\ event = <<>>
    /\ event' = <<Pushing(p)>>
    /\ pushed' = [pushed EXCEPT ![p] = @ + 1]
    /\ sending' = sending \ {p}
    /\ UNCHANGED <<ctxStops, blocking, stopper, stopped, runner, buf, consumer, delivered>>

(* run receives from incomingEvents; push returns and unlocks.             *)
Receive(p) ==
    /\ runner = "on" /\ p \in sending
    /\ IF event = <<>>
       THEN event' = <<Pushing(p)>> /\ UNCHANGED buf
       ELSE buf' = Append(buf, Pushing(p)) /\ UNCHANGED event
    /\ pushed' = [pushed EXCEPT ![p] = @ + 1]
    /\ sending' = sending \ {p}
    /\ UNCHANGED <<ctxStops, blocking, stopper, stopped, runner, consumer, delivered>>

(* Mutant of Offer: the buffer is not read for the next event.             *)
MutOffer ==
    /\ runner = "on" /\ event # <<>> /\ consumer = "reading"
    /\ delivered' = delivered \o event
    /\ consumer' = "handling"
    /\ event' = <<>>
    /\ UNCHANGED <<ctxStops, blocking, pushed, sending, stopper, stopped, runner, buf>>

(* run hands the event to the consumer and reads the next from the buffer. *)
Offer ==
    /\ runner = "on" /\ event # <<>> /\ consumer = "reading"
    /\ delivered' = delivered \o event
    /\ consumer' = "handling"
    /\ IF buf = <<>>
       THEN event' = <<>> /\ UNCHANGED buf
       ELSE event' = <<Head(buf)>> /\ buf' = Tail(buf)
    /\ UNCHANGED <<ctxStops, blocking, pushed, sending, stopper, stopped, runner>>

(* The consumer has handled an event and reads on.                         *)
Handled ==
    /\ consumer = "handling" /\ ~blocking
    /\ consumer' = "reading"
    /\ UNCHANGED <<ctxStops, blocking, pushed, sending, stopper, stopped, runner, event, buf, delivered>>

(* Mutant of RunReturns: run first waits until every event is consumed.    *)
MutRunReturns ==
    /\ runner = "on" /\ stopped /\ event = <<>>
    /\ runner' = "returned"
    /\ UNCHANGED <<ctxStops, blocking, pushed, sending, stopper, stopped, event, buf, consumer, delivered>>

(* run sees that incomingEvents is closed, returns and closes toProcess:   *)
(* what it still holds is lost.                                            *)
RunReturns ==
    /\ runner = "on" /\ stopped
    /\ runner' = "returned"
    /\ event' = <<>>
    /\ buf' = <<>>
    /\ UNCHANGED <<ctxStops, blocking, pushed, sending, stopper, stopped, consumer, delivered>>

(* A listener's loop ends with the channel, a worker's with its context.   *)
ConsumerEnds ==
    /\ consumer = "reading"
    /\ ctxStops \/ runner = "returned"
    /\ consumer' = "ended"
    /\ UNCHANGED <<ctxStops, blocking, pushed, sending, stopper, stopped, runner, event, buf, delivered>>

(* stop is called, by the processor or by the worker that has left ...     *)
CallStop ==
    /\ stopper = "idle"
    /\ ctxStops => consumer = "ended"
    /\ stopper' = "locking"
    /\ UNCHANGED <<ctxStops, blocking, pushed, sending, stopped, runner, event, buf, consumer, delivered>>

(* Mutant of Stop: the channel is closed without taking the write lock.    *)
MutStop ==
    /\ stopper = "locking"
    /\ stopped' = TRUE
    /\ stopper' = "done"
    /\ UNCHANGED <<ctxStops, blocking, pushed, sending, runner, event, buf, consumer, delivered>>

(* ... and gets the write lock when no push holds the read lock.           *)
Stop ==
    /\ stopper = "locking" /\ sending = {}
    /\ stopped' = TRUE
    /\ stopper' = "done"
    /\ UNCHANGED <<ctxStops, blocking, pushed, sending, runner, event, buf, consumer, delivered>>

QueueNext ==
    \/ \E p \in Producers : Push(p) \/ Receive(p)
    \/ StartRun \/ Offer \/ Handled \/ RunReturns \/ ConsumerEnds \/ CallStop \/ Stop

(* Goroutines are scheduled.  Nothing is assumed of the handler: it may    *)
(* block for ever.  No producer has to push, and nobody has to call stop.  *)
Fairness ==
    /\ WF_queueVars(StartRun) /\ WF_queueVars(RunReturns) /\ WF_queueVars(Stop)
    /\ WF_queueVars(Offer) /\ WF_queueVars(Handled)
    /\ \A p \in Producers : WF_queueVars(Receive(p))

QueueSpec == QueueInit /\ [][QueueNext]_queueVars
QueueFairSpec == QueueSpec /\ Fairness

-----------------------------------------------------------------------------
TypeOK ==
    /\ ctxStops \in BOOLEAN
    /\ blocking \in BOOLEAN
    /\ pushed \in [Producers -> 0..MaxPush]
    /\ sending \subseteq Producers
    /\ stopper \in {"idle", "locking", "done"}
    /\ stopped \in BOOLEAN
    /\ runner \in {"off", "on", "returned"}
    /\ event \in {<<>>} \cup {<<e>> : e \in Events}
    /\ buf \in Seq(Events)
    /\ consumer \in {"reading", "handling", "ended"}
    /\ delivered \in Seq(Events)

(* Events wait in the buffer only behind one that is being offered.        *)
BufferBehindEvent == event = <<>> => buf = <<>>

(* No push sends on the closed incomingEvents: stop cannot close it while  *)
(* a producer is blocked in its send, and none starts sending afterwards.  *)
NoSendOnClosed == stopped => sending = {}

Waiting == event \o buf

(* The queue implements the abstract event stream: each event is delivered *)
(* at most once, in the order the events were taken in.  In-order delivery *)
(* per object rests on it.                                                 *)
Stream == INSTANCE EventStream
              WITH pending <- Waiting, delivered <- delivered, open <- (runner # "returned"),
                   Events <- Events

ImplementsStream == Stream!Spec

(* "This allows writes to the events channel to not be blocked by          *)
(* processing of the events": push returns although a handler never does.  *)
PushReturns == \A p \in Producers : (p \in sending) ~> (p \notin sending)

(* stop returns and run ends, also when the consumer has left or blocks.   *)
StopEnds == (stopper = "locking") ~> (stopped /\ runner = "returned")

(* An event that was taken in reaches the consumer unless the queue is     *)
(* stopped, the consumer has left or its handler blocks.                   *)
Delivered ==
    \A e \in Events :
        (~blocking /\ \E i \in 1..Len(Waiting) : Waiting[i] = e)
            ~> ((\E i \in 1..Len(delivered) : delivered[i] = e) \/ stopped \/ consumer = "ended")

(* Neither push nor stop of the queue waits for a handler, and no event is *)
(* left behind in it.                                                      *)
NeverStuck == PushReturns /\ StopEnds /\ Delivered

=============================================================================
