---------------------------- MODULE WatchResponse ----------------------------
(***************************************************************************)
(* The watch of k8s/gvclient.go: WatchResponse, whose goroutine start      *)
(* translates the events of the API server's watch for WatchEvents, and    *)
(* metricsWatchWrapper, whose goroutine interceptEvents counts the events  *)
(* handed on by KubernetesWatch.                                           *)
(*                                                                         *)
(* Channels are sequences and a closed flag; an unbuffered send and its    *)
(* receive are one step.  The API server's watch (external) has the events *)
(* 1, 2, ... and may end at any time.  Its user calls WatchEvents, may     *)
(* then switch to KubernetesWatch, and stops what it has; it may also stop *)
(* what it has not started, or has stopped before.                         *)
(***************************************************************************)
EXTENDS Naturals, SequencesExt

CONSTANTS
    Buffer,     \* EventBufferSize of the watch
    MaxEvents   \* bound: events

ASSUME WatchResponseAssumption == Buffer \in Nat \ {0} /\ MaxEvents \in Nat

VARIABLES
    next, ended,             \* the API server's watch: events taken, channel closed
    bad,                     \* its events that cannot be translated
    user,                    \* what the user is doing
    handover,                \* events taken before KubernetesWatch
    translator, interceptor, \* the two goroutines: pc, and the event in hand
    ch, closed,              \* the channel of WatchEvents
    wch, wclosed,            \* the channel of the wrapper
    got, wgot                \* what the user has received from the two

apiWatch == <<next, ended, bad>>
channels == <<ch, closed, wch, wclosed>>
received == <<got, wgot>>
watchVars == <<next, ended, bad, user, handover, translator, interceptor, ch, closed, wch, wclosed, got, wgot>>

At(pc) == [pc |-> pc, event |-> 0]

-----------------------------------------------------------------------------
(* The API server ends the watch.                                           *)
WatchEnds ==
    /\ ~ended /\ ended' = TRUE
    /\ UNCHANGED <<next, bad, user, handover, translator, interceptor, channels, received>>

(* start: takes an event; one without an object or that cannot be           *)
(* translated is counted and dropped.  Of a watch that has ended the loop   *)
(* reads empty events until it is stopped.                                  *)
Translate ==
    /\ translator.pc = "select" /\ ~ended /\ next < MaxEvents
    /\ next' = next + 1
    /\ translator' = IF next' \in bad THEN translator ELSE [pc |-> "send", event |-> next']
    /\ UNCHANGED <<ended, bad, user, handover, interceptor, channels, received>>

(* Sending on a closed channel panics.                                      *)
SendTranslated ==
    /\ translator.pc = "send"
    /\ \/ closed /\ translator' = At("panic") /\ UNCHANGED ch
       \/ /\ ~closed /\ Len(ch) < Buffer
          /\ ch' = Append(ch, translator.event)
          /\ translator' = At("select")
    /\ UNCHANGED <<apiWatch, user, handover, interceptor, closed, wch, wclosed, received>>

(* interceptEvents: takes an event, and hands it on whatever it is ...      *)
Intercept ==
    /\ interceptor.pc = "select" /\ ~ended /\ next < MaxEvents
    /\ next' = next + 1
    /\ interceptor' = [pc |-> "send", event |-> next']
    /\ UNCHANGED <<ended, bad, user, handover, translator, channels, received>>

SendIntercepted ==
    /\ interceptor.pc = "send" /\ Len(wch) < Buffer
    /\ wch' = Append(wch, interceptor.event)
    /\ interceptor' = At("select")
    /\ UNCHANGED <<apiWatch, user, handover, translator, ch, closed, wclosed, received>>

(* ... until the watch has ended.                                           *)
InterceptorExits ==
    /\ interceptor.pc = "select" /\ ended
    /\ interceptor' = At("done") /\ wclosed' = TRUE
    /\ UNCHANGED <<apiWatch, user, handover, translator, ch, closed, wch, received>>

-----------------------------------------------------------------------------
(* The user receives.                                                       *)
Receive ==
    /\ ch # <<>>
    /\ got' = Append(got, Head(ch)) /\ ch' = Tail(ch)
    /\ UNCHANGED <<apiWatch, user, handover, translator, interceptor, closed, wch, wclosed, wgot>>

ReceiveWrapped ==
    /\ wch # <<>>
    /\ wgot' = Append(wgot, Head(wch)) /\ wch' = Tail(wch)
    /\ UNCHANGED <<apiWatch, user, handover, translator, interceptor, ch, closed, wclosed, got>>

WatchEvents ==
    /\ user = "new" /\ user' = "watching"
    /\ translator' = At("select")
    /\ UNCHANGED <<apiWatch, handover, interceptor, channels, received>>

(* KubernetesWatch and Stop wait until start takes their signal.  Stop      *)
(* sends its signal whether or not start is there to take it.               *)
CallKubernetesWatch ==
    /\ user = "watching" /\ user' = "switching"
    /\ UNCHANGED <<apiWatch, handover, translator, interceptor, channels, received>>

CallStop ==
    /\ user \in {"new", "watching", "wrapped", "stopped"} /\ user' = "stopping"
    /\ UNCHANGED <<apiWatch, handover, translator, interceptor, channels, received>>

(* The signal is taken.  start closes its channel and returns;              *)
(* KubernetesWatch returns the wrapper, and the user asks it for events.    *)
KubernetesWatch ==
    /\ \/ user = "new"
       \/ user = "switching" /\ translator.pc = "select"
    /\ user' = "wrapped"
    /\ translator' = At(IF user = "new" THEN "off" ELSE "done")
    /\ handover' = next
    /\ interceptor' = At("select")
    /\ UNCHANGED <<apiWatch, channels, received>>

(* Mutant of Stop: does not wait for the translation to end.                *)
MutStop ==
    /\ user = "stopping"
    /\ user' = "stopped"
    /\ closed' = TRUE /\ ended' = TRUE
    /\ UNCHANGED <<next, bad, handover, translator, interceptor, ch, wch, wclosed, received>>

(* The signal is taken: close the channel, stop the API server's watch.     *)
Stop ==
    /\ user = "stopping" /\ translator.pc = "select"
    /\ user' = "stopped" /\ translator' = At("done")
    /\ closed' = TRUE /\ ended' = TRUE
    /\ UNCHANGED <<next, bad, handover, interceptor, ch, wch, wclosed, received>>

(* start has closed stopCh as it returned: the send panics.  The caller may *)
(* recover, so that the goroutines go on.                                   *)
StopPanics ==
    /\ user = "stopping" /\ translator.pc = "done"
    /\ user' = "panicked"
    /\ UNCHANGED <<apiWatch, handover, translator, interceptor, channels, received>>

(* Mutant of StopWrapper: only signals, and does not stop the watch.        *)
MutStopWrapper ==
    /\ user = "wrapped" /\ user' = "stopped"
    /\ IF interceptor.pc = "select"
       THEN interceptor' = At("done") /\ wclosed' = TRUE
       ELSE UNCHANGED <<interceptor, wclosed>>
    /\ UNCHANGED <<apiWatch, handover, translator, ch, closed, wch, received>>

(* The wrapper's Stop stops the watch; interceptEvents takes the signal if  *)
(* it happens to wait for one.                                              *)
StopWrapper ==
    /\ user = "wrapped" /\ user' = "stopped"
    /\ ended' = TRUE
    /\ IF interceptor.pc = "select"
       THEN interceptor' = At("done") /\ wclosed' = TRUE
       ELSE UNCHANGED <<interceptor, wclosed>>
    /\ UNCHANGED <<next, bad, handover, translator, ch, closed, wch, received>>

WatchInit ==
    /\ next = 0 /\ ended = FALSE /\ bad \in SUBSET (1..MaxEvents)
    /\ user = "new" /\ handover = 0
    /\ translator = At("off") /\ interceptor = At("off")
    /\ ch = <<>> /\ closed = FALSE /\ wch = <<>> /\ wclosed = FALSE
    /\ got = <<>> /\ wgot = <<>>

WatchNext ==
    \/ WatchEnds
    \/ Translate \/ SendTranslated
    \/ Intercept \/ SendIntercepted \/ InterceptorExits
    \/ Receive \/ ReceiveWrapped
    \/ WatchEvents \/ CallKubernetesWatch \/ CallStop \/ KubernetesWatch
    \/ Stop \/ StopPanics \/ StopWrapper

(* The goroutines run, the user goes on receiving from the channels it got. *)
WatchFairness ==
    /\ WF_watchVars(Translate \/ SendTranslated \/ Stop \/ (user = "switching" /\ KubernetesWatch))
    /\ WF_watchVars(Intercept \/ SendIntercepted \/ InterceptorExits)
    /\ WF_watchVars(Receive) /\ WF_watchVars(ReceiveWrapped)

WatchSpec == WatchInit /\ [][WatchNext]_watchVars /\ WatchFairness

-----------------------------------------------------------------------------
InHand(g) == IF g.pc = "send" THEN <<g.event>> ELSE <<>>

(* s has the elements of S, each once and in ascending order.               *)
Ascending(s, S) == ToSet(s) = S /\ \A i, j \in DOMAIN s : i < j => s[i] < s[j]

(* The user receives the translatable events in order, and across the       *)
(* switch to KubernetesWatch no event is lost or delivered twice: what one  *)
(* channel does not get the other does.  Nothing is sent on a closed        *)
(* channel.                                                                 *)
EveryEventOnce ==
    LET before == IF interceptor.pc = "off" THEN next ELSE handover
    IN  /\ translator.pc # "panic"
        /\ Ascending(got \o ch \o InHand(translator), (1..before) \ bad)
        /\ Ascending(wgot \o wch \o InHand(interceptor), (before + 1)..next)

(* Stop and KubernetesWatch, called while the translation is there, return  *)
(* as long as the user goes on receiving: the translation, which may hold   *)
(* an event, gets to its select.  And once stopped both goroutines end.     *)
StopEnds ==
    /\ (user \in {"stopping", "switching"} /\ translator.pc \in {"select", "send"})
           ~> user \in {"stopped", "wrapped"}
    /\ user = "stopped" ~> {translator.pc, interceptor.pc} \subseteq {"off", "done"}

-----------------------------------------------------------------------------
(* What the documentation says: "Stop stops the translation channel [...],  *)
(* and stops the continued watch request".  It does so at whatever point of *)
(* the watch it is called.                                                  *)
StopReturns == user = "stopping" ~> user = "stopped"
=============================================================================
