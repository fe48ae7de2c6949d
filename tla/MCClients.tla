------------------------------ MODULE MCClients ------------------------------
(***************************************************************************)
(* The stores and the watch of the Kubernetes client for TLC.  They share  *)
(* nothing but the API server: a behaviour is one of the stores or one of  *)
(* the watch.                                                              *)
(***************************************************************************)
EXTENDS Store, WatchResponse

VARIABLE part

vars == <<storeVars, watchVars, part>>

Init ==
    /\ part \in {"store", "watch"}
    /\ StoreInit /\ (part = "watch" => ~object.live)
    /\ WatchInit /\ (part = "store" => bad = {})

Next ==
    \/ part = "store" /\ StoreNext /\ UNCHANGED <<watchVars, part>>
    \/ part = "watch" /\ WatchNext /\ UNCHANGED <<storeVars, part>>

Spec == Init /\ [][Next]_vars /\ WatchFairness
=============================================================================
