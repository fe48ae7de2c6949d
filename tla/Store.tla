-------------------------------- MODULE Store --------------------------------
(***************************************************************************)
(* resource/store.go, typedstore.go, simplestore.go and updater.go over    *)
(* k8s/client.go and k8s/gvclient.go: the operations on one object that    *)
(* clients run against the API server (external), concurrently.  Each      *)
(* request is a step; an operation is one to seven of them.                *)
(*                                                                         *)
(* What an object contains is a set of labels.  A client adds a label of   *)
(* its own, or removes it: a request that changes other labels undoes the  *)
(* work of others.                                                         *)
(***************************************************************************)
EXTENDS Naturals, FiniteSets

CONSTANTS
    Clients,     \* callers of the stores
    Removers,    \* those whose changes remove their label
    MaxRetries,  \* conflicts UpdateObject gets over (2 in the code)
    MaxOps,      \* bound: operations
    MaxFaults    \* bound: requests that fail

ASSUME StoreAssumption ==
    /\ Removers \subseteq Clients
    /\ {MaxRetries, MaxOps, MaxFaults} \subseteq Nat

VARIABLES
    object,    \* API server: the object, live or not
    revision,  \* API server: the last resource version given out
    op,        \* client -> the operation it runs
    ops, faults,
    raced      \* history: client -> writes of others since its operation began

server == <<object, revision>>
storeVars == <<object, revision, op, ops, faults, raced>>

(* incarnation: the resource version the object was created with.          *)
Gone == [live |-> FALSE, rv |-> 0, incarnation |-> 0, labels |-> {}]

(* The operations, those of the three stores together where they make the  *)
(* same requests:                                                          *)
(*   add         Store.Add, SimpleAdd, TypedStore.Add, SimpleStore.Add;    *)
(*   update      Store.Update and TypedStore.Update of an object the       *)
(*               caller got before, SimpleStore.Update;                    *)
(*   overwrite   Store.Update of an object without a resource version;     *)
(*   status      UpdateSubresource;                                        *)
(*   upsert      Store.Upsert and TypedStore.Upsert of a new object;       *)
(*   updateObject, delete, forceDelete.                                    *)
Operations == {"add", "update", "overwrite", "status", "upsert", "updateObject", "delete", "forceDelete"}

(* Those that send the resource version of what they have read.             *)
Guarded == {"update", "updateObject"}

Idle == [pc |-> "idle", kind |-> "none"]

Own(p, labels) == IF p \in Removers THEN labels \ {p} ELSE labels \cup {p}

Returns(p, result) == op' = [op EXCEPT ![p] = [pc |-> "done", kind |-> op[p].kind, result |-> result]]

-----------------------------------------------------------------------------
(* The API server answers a request.                                        *)

Write(p, v) ==
    /\ object' = [v EXCEPT !.rv = revision + 1]
    /\ revision' = revision + 1
    /\ raced' = [q \in Clients |-> IF q = p THEN raced[q] ELSE raced[q] + 1]

NoWrite == UNCHANGED <<server, raced>>

(* Decoding an answer into an object that was read before merges the maps:  *)
(* labels the server no longer has stay.                                    *)
Decoded(old, labels) == old \cup labels

-----------------------------------------------------------------------------
FirstRequest(kind) ==
    CASE kind = "add"                              -> "create"
      [] kind \in {"delete", "forceDelete"}        -> "delete"
      [] kind \in {"overwrite", "status"}          -> "getMetadata"
      [] kind \in {"update", "updateObject", "upsert"} -> "get"

Start(p) ==
    /\ op[p].pc \in {"idle", "done"} /\ ops < MaxOps
    /\ \E kind \in Operations :
          op' = [op EXCEPT ![p] = [pc |-> FirstRequest(kind), kind |-> kind, rv |-> 0,
                                   labels |-> Own(p, {}), tries |-> 0]]
    /\ ops' = ops + 1
    /\ raced' = [raced EXCEPT ![p] = 0]
    /\ UNCHANGED <<server, faults>>

(* client.Get.  Upsert goes on with the caller's object, and creates it if  *)
(* there is none; the others change what they got.                          *)
Get(p) ==
    /\ op[p].pc = "get"
    /\ op' = [op EXCEPT ![p] =
                 CASE op[p].kind = "upsert" /\ object.live  -> [@ EXCEPT !.pc = "getMetadata"]
                   [] op[p].kind = "upsert" /\ ~object.live -> [@ EXCEPT !.pc = "create"]
                   [] op[p].kind # "upsert" /\ object.live  ->
                          [@ EXCEPT !.pc = "update", !.rv = object.rv, !.labels = Own(p, object.labels)]
                   [] op[p].kind # "upsert" /\ ~object.live ->
                          [pc |-> "done", kind |-> @.kind, result |-> "NotFound"]]
    /\ NoWrite /\ UNCHANGED <<ops, faults>>

(* UpdateInto without a resource version takes the current one.             *)
GetMetadata(p) ==
    /\ op[p].pc = "getMetadata"
    /\ IF object.live THEN op' = [op EXCEPT ![p].pc = "update", ![p].rv = object.rv]
       ELSE Returns(p, "NotFound")
    /\ NoWrite /\ UNCHANGED <<ops, faults>>

(* A conflict: UpdateObject starts over, at most MaxRetries times.          *)
MutConflict(p) ==
    IF op[p].kind = "updateObject" /\ op[p].tries + 1 < MaxRetries
    THEN op' = [op EXCEPT ![p].pc = "refresh"]
    ELSE Returns(p, "Conflict")

Conflict(p) ==
    IF op[p].kind = "updateObject" /\ op[p].tries < MaxRetries
    THEN op' = [op EXCEPT ![p].pc = "refresh"]
    ELSE Returns(p, "Conflict")

Written(p) == IF op[p].kind = "status" THEN object ELSE [object EXCEPT !.labels = op[p].labels]

Update(p) ==
    /\ op[p].pc = "update"
    /\ CASE ~object.live                          -> NoWrite /\ Returns(p, "NotFound")
         [] object.live /\ op[p].rv # object.rv -> NoWrite /\ Conflict(p)
         [] object.live /\ op[p].rv = object.rv -> Write(p, Written(p)) /\ Returns(p, "ok")
    /\ UNCHANGED <<ops, faults>>

(* Mutant of Refresh: only the resource version is taken from the server.   *)
MutRefresh(p) ==
    /\ op[p].pc = "refresh"
    /\ IF object.live
       THEN op' = [op EXCEPT ![p].pc = "update", ![p].rv = object.rv, ![p].tries = @ + 1]
       ELSE Returns(p, "NotFound")
    /\ NoWrite /\ UNCHANGED <<ops, faults>>

(* UpdateObject's GetInto and updateFunc after a conflict.                  *)
Refresh(p) ==
    /\ op[p].pc = "refresh"
    /\ IF object.live
       THEN op' = [op EXCEPT ![p].pc = "update", ![p].rv = object.rv, ![p].tries = @ + 1,
                             ![p].labels = Own(p, Decoded(@, object.labels))]
       ELSE Returns(p, "NotFound")
    /\ NoWrite /\ UNCHANGED <<ops, faults>>

Create(p) ==
    /\ op[p].pc = "create"
    /\ IF object.live THEN NoWrite /\ Returns(p, "AlreadyExists")
       ELSE /\ Write(p, [live |-> TRUE, rv |-> 0, incarnation |-> revision + 1, labels |-> op[p].labels])
            /\ Returns(p, "ok")
    /\ UNCHANGED <<ops, faults>>

(* Delete; ForceDelete does not mind that there is nothing to delete.       *)
Delete(p) ==
    /\ op[p].pc = "delete"
    /\ IF object.live THEN Write(p, Gone) /\ Returns(p, "ok")
       ELSE NoWrite /\ Returns(p, IF op[p].kind = "forceDelete" THEN "ok" ELSE "NotFound")
    /\ UNCHANGED <<ops, faults>>

(* A request fails.                                                         *)
Fault(p) ==
    /\ op[p].pc \notin {"idle", "done"} /\ faults < MaxFaults
    /\ faults' = faults + 1
    /\ Returns(p, "error")
    /\ NoWrite /\ UNCHANGED ops

Client(p) == Get(p) \/ GetMetadata(p) \/ Update(p) \/ Refresh(p) \/ Create(p) \/ Delete(p)

StoreInit ==
    /\ \E live \in BOOLEAN :
           object = IF live THEN [live |-> TRUE, rv |-> 1, incarnation |-> 1, labels |-> Removers] ELSE Gone
    /\ revision = 1
    /\ op = [p \in Clients |-> Idle]
    /\ ops = 0 /\ faults = 0
    /\ raced = [p \in Clients |-> 0]

StoreNext == \E p \in Clients : Start(p) \/ Client(p) \/ Fault(p)

StoreSpec == StoreInit /\ [][StoreNext]_storeVars

-----------------------------------------------------------------------------
(* An operation that sends the resource version it read never undoes what   *)
(* others have added, however many conflicts it got over, and never writes  *)
(* to another object of the same name, created since.                       *)
NoLostUpdate ==
    [][\A p \in Clients : op[p].kind \in Guarded /\ op[p].pc = "update" /\ op'[p].pc = "done" /\ revision' # revision =>
          /\ object.labels \ object'.labels \subseteq {p}
          /\ object'.incarnation = object.incarnation]_storeVars

(* A conflict, a missing object in the middle of an update, or an object    *)
(* that appears in the middle of an Upsert: the operation lost against      *)
(* writes of others made while it ran, UpdateObject against one more than   *)
(* it retries.                                                              *)
LosesOnlyRaces ==
    \A p \in Clients : op[p].pc = "done" =>
        /\ op[p].result = "Conflict" => raced[p] > IF op[p].kind = "updateObject" THEN MaxRetries ELSE 0
        /\ op[p].kind = "upsert" /\ op[p].result # "error" => op[p].result = "ok" \/ raced[p] > 0
=============================================================================
