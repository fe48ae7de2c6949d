---------------------------- MODULE ClientsProofs ----------------------------
(***************************************************************************)
(* What the operations of the stores promise to each other, for any set of *)
(* clients and any number of operations and faults; and what the watch     *)
(* delivers, for any number of events.                                     *)
(***************************************************************************)
EXTENDS Store, WatchResponse, SequenceTheorems, TLAPS

(* The operation of a client: none yet, one that runs, or one that is over. *)
Running == [pc: {"get", "getMetadata", "update", "refresh", "create", "delete"},
            kind: Operations, rv: Nat, labels: SUBSET Clients, tries: Nat]

Ended == [pc: {"done"}, kind: Operations, result: {"ok", "NotFound", "Conflict", "AlreadyExists", "error"}]

ServerOk ==
    /\ object \in [live: BOOLEAN, rv: Nat, incarnation: Nat, labels: SUBSET Clients]
    /\ revision \in Nat
    /\ object.rv <= revision
    /\ op \in [Clients -> {Idle} \cup Running \cup Ended]
    /\ raced \in [Clients -> Nat]

(* As long as the object is the one that was read, what a guarded update   *)
(* is about to send has all that others have put there.                    *)
ReadsAll(p) ==
    op[p].pc = "update" /\ op[p].kind \in Guarded /\ object.live /\ op[p].rv = object.rv =>
        object.labels \ {p} \subseteq op[p].labels

(* A resource version is given out once.  Where an operation has to find   *)
(* the object as it was, others have written if it does not; and more      *)
(* often than it has tried.                                                *)
CountsRaces(p) ==
    op[p] \in Running =>
        /\ op[p].rv <= revision
        /\ op[p].pc = "update" =>
              IF object.live /\ op[p].rv = object.rv THEN raced[p] >= op[p].tries ELSE raced[p] > op[p].tries
        /\ op[p].pc = "refresh" => raced[p] > op[p].tries
        /\ op[p].pc # "update" /\ op[p].pc # "refresh" => op[p].tries = 0
        /\ op[p].pc = "getMetadata" /\ op[p].kind = "upsert" /\ ~object.live => raced[p] > 0
        /\ op[p].pc = "create" /\ op[p].kind = "upsert" /\ object.live => raced[p] > 0
        /\ op[p].pc = "getMetadata" => op[p].kind \notin Guarded
        /\ op[p].pc = "delete" => op[p].kind \in {"delete", "forceDelete"}

(* LosesOnlyRaces, of one client.                                          *)
LosesRace(p) ==
    op[p].pc = "done" =>
        /\ op[p].result = "Conflict" => raced[p] > IF op[p].kind = "updateObject" THEN MaxRetries ELSE 0
        /\ op[p].kind = "upsert" /\ op[p].result # "error" => op[p].result = "ok" \/ raced[p] > 0

ClientOk(p) == ReadsAll(p) /\ CountsRaces(p) /\ LosesRace(p)

StoreInv == ServerOk /\ \A p \in Clients : ClientOk(p)

-----------------------------------------------------------------------------
LEMMA StoreInitInv == StoreInit => StoreInv
<1> SUFFICES ASSUME StoreInit PROVE StoreInv
    OBVIOUS
<1>1. object \in [live: BOOLEAN, rv: Nat, incarnation: Nat, labels: SUBSET Clients] /\ object.rv <= 1
    BY StoreAssumption DEF StoreInit, Gone
<1>2. ServerOk
    BY <1>1 DEF StoreInit, ServerOk
<1>3. \A p \in Clients : ClientOk(p)
    BY DEF StoreInit, Idle, ClientOk, ReadsAll, CountsRaces, LosesRace, Running
<1> QED
    BY <1>2, <1>3 DEF StoreInv

(* A client whose operation does not move, when nothing is written ...     *)
LEMMA Undisturbed ==
    ASSUME NEW p \in Clients, ClientOk(p), op'[p] = op[p], raced'[p] = raced[p], UNCHANGED server
    PROVE  ClientOk(p)'
BY DEF ClientOk, ReadsAll, CountsRaces, LosesRace, server

(* ... and when another client writes: it has lost its race, by the count. *)
LEMMA Overtaken ==
    ASSUME ServerOk, NEW p \in Clients, ClientOk(p), op'[p] = op[p], raced'[p] = raced[p] + 1,
           revision' = revision + 1, object'.rv = revision + 1
    PROVE  ClientOk(p)'
<1>1. op[p] \in {Idle} \cup Running \cup Ended /\ raced[p] \in Nat /\ revision \in Nat
    BY DEF ServerOk
<1>2. CASE op[p] = Idle
    BY <1>2 DEF Idle, ClientOk, ReadsAll, CountsRaces, LosesRace, Running
<1>3. CASE op[p] \in Running
    <2>1. op[p].rv \in Nat /\ op[p].tries \in Nat /\ op[p].pc # "done"
        BY <1>3 DEF Running
    <2>2. op[p].rv <= revision /\ op[p].rv # object'.rv
        BY <1>1, <1>3, <2>1 DEF ClientOk, CountsRaces
    <2>3. ReadsAll(p)' /\ LosesRace(p)'
        BY <2>1, <2>2 DEF ReadsAll, LosesRace
    <2>4. CountsRaces(p)'
        BY <1>1, <1>3, <2>1, <2>2 DEF ClientOk, CountsRaces
    <2> QED
        BY <2>3, <2>4 DEF ClientOk
<1>4. CASE op[p] \in Ended
    <2>1. op[p].pc = "done" /\ op[p] \notin Running
        BY <1>4 DEF Running, Ended
    <2>2. ReadsAll(p)' /\ CountsRaces(p)'
        BY <2>1 DEF ReadsAll, CountsRaces
    <2>3. LosesRace(p)'
        BY <1>1, <2>1, StoreAssumption DEF ClientOk, LosesRace
    <2> QED
        BY <2>2, <2>3 DEF ClientOk
<1> QED
    BY <1>1, <1>2, <1>3, <1>4

(* A step of client p that writes nothing: only its own part is left.      *)
LEMMA QuietStep ==
    ASSUME StoreInv, NEW p \in Clients, NEW o \in Running \cup Ended,
           op' = [op EXCEPT ![p] = o], NoWrite, ClientOk(p)'
    PROVE  StoreInv'
<1>1. ServerOk'
    BY DEF StoreInv, ServerOk, NoWrite, server
<1>2. \A q \in Clients \ {p} : op'[q] = op[q] /\ raced'[q] = raced[q]
    BY DEF StoreInv, ServerOk, NoWrite
<1>3. \A q \in Clients \ {p} : ClientOk(q)'
    BY <1>2, Undisturbed DEF StoreInv, NoWrite
<1> QED
    BY <1>1, <1>3 DEF StoreInv

(* A write of client p, which returns "ok" with it.                        *)
LEMMA WriteStep ==
    ASSUME StoreInv, NEW p \in Clients, op[p] \in Running, Returns(p, "ok"),
           NEW v \in [live: BOOLEAN, rv: Nat, incarnation: Nat, labels: SUBSET Clients], Write(p, v)
    PROVE  StoreInv'
<1>1. /\ revision' = revision + 1
      /\ object' = [v EXCEPT !.rv = revision + 1]
      /\ raced' = [q \in Clients |-> IF q = p THEN raced[q] ELSE raced[q] + 1]
    BY DEF Write
<1>2. object' \in [live: BOOLEAN, rv: Nat, incarnation: Nat, labels: SUBSET Clients] /\ object'.rv = revision + 1
    BY <1>1 DEF StoreInv, ServerOk
<1>3. op' = [op EXCEPT ![p] = [pc |-> "done", kind |-> op[p].kind, result |-> "ok"]]
    BY DEF Returns
<1>4. [pc |-> "done", kind |-> op[p].kind, result |-> "ok"] \in Ended
    BY DEF Running, Ended
<1>5. op' \in [Clients -> {Idle} \cup Running \cup Ended] /\ raced' \in [Clients -> Nat]
    BY <1>1, <1>3, <1>4 DEF StoreInv, ServerOk
<1>6. ServerOk'
    BY <1>1, <1>2, <1>5 DEF StoreInv, ServerOk
<1>7. ASSUME NEW q \in Clients, q # p PROVE ClientOk(q)'
    <2>1. op'[q] = op[q] /\ raced'[q] = raced[q] + 1
        BY <1>1, <1>3, <1>7 DEF StoreInv, ServerOk
    <2> QED
        BY <1>1, <1>2, <2>1, Overtaken DEF StoreInv
<1>8. op'[p].pc = "done" /\ op'[p].result = "ok" /\ op'[p] \notin Running
    BY <1>3 DEF StoreInv, ServerOk, Running
<1>9. ClientOk(p)'
    BY <1>8 DEF ClientOk, ReadsAll, CountsRaces, LosesRace
<1> QED
    BY <1>6, <1>7, <1>9 DEF StoreInv

(* An operation ends without a write.                                      *)
LEMMA ReturnsQuietly ==
    ASSUME StoreInv, NEW p \in Clients, op[p] \in Running,
           NEW result \in {"ok", "NotFound", "Conflict", "AlreadyExists", "error"},
           Returns(p, result), NoWrite,
           result = "Conflict" => raced[p] > IF op[p].kind = "updateObject" THEN MaxRetries ELSE 0,
           op[p].kind = "upsert" => result \in {"ok", "error"} \/ raced[p] > 0
    PROVE  StoreInv'
<1> DEFINE o == [pc |-> "done", kind |-> op[p].kind, result |-> result]
<1>1. o \in Ended /\ o \notin Running /\ o.pc = "done" /\ o.kind = op[p].kind /\ o.result = result
    BY DEF Running, Ended
<1>2. op' = [op EXCEPT ![p] = o]
    BY DEF Returns
<1> HIDE DEF o
<1>3. op'[p] = o /\ raced' = raced
    BY <1>2 DEF StoreInv, ServerOk, NoWrite
<1>4. ClientOk(p)'
    BY <1>1, <1>3 DEF ClientOk, ReadsAll, CountsRaces, LosesRace
<1> QED
    BY <1>1, <1>2, <1>4, QuietStep

-----------------------------------------------------------------------------
LEMMA OwnKeepsOthers ==
    ASSUME NEW p \in Clients, NEW labels \in SUBSET Clients
    PROVE  Own(p, labels) \in SUBSET Clients /\ labels \ {p} \subseteq Own(p, labels)
BY DEF Own

LEMMA StartInv ==
    ASSUME StoreInv, NEW p \in Clients, Start(p)
    PROVE  StoreInv'
<1>1. PICK kind \in Operations :
          op' = [op EXCEPT ![p] = [pc |-> FirstRequest(kind), kind |-> kind, rv |-> 0,
                                   labels |-> Own(p, {}), tries |-> 0]]
    BY DEF Start
<1> DEFINE o == [pc |-> FirstRequest(kind), kind |-> kind, rv |-> 0, labels |-> Own(p, {}), tries |-> 0]
<1>2. /\ FirstRequest(kind) \in {"get", "getMetadata", "create", "delete"}
      /\ FirstRequest(kind) = "delete" => kind \in {"delete", "forceDelete"}
      /\ FirstRequest(kind) = "getMetadata" => kind \notin Guarded
      /\ kind = "upsert" => FirstRequest(kind) = "get"
    BY DEF FirstRequest, Operations, Guarded
<1>3. o \in Running /\ o.pc = FirstRequest(kind) /\ o.kind = kind /\ o.rv = 0 /\ o.tries = 0
    BY <1>2, OwnKeepsOthers DEF Running
<1>4. op' = [op EXCEPT ![p] = o]
    BY <1>1
<1> HIDE DEF o
<1>5. raced' = [raced EXCEPT ![p] = 0] /\ UNCHANGED server
    BY DEF Start
<1>6. ServerOk'
    BY <1>3, <1>4, <1>5 DEF StoreInv, ServerOk, server
<1>7. ASSUME NEW q \in Clients, q # p PROVE ClientOk(q)'
    <2>1. op'[q] = op[q] /\ raced'[q] = raced[q]
        BY <1>4, <1>5, <1>7 DEF StoreInv, ServerOk
    <2> QED
        BY <1>5, <2>1, Undisturbed DEF StoreInv
<1>8. op'[p] = o
    BY <1>4 DEF StoreInv, ServerOk
<1>9. ClientOk(p)'
    BY <1>2, <1>3, <1>5, <1>6, <1>8 DEF ClientOk, ReadsAll, CountsRaces, LosesRace, ServerOk
<1> QED
    BY <1>6, <1>7, <1>9 DEF StoreInv

(* What is known of client p where it is about to take a step.             *)
LEMMA RunningOp ==
    ASSUME StoreInv, NEW p \in Clients, op[p].pc \notin {"idle", "done"}
    PROVE  /\ op[p] \in Running
           /\ raced[p] \in Nat /\ op[p].tries \in Nat /\ op[p].rv \in Nat
           /\ op[p].labels \in SUBSET Clients /\ op[p].kind \in Operations
           /\ object \in [live: BOOLEAN, rv: Nat, incarnation: Nat, labels: SUBSET Clients]
           /\ ClientOk(p)
<1>1. op[p] \in {Idle} \cup Running \cup Ended
    BY DEF StoreInv, ServerOk
<1>2. op[p] \in Running
    BY <1>1 DEF Idle, Ended
<1> QED
    BY <1>2 DEF StoreInv, ServerOk, Running

(* Client p goes on with what it has read, or with where it was.           *)
LEMMA GoesOn ==
    ASSUME StoreInv, NEW p \in Clients, op[p] \in Running, NoWrite,
           NEW o \in Running, op' = [op EXCEPT ![p] = o],
           o.rv <= revision,
           o.pc \in {"getMetadata", "create", "update", "refresh"},
           o.pc = "update" => object.live /\ o.rv = object.rv /\ raced[p] >= o.tries,
           o.pc = "update" /\ o.kind \in Guarded => object.labels \ {p} \subseteq o.labels,
           o.pc = "refresh" => raced[p] > o.tries,
           o.pc \in {"getMetadata", "create"} => o.tries = 0,
           o.pc = "getMetadata" => object.live /\ o.kind \notin Guarded,
           o.pc = "create" => ~object.live
    PROVE  StoreInv'
<1>1. op'[p] = o
    BY DEF StoreInv, ServerOk
<1>2. raced' = raced /\ object' = object /\ revision' = revision
    BY DEF NoWrite, server
<1>3. ClientOk(p)'
    BY <1>1, <1>2 DEF ClientOk, ReadsAll, CountsRaces, LosesRace
<1> QED
    BY <1>3, QuietStep

LEMMA GetInv ==
    ASSUME StoreInv, NEW p \in Clients, Get(p)
    PROVE  StoreInv'
<1>1. op[p].pc = "get" /\ NoWrite
    BY DEF Get
<1>2. /\ op[p] \in Running
      /\ raced[p] \in Nat /\ op[p].rv \in Nat
      /\ object \in [live: BOOLEAN, rv: Nat, incarnation: Nat, labels: SUBSET Clients]
      /\ op[p].tries = 0 /\ op[p].rv <= revision /\ object.rv <= revision
    BY <1>1, RunningOp DEF ClientOk, CountsRaces, StoreInv, ServerOk
<1>3. CASE op[p].kind = "upsert" /\ object.live
    <2> DEFINE o == [op[p] EXCEPT !.pc = "getMetadata"]
    <2>1. op' = [op EXCEPT ![p] = o]
        BY <1>3 DEF Get, StoreInv, ServerOk
    <2>2. o \in Running /\ o.pc = "getMetadata" /\ o.rv = op[p].rv /\ o.tries = 0 /\ o.kind \notin Guarded
        BY <1>2, <1>3 DEF Running, Guarded
    <2> HIDE DEF o
    <2> QED
        BY <1>1, <1>2, <1>3, <2>1, <2>2, GoesOn
<1>4. CASE op[p].kind = "upsert" /\ ~object.live
    <2> DEFINE o == [op[p] EXCEPT !.pc = "create"]
    <2>1. op' = [op EXCEPT ![p] = o]
        BY <1>4 DEF Get, StoreInv, ServerOk
    <2>2. o \in Running /\ o.pc = "create" /\ o.rv = op[p].rv /\ o.tries = 0
        BY <1>2 DEF Running
    <2> HIDE DEF o
    <2> QED
        BY <1>1, <1>2, <1>4, <2>1, <2>2, GoesOn
<1>5. CASE op[p].kind # "upsert" /\ object.live
    <2> DEFINE o == [op[p] EXCEPT !.pc = "update", !.rv = object.rv, !.labels = Own(p, object.labels)]
    <2>1. op' = [op EXCEPT ![p] = o]
        BY <1>5 DEF Get, StoreInv, ServerOk
    <2>2. object.labels \in SUBSET Clients /\ object.rv \in Nat
        BY <1>2
    <2>3. Own(p, object.labels) \in SUBSET Clients /\ object.labels \ {p} \subseteq Own(p, object.labels)
        BY <2>2, OwnKeepsOthers
    <2>4. /\ o \in Running /\ o.pc = "update" /\ o.rv = object.rv /\ o.tries = 0
          /\ o.labels = Own(p, object.labels)
        BY <1>2, <2>2, <2>3 DEF Running
    <2> HIDE DEF o
    <2>5. raced[p] >= o.tries /\ o.rv <= revision /\ object.labels \ {p} \subseteq o.labels
        BY <1>2, <2>3, <2>4
    <2> QED
        BY <1>1, <1>2, <1>5, <2>1, <2>4, <2>5, GoesOn
<1>6. CASE op[p].kind # "upsert" /\ ~object.live
    <2>1. Returns(p, "NotFound")
        BY <1>6 DEF Get, Returns, StoreInv, ServerOk
    <2> QED
        BY <1>1, <1>2, <1>6, <2>1, ReturnsQuietly
<1> QED
    BY <1>3, <1>4, <1>5, <1>6

LEMMA GetMetadataInv ==
    ASSUME StoreInv, NEW p \in Clients, GetMetadata(p)
    PROVE  StoreInv'
<1>1. op[p].pc = "getMetadata" /\ NoWrite
    BY DEF GetMetadata
<1>2. /\ op[p] \in Running
      /\ raced[p] \in Nat
      /\ object \in [live: BOOLEAN, rv: Nat, incarnation: Nat, labels: SUBSET Clients]
      /\ op[p].tries = 0 /\ object.rv <= revision
      /\ op[p].kind = "upsert" /\ ~object.live => raced[p] > 0
      /\ op[p].kind \notin Guarded
    BY <1>1, RunningOp DEF ClientOk, CountsRaces, StoreInv, ServerOk
<1>3. CASE object.live
    <2> DEFINE o == [op[p] EXCEPT !.pc = "update", !.rv = object.rv]
    <2>1. op' = [op EXCEPT ![p] = o]
        BY <1>3 DEF GetMetadata, StoreInv, ServerOk
    <2>2. /\ o \in Running /\ o.pc = "update" /\ o.rv = object.rv /\ o.tries = 0 /\ o.kind = op[p].kind
        BY <1>2 DEF Running
    <2> HIDE DEF o
    <2>3. raced[p] >= o.tries /\ o.rv <= revision
        BY <1>2, <2>2
    <2> QED
        BY <1>1, <1>2, <1>3, <2>1, <2>2, <2>3, GoesOn
<1>4. CASE ~object.live
    BY <1>1, <1>2, <1>4, ReturnsQuietly DEF GetMetadata
<1> QED
    BY <1>3, <1>4

(* Update: where it does not find the version it sends, others have        *)
(* written; a conflict is given up on after MaxRetries of them.            *)
LEMMA UpdateInv ==
    ASSUME StoreInv, NEW p \in Clients, Update(p)
    PROVE  StoreInv'
<1>1. op[p].pc = "update"
    BY DEF Update
<1>2. /\ op[p] \in Running /\ op[p].tries \in Nat /\ raced[p] \in Nat
      /\ op[p].labels \in SUBSET Clients
      /\ object \in [live: BOOLEAN, rv: Nat, incarnation: Nat, labels: SUBSET Clients]
      /\ op[p].rv <= revision
      /\ ~(object.live /\ op[p].rv = object.rv) => raced[p] > op[p].tries
    BY <1>1, RunningOp DEF ClientOk, CountsRaces
<1>3. CASE ~object.live
    <2>1. NoWrite /\ Returns(p, "NotFound")
        BY <1>3 DEF Update
    <2>2. raced[p] > 0
        BY <1>2, <1>3
    <2> QED
        BY <1>2, <2>1, <2>2, ReturnsQuietly
<1>4. CASE object.live /\ op[p].rv # object.rv
    <2>1. NoWrite /\ Conflict(p) /\ raced[p] > op[p].tries
        BY <1>2, <1>4 DEF Update
    <2>2. CASE op[p].kind = "updateObject" /\ op[p].tries < MaxRetries
        <3> DEFINE o == [op[p] EXCEPT !.pc = "refresh"]
        <3>1. op' = [op EXCEPT ![p] = o]
            BY <2>1, <2>2 DEF Conflict, StoreInv, ServerOk
        <3>2. o \in Running /\ o.pc = "refresh" /\ o.rv <= revision /\ raced[p] > o.tries
            BY <1>2, <2>1 DEF Running
        <3> HIDE DEF o
        <3> QED
            BY <1>2, <2>1, <3>1, <3>2, GoesOn
    <2>3. CASE ~(op[p].kind = "updateObject" /\ op[p].tries < MaxRetries)
        <3>1. Returns(p, "Conflict")
            BY <2>1, <2>3 DEF Conflict
        <3>2. raced[p] > IF op[p].kind = "updateObject" THEN MaxRetries ELSE 0
            BY <1>2, <2>1, <2>3, StoreAssumption
        <3>3. raced[p] > 0
            BY <1>2, <2>1
        <3> QED
            BY <1>2, <2>1, <3>1, <3>2, <3>3, ReturnsQuietly
    <2> QED
        BY <2>2, <2>3
<1>5. CASE object.live /\ op[p].rv = object.rv
    <2>1. Write(p, Written(p)) /\ Returns(p, "ok")
        BY <1>5 DEF Update
    <2>2. Written(p) \in [live: BOOLEAN, rv: Nat, incarnation: Nat, labels: SUBSET Clients]
        BY <1>2 DEF Written
    <2> QED
        BY <1>2, <2>1, <2>2, WriteStep
<1> QED
    BY <1>2, <1>3, <1>4, <1>5

LEMMA RefreshInv ==
    ASSUME StoreInv, NEW p \in Clients, Refresh(p)
    PROVE  StoreInv'
<1>1. op[p].pc = "refresh" /\ NoWrite
    BY DEF Refresh
<1>2. /\ op[p] \in Running /\ op[p].tries \in Nat /\ raced[p] \in Nat
      /\ op[p].labels \in SUBSET Clients
      /\ object \in [live: BOOLEAN, rv: Nat, incarnation: Nat, labels: SUBSET Clients]
      /\ object.rv <= revision
      /\ raced[p] > op[p].tries
    BY <1>1, RunningOp DEF ClientOk, CountsRaces, StoreInv, ServerOk
<1>3. CASE object.live
    <2> DEFINE labels == Own(p, Decoded(op[p].labels, object.labels))
               o == [op[p] EXCEPT !.pc = "update", !.rv = object.rv, !.tries = @ + 1, !.labels = labels]
    <2>1. op' = [op EXCEPT ![p] = o]
        BY <1>3 DEF Refresh, StoreInv, ServerOk
    <2>2. Decoded(op[p].labels, object.labels) \in SUBSET Clients
        BY <1>2 DEF Decoded
    <2>3. labels \in SUBSET Clients /\ object.labels \ {p} \subseteq labels
        BY <2>2, OwnKeepsOthers DEF Decoded
    <2> HIDE DEF labels
    <2>4. /\ o \in Running /\ o.pc = "update" /\ o.rv = object.rv /\ o.tries = op[p].tries + 1
          /\ o.labels = labels
        <3>1. op[p].tries + 1 \in Nat /\ object.rv \in Nat
            BY <1>2
        <3> QED
            BY <1>2, <2>3, <3>1 DEF Running
    <2> HIDE DEF o
    <2>5. raced[p] >= o.tries /\ o.rv <= revision /\ object.labels \ {p} \subseteq o.labels
        BY <1>2, <2>3, <2>4
    <2> QED
        BY <1>1, <1>2, <1>3, <2>1, <2>4, <2>5, GoesOn
<1>4. CASE ~object.live
    <2>1. Returns(p, "NotFound") /\ raced[p] > 0
        BY <1>2, <1>4 DEF Refresh
    <2> QED
        BY <1>1, <1>2, <2>1, ReturnsQuietly
<1> QED
    BY <1>3, <1>4

LEMMA CreateInv ==
    ASSUME StoreInv, NEW p \in Clients, Create(p)
    PROVE  StoreInv'
<1>1. op[p].pc = "create"
    BY DEF Create
<1>2. /\ op[p] \in Running /\ op[p].labels \in SUBSET Clients /\ revision \in Nat
      /\ op[p].kind = "upsert" /\ object.live => raced[p] > 0
    BY <1>1, RunningOp DEF ClientOk, CountsRaces, StoreInv, ServerOk
<1>3. CASE object.live
    <2>1. NoWrite /\ Returns(p, "AlreadyExists")
        BY <1>3 DEF Create
    <2> QED
        BY <1>2, <1>3, <2>1, ReturnsQuietly
<1>4. CASE ~object.live
    <2> DEFINE v == [live |-> TRUE, rv |-> 0, incarnation |-> revision + 1, labels |-> op[p].labels]
    <2>1. Write(p, v) /\ Returns(p, "ok")
        BY <1>4 DEF Create
    <2>2. v \in [live: BOOLEAN, rv: Nat, incarnation: Nat, labels: SUBSET Clients]
        BY <1>2
    <2> HIDE DEF v
    <2> QED
        BY <1>2, <2>1, <2>2, WriteStep
<1> QED
    BY <1>3, <1>4

LEMMA DeleteInv ==
    ASSUME StoreInv, NEW p \in Clients, Delete(p)
    PROVE  StoreInv'
<1>1. op[p].pc = "delete"
    BY DEF Delete
<1>2. op[p] \in Running /\ op[p].kind \in {"delete", "forceDelete"}
    BY <1>1, RunningOp DEF ClientOk, CountsRaces
<1>3. CASE object.live
    <2>1. Write(p, Gone) /\ Returns(p, "ok")
        BY <1>3 DEF Delete
    <2>2. Gone \in [live: BOOLEAN, rv: Nat, incarnation: Nat, labels: SUBSET Clients]
        BY DEF Gone
    <2> QED
        BY <1>2, <2>1, <2>2, WriteStep
<1>4. CASE ~object.live
    <2> DEFINE result == IF op[p].kind = "forceDelete" THEN "ok" ELSE "NotFound"
    <2>1. NoWrite /\ Returns(p, result)
        BY <1>4 DEF Delete
    <2>2. result \in {"ok", "NotFound"}
        OBVIOUS
    <2> HIDE DEF result
    <2> QED
        BY <1>2, <2>1, <2>2, ReturnsQuietly
<1> QED
    BY <1>3, <1>4

LEMMA FaultInv ==
    ASSUME StoreInv, NEW p \in Clients, Fault(p)
    PROVE  StoreInv'
BY RunningOp, ReturnsQuietly DEF Fault

LEMMA StoreNextInv == StoreInv /\ [StoreNext]_storeVars => StoreInv'
<1> SUFFICES ASSUME StoreInv, [StoreNext]_storeVars PROVE StoreInv'
    OBVIOUS
<1>1. ASSUME NEW p \in Clients, Start(p) \/ Client(p) \/ Fault(p) PROVE StoreInv'
    BY <1>1, StartInv, GetInv, GetMetadataInv, UpdateInv, RefreshInv, CreateInv, DeleteInv, FaultInv DEF Client
<1>2. CASE UNCHANGED storeVars
    <2>1. ServerOk'
        BY <1>2 DEF StoreInv, ServerOk, storeVars
    <2>2. \A p \in Clients : ClientOk(p)'
        BY <1>2, Undisturbed DEF StoreInv, storeVars, server
    <2> QED
        BY <2>1, <2>2 DEF StoreInv
<1> QED
    BY <1>1, <1>2 DEF StoreNext

(* An operation of the stores loses only against writes that others made   *)
(* while it ran, UpdateObject against more of them than it retries, for    *)
(* any number of clients and any MaxRetries.                               *)
THEOREM OnlyRacesAreLost == StoreSpec => []LosesOnlyRaces
<1>1. StoreInv => LosesOnlyRaces
    BY DEF StoreInv, ClientOk, LosesRace, LosesOnlyRaces
<1> QED
    BY <1>1, StoreInitInv, StoreNextInv, PTL DEF StoreSpec

-----------------------------------------------------------------------------
(* The step in which an operation writes and is over is its own update, of *)
(* the version it has read.                                                *)
LEMMA OwnUpdate ==
    ASSUME StoreInv, NEW p \in Clients, [StoreNext]_storeVars,
           op[p].pc = "update", op'[p].pc = "done", revision' # revision
    PROVE  /\ object.live /\ op[p].rv = object.rv
           /\ object' = [Written(p) EXCEPT !.rv = revision + 1]
<1>1. PICK q \in Clients : Start(q) \/ Client(q) \/ Fault(q)
    BY DEF StoreNext, storeVars
<1>2. Update(q) \/ Create(q) \/ Delete(q)
    BY <1>1 DEF Client, Start, Get, GetMetadata, Refresh, Fault, NoWrite, server
<1>3. q = p
    <2> SUFFICES ASSUME q # p PROVE op'[p] = op[p]
        OBVIOUS
    <2> QED
        BY <1>2 DEF Update, Create, Delete, Returns, Conflict, StoreInv, ServerOk
<1>4. Update(p)
    BY <1>2, <1>3 DEF Create, Delete
<1>5. object.live /\ op[p].rv = object.rv /\ Write(p, Written(p))
    BY <1>4 DEF Update, NoWrite, server
<1> QED
    BY <1>5 DEF Write

(* No update is lost: Update of an object that was read, and UpdateObject  *)
(* however many conflicts it got over, take away no label but the client's *)
(* own, and do not write to an object created since.                       *)
THEOREM NoUpdateIsLost == StoreSpec => NoLostUpdate
<1>1. ASSUME StoreInv, [StoreNext]_storeVars, NEW p \in Clients,
             op[p].kind \in Guarded, op[p].pc = "update", op'[p].pc = "done", revision' # revision
      PROVE  /\ object.labels \ object'.labels \subseteq {p}
             /\ object'.incarnation = object.incarnation
    <2>1. /\ object.live /\ op[p].rv = object.rv
          /\ object' = [Written(p) EXCEPT !.rv = revision + 1]
        BY <1>1, OwnUpdate
    <2>2. object.labels \ {p} \subseteq op[p].labels
        BY <1>1, <2>1 DEF StoreInv, ClientOk, ReadsAll
    <2>3. object \in [live: BOOLEAN, rv: Nat, incarnation: Nat, labels: SUBSET Clients]
        BY <1>1 DEF StoreInv, ServerOk
    <2>4. object'.labels = op[p].labels /\ object'.incarnation = object.incarnation
        BY <1>1, <2>1, <2>3 DEF Written, Guarded
    <2> QED
        BY <2>2, <2>4
<1> DEFINE Kept ==
        \A p \in Clients : op[p].kind \in Guarded /\ op[p].pc = "update" /\ op'[p].pc = "done" /\ revision' # revision =>
            /\ object.labels \ object'.labels \subseteq {p}
            /\ object'.incarnation = object.incarnation
<1>2. StoreInv /\ [StoreNext]_storeVars => Kept
    BY <1>1
<1>3. NoLostUpdate <=> [][Kept]_storeVars
    BY DEF NoLostUpdate
<1> HIDE DEF Kept
<1> QED
    BY <1>2, <1>3, StoreInitInv, StoreNextInv, PTL DEF StoreSpec

-----------------------------------------------------------------------------
(* The watch.                                                              *)

Before == IF interceptor.pc = "off" THEN next ELSE handover

Translated == got \o ch \o InHand(translator)

Intercepted == wgot \o wch \o InHand(interceptor)

WatchTypeOK ==
    /\ next \in Nat /\ handover \in Nat /\ handover <= next
    /\ translator \in [pc: {"off", "select", "send", "done"}, event: Nat]
    /\ interceptor \in [pc: {"off", "select", "send", "done"}, event: Nat]
    /\ ch \in Seq(Nat) /\ wch \in Seq(Nat) /\ got \in Seq(Nat) /\ wgot \in Seq(Nat)

(* Only one of the goroutines takes events at a time, and the channel of   *)
(* WatchEvents is not closed before the first has returned.                *)
OneAtATime ==
    /\ translator.pc \in {"select", "send"} =>
           user \in {"watching", "switching", "stopping"} /\ closed = FALSE /\ interceptor.pc = "off"
    /\ user \in {"new", "watching", "switching"} => interceptor.pc = "off"
    /\ user = "new" => closed = FALSE /\ translator.pc = "off"

WatchInv ==
    /\ WatchTypeOK
    /\ OneAtATime
    /\ Ascending(Translated, (1..Before) \ bad)
    /\ Ascending(Intercepted, (Before + 1)..next)

-----------------------------------------------------------------------------
(* A greater event at the end keeps the order.                             *)
LEMMA AscendingGrows ==
    ASSUME NEW s \in Seq(Nat), NEW S \in SUBSET Nat, NEW e \in Nat,
           Ascending(s, S), \A x \in S : x < e
    PROVE  Ascending(s \o <<e>>, S \cup {e})
<1> DEFINE t == s \o <<e>>
<1>1. /\ Len(s) \in Nat /\ DOMAIN s = 1..Len(s)
      /\ \A i \in DOMAIN s : s[i] \in Nat
    BY LenProperties, ElementOfSeq
<1>2. <<e>> \in Seq(Nat) /\ Len(<<e>>) = 1 /\ <<e>>[1] = e
    OBVIOUS
<1>3. /\ t \in Seq(Nat) /\ Len(t) = Len(s) + 1
      /\ \A i \in 1..(Len(s) + Len(<<e>>)) : t[i] = IF i <= Len(s) THEN s[i] ELSE <<e>>[i - Len(s)]
    BY <1>2, ConcatProperties
<1>4. DOMAIN t = 1..(Len(s) + 1)
    BY <1>3, LenProperties
<1>5. \A i \in 1..Len(s) : t[i] = s[i]
    BY <1>1, <1>2, <1>3
<1>6. t[Len(s) + 1] = e
    BY <1>1, <1>2, <1>3
<1> HIDE DEF t
<1>7. ToSet(s) = S /\ \A i, j \in DOMAIN s : i < j => s[i] < s[j]
    BY DEF Ascending
<1>8. ToSet(t) = S \cup {e}
    <2>1. S = {s[i] : i \in 1..Len(s)}
        BY <1>1, <1>7 DEF ToSet
    <2>2. ToSet(t) = {t[i] : i \in 1..(Len(s) + 1)}
        BY <1>4 DEF ToSet
    <2>3. 1..(Len(s) + 1) = (1..Len(s)) \cup {Len(s) + 1}
        BY <1>1
    <2> QED
        BY <2>1, <2>2, <2>3, <1>5, <1>6
<1>9. ASSUME NEW i \in DOMAIN t, NEW j \in DOMAIN t, i < j
      PROVE  t[i] < t[j]
    <2>1. i \in 1..Len(s) /\ t[i] = s[i] /\ s[i] \in S
        BY <1>1, <1>4, <1>5, <1>7, <1>9 DEF ToSet
    <2>2. CASE j = Len(s) + 1
        BY <2>1, <2>2, <1>6
    <2>3. CASE j # Len(s) + 1
        <3>1. j \in 1..Len(s) /\ t[j] = s[j]
            BY <2>3, <1>1, <1>4, <1>5
        <3> QED
            BY <2>1, <3>1, <1>1, <1>7, <1>9
    <2> QED
        BY <2>2, <2>3
<1> QED
    BY <1>8, <1>9 DEF Ascending, t

(* An event that is sent is behind those of the channel.                   *)
LEMMA SentIsLast ==
    ASSUME NEW s \in Seq(Nat), NEW t \in Seq(Nat), NEW e \in Nat
    PROVE  /\ Append(t, e) \in Seq(Nat)
           /\ (s \o Append(t, e)) \o <<>> = (s \o t) \o <<e>>
<1>1. <<e>> \in Seq(Nat)
    OBVIOUS
<1>2. Append(t, e) \in Seq(Nat) /\ Append(t, e) = t \o <<e>>
    BY AppendProperties, AppendIsConcat
<1>3. s \o Append(t, e) \in Seq(Nat)
    BY <1>2, ConcatProperties
<1>4. (s \o Append(t, e)) \o <<>> = s \o Append(t, e)
    BY <1>3, ConcatEmptySeq
<1> QED
    BY <1>1, <1>2, <1>4, ConcatAssociative

(* A receive moves an event and changes no order.                          *)
LEMMA ReceivedIsKept ==
    ASSUME NEW s \in Seq(Nat), NEW t \in Seq(Nat), t # <<>>
    PROVE  /\ Append(s, Head(t)) \in Seq(Nat) /\ Tail(t) \in Seq(Nat)
           /\ Append(s, Head(t)) \o Tail(t) = s \o t
<1>1. Head(t) \in Nat /\ Tail(t) \in Seq(Nat) /\ <<Head(t)>> \in Seq(Nat)
    BY HeadTailProperties
<1>2. Append(s, Head(t)) \in Seq(Nat) /\ Append(s, Head(t)) = s \o <<Head(t)>>
    BY <1>1, AppendProperties, AppendIsConcat
<1>3. (s \o <<Head(t)>>) \o Tail(t) = s \o (<<Head(t)>> \o Tail(t))
    BY <1>1, ConcatAssociative
<1>4. <<Head(t)>> \o Tail(t) = t
    <2> DEFINE u == <<Head(t)>> \o Tail(t)
    <2>1. Len(<<Head(t)>>) = 1 /\ <<Head(t)>>[1] = Head(t)
        OBVIOUS
    <2>2. /\ Len(t) \in Nat \ {0} /\ Head(t) = t[1] /\ Len(Tail(t)) = Len(t) - 1
          /\ \A i \in 1..Len(Tail(t)) : Tail(t)[i] = t[i + 1]
        BY HeadTailProperties, EmptySeq
    <2>3. /\ u \in Seq(Nat) /\ Len(u) = 1 + Len(Tail(t))
          /\ \A i \in 1..(1 + Len(Tail(t))) : u[i] = IF i <= 1 THEN <<Head(t)>>[i] ELSE Tail(t)[i - 1]
        BY <1>1, <2>1, ConcatProperties
    <2>4. Len(u) = Len(t) /\ u[1] = t[1]
        BY <2>1, <2>2, <2>3
    <2>5. ASSUME NEW i \in 2..Len(t) PROVE u[i] = t[i]
        <3>1. i - 1 \in 1..Len(Tail(t)) /\ i \in 1..(1 + Len(Tail(t))) /\ (i - 1) + 1 = i /\ ~(i <= 1)
            BY <2>2
        <3>2. Tail(t)[i - 1] = t[(i - 1) + 1]
            BY <3>1, <2>2
        <3> QED
            BY <3>1, <3>2, <2>3
    <2>6. \A i \in 1..Len(u) : u[i] = t[i]
        <3> SUFFICES ASSUME NEW i \in 1..Len(u) PROVE u[i] = t[i]
            OBVIOUS
        <3>1. i = 1 \/ i \in 2..Len(t)
            BY <2>2, <2>4
        <3> QED
            BY <3>1, <2>4, <2>5
    <2> HIDE DEF u
    <2>7. u = t
        BY <2>3, <2>4, <2>6, SeqEqual
    <2> QED
        BY <2>7 DEF u
<1> QED
    BY <1>1, <1>2, <1>3, <1>4

(* What a step leaves as it was, as far as the order of events goes.       *)
LEMMA SameStreams ==
    ASSUME WatchInv, WatchTypeOK', OneAtATime',
           Translated' = Translated, Intercepted' = Intercepted,
           next' = next, bad' = bad, Before' = Before
    PROVE  WatchInv'
    BY DEF WatchInv, Ascending

LEMMA WatchInitInv == WatchInit => WatchInv
<1> SUFFICES ASSUME WatchInit PROVE WatchInv
    OBVIOUS
<1>1. WatchTypeOK /\ OneAtATime
    BY DEF WatchInit, WatchTypeOK, OneAtATime, At
<1>2. Before = 0 /\ next = 0
    BY DEF WatchInit, Before, At
<1>3. <<>> \o <<>> \o <<>> = <<>>
    BY EmptySeq, ConcatEmptySeq
<1>4. Translated = <<>> /\ Intercepted = <<>>
    BY <1>3 DEF WatchInit, Translated, Intercepted, InHand, At
<1>5. Ascending(<<>>, {})
    BY DEF Ascending, ToSet
<1>6. (1..0) \ bad = {} /\ (0 + 1)..0 = {}
    OBVIOUS
<1> QED
    BY <1>1, <1>2, <1>4, <1>5, <1>6 DEF WatchInv

(* The goroutine that has an event in hand is the one that takes events.   *)
LEMMA TranslateInv == WatchInv /\ Translate => WatchInv'
<1> SUFFICES ASSUME WatchInv, Translate PROVE WatchInv'
    OBVIOUS
<1> USE DEF WatchInv
<1>1. /\ translator.pc = "select" /\ interceptor.pc = "off" /\ next \in Nat /\ next' = next + 1
      /\ bad' = bad /\ interceptor' = interceptor /\ got' = got /\ ch' = ch /\ wgot' = wgot /\ wch' = wch
    BY DEF Translate, OneAtATime, WatchTypeOK, channels, received
<1>2. WatchTypeOK'
    BY DEF Translate, WatchTypeOK, channels, received
<1>3. OneAtATime'
    BY DEF Translate, OneAtATime, WatchTypeOK, channels, received
<1>4. Before = next /\ Before' = next + 1
    BY <1>1 DEF Before
<1>5. Ascending(Intercepted', (Before' + 1)..next')
    <2>1. Intercepted' = Intercepted
        BY <1>1 DEF Intercepted, InHand
    <2>2. (Before + 1)..next = {} /\ (Before' + 1)..next' = {}
        BY <1>1, <1>4
    <2> QED
        BY <2>1, <2>2
<1>6. /\ got \o ch \in Seq(Nat) /\ Translated = got \o ch
    <2>1. got \o ch \in Seq(Nat)
        BY ConcatProperties DEF WatchTypeOK
    <2> QED
        BY <2>1, <1>1, ConcatEmptySeq DEF Translated, InHand
<1>7. Ascending(Translated', (1..Before') \ bad')
    <2>1. CASE next' \in bad
        <3>1. translator' = translator
            BY <2>1 DEF Translate
        <3>2. Translated' = Translated
            BY <3>1, <1>1 DEF Translated, InHand
        <3>3. (1..Before') \ bad' = (1..Before) \ bad
            BY <2>1, <1>1, <1>4
        <3> QED
            BY <3>2, <3>3
    <2>2. CASE next' \notin bad
        <3>1. translator' = [pc |-> "send", event |-> next']
            BY <2>2 DEF Translate
        <3>2. Translated' = (got \o ch) \o <<next'>>
            BY <3>1, <1>1 DEF Translated, InHand
        <3>3. (1..Before') \ bad' = ((1..Before) \ bad) \cup {next'}
            BY <2>2, <1>1, <1>4
        <3>4. (1..Before) \ bad \in SUBSET Nat /\ next' \in Nat /\ \A x \in (1..Before) \ bad : x < next'
            BY <1>1, <1>4
        <3> QED
            BY <3>2, <3>3, <3>4, <1>6, AscendingGrows
    <2> QED
        BY <2>1, <2>2
<1> QED
    BY <1>2, <1>3, <1>5, <1>7

LEMMA InterceptInv == WatchInv /\ Intercept => WatchInv'
<1> SUFFICES ASSUME WatchInv, Intercept PROVE WatchInv'
    OBVIOUS
<1> USE DEF WatchInv
<1>1. /\ interceptor.pc = "select" /\ interceptor' = [pc |-> "send", event |-> next']
      /\ next \in Nat /\ handover \in Nat /\ handover <= next /\ next' = next + 1 /\ handover' = handover
      /\ bad' = bad /\ translator' = translator /\ got' = got /\ ch' = ch /\ wgot' = wgot /\ wch' = wch
    BY DEF Intercept, WatchTypeOK, channels, received
<1>2. WatchTypeOK'
    BY DEF Intercept, WatchTypeOK, channels, received
<1>3. OneAtATime'
    BY DEF Intercept, OneAtATime, WatchTypeOK, channels, received
<1>4. Before = handover /\ Before' = handover
    BY <1>1 DEF Before
<1>5. Ascending(Translated', (1..Before') \ bad')
    <2>1. Translated' = Translated
        BY <1>1 DEF Translated, InHand
    <2> QED
        BY <2>1, <1>1, <1>4
<1>6. Ascending(Intercepted', (Before' + 1)..next')
    <2>1. wgot \o wch \in Seq(Nat)
        BY ConcatProperties DEF WatchTypeOK
    <2>2. Intercepted = wgot \o wch
        BY <2>1, <1>1, ConcatEmptySeq DEF Intercepted, InHand
    <2>3. Intercepted' = (wgot \o wch) \o <<next'>>
        BY <1>1 DEF Intercepted, InHand
    <2>4. (Before' + 1)..next' = ((Before + 1)..next) \cup {next'}
        BY <1>1, <1>4
    <2>5. (Before + 1)..next \in SUBSET Nat /\ next' \in Nat /\ \A x \in (Before + 1)..next : x < next'
        BY <1>1, <1>4
    <2> QED
        BY <2>1, <2>2, <2>3, <2>4, <2>5, AscendingGrows
<1> QED
    BY <1>2, <1>3, <1>5, <1>6

(* No channel is closed under its sender, and a sent event keeps its place.*)
LEMMA SendInv == WatchInv /\ (SendTranslated \/ SendIntercepted) => WatchInv'
<1> SUFFICES ASSUME WatchInv, SendTranslated \/ SendIntercepted PROVE WatchInv'
    OBVIOUS
<1>1. CASE SendTranslated
    <2>1. /\ translator.pc = "send" /\ closed = FALSE /\ translator.event \in Nat
          /\ ch \in Seq(Nat) /\ got \in Seq(Nat)
        BY <1>1 DEF SendTranslated, WatchInv, WatchTypeOK, OneAtATime
    <2>2. /\ ch' = Append(ch, translator.event) /\ translator' = At("select")
          /\ next' = next /\ bad' = bad /\ handover' = handover /\ user' = user /\ interceptor' = interceptor
          /\ closed' = closed /\ wch' = wch /\ got' = got /\ wgot' = wgot
        BY <1>1, <2>1 DEF SendTranslated, apiWatch, received
    <2>3. Append(ch, translator.event) \in Seq(Nat)
        BY <2>1, SentIsLast
    <2>4. WatchTypeOK'
        BY <2>2, <2>3 DEF WatchInv, WatchTypeOK, At
    <2>5. OneAtATime'
        BY <2>1, <2>2 DEF WatchInv, OneAtATime, At
    <2>6. Translated' = Translated
        BY <2>1, <2>2, SentIsLast DEF Translated, InHand, At
    <2>7. Intercepted' = Intercepted /\ Before' = Before
        BY <2>2 DEF Intercepted, InHand, Before
    <2> QED
        BY <2>2, <2>4, <2>5, <2>6, <2>7, SameStreams
<1>2. CASE SendIntercepted
    <2>1. /\ interceptor.pc = "send" /\ interceptor.event \in Nat
          /\ wch \in Seq(Nat) /\ wgot \in Seq(Nat)
        BY <1>2 DEF SendIntercepted, WatchInv, WatchTypeOK
    <2>2. /\ wch' = Append(wch, interceptor.event) /\ interceptor' = At("select")
          /\ next' = next /\ bad' = bad /\ handover' = handover /\ user' = user /\ translator' = translator
          /\ closed' = closed /\ ch' = ch /\ got' = got /\ wgot' = wgot
        BY <1>2 DEF SendIntercepted, apiWatch, received
    <2>3. Append(wch, interceptor.event) \in Seq(Nat)
        BY <2>1, SentIsLast
    <2>4. WatchTypeOK'
        BY <2>2, <2>3 DEF WatchInv, WatchTypeOK, At
    <2>5. OneAtATime'
        BY <2>1, <2>2 DEF WatchInv, OneAtATime, At
    <2>6. Intercepted' = Intercepted
        BY <2>1, <2>2, SentIsLast DEF Intercepted, InHand, At
    <2>7. Translated' = Translated /\ Before' = Before
        BY <2>1, <2>2 DEF Translated, InHand, Before, At
    <2> QED
        BY <2>2, <2>4, <2>5, <2>6, <2>7, SameStreams
<1> QED
    BY <1>1, <1>2

LEMMA ReceiveInv == WatchInv /\ (Receive \/ ReceiveWrapped) => WatchInv'
<1> SUFFICES ASSUME WatchInv, Receive \/ ReceiveWrapped PROVE WatchInv'
    OBVIOUS
<1>1. CASE Receive
    <2>1. /\ ch \in Seq(Nat) /\ got \in Seq(Nat) /\ ch # <<>>
          /\ got' = Append(got, Head(ch)) /\ ch' = Tail(ch)
        BY <1>1 DEF Receive, WatchInv, WatchTypeOK
    <2>2. /\ next' = next /\ bad' = bad /\ handover' = handover /\ user' = user
          /\ translator' = translator /\ interceptor' = interceptor
          /\ closed' = closed /\ wch' = wch /\ wgot' = wgot
        BY <1>1 DEF Receive, apiWatch
    <2>3. got' \in Seq(Nat) /\ ch' \in Seq(Nat) /\ got' \o ch' = got \o ch
        BY <2>1, ReceivedIsKept
    <2>4. WatchTypeOK'
        BY <2>2, <2>3 DEF WatchInv, WatchTypeOK
    <2>5. OneAtATime'
        BY <2>2 DEF WatchInv, OneAtATime
    <2>6. Translated' = Translated
        BY <2>2, <2>3 DEF Translated, InHand
    <2>7. Intercepted' = Intercepted /\ Before' = Before
        BY <2>2 DEF Intercepted, InHand, Before
    <2> QED
        BY <2>2, <2>4, <2>5, <2>6, <2>7, SameStreams
<1>2. CASE ReceiveWrapped
    <2>1. /\ wch \in Seq(Nat) /\ wgot \in Seq(Nat) /\ wch # <<>>
          /\ wgot' = Append(wgot, Head(wch)) /\ wch' = Tail(wch)
        BY <1>2 DEF ReceiveWrapped, WatchInv, WatchTypeOK
    <2>2. /\ next' = next /\ bad' = bad /\ handover' = handover /\ user' = user
          /\ translator' = translator /\ interceptor' = interceptor
          /\ closed' = closed /\ ch' = ch /\ got' = got
        BY <1>2 DEF ReceiveWrapped, apiWatch
    <2>3. wgot' \in Seq(Nat) /\ wch' \in Seq(Nat) /\ wgot' \o wch' = wgot \o wch
        BY <2>1, ReceivedIsKept
    <2>4. WatchTypeOK'
        BY <2>2, <2>3 DEF WatchInv, WatchTypeOK
    <2>5. OneAtATime'
        BY <2>2 DEF WatchInv, OneAtATime
    <2>6. Intercepted' = Intercepted
        BY <2>2, <2>3 DEF Intercepted, InHand
    <2>7. Translated' = Translated /\ Before' = Before
        BY <2>2 DEF Translated, InHand, Before
    <2> QED
        BY <2>2, <2>4, <2>5, <2>6, <2>7, SameStreams
<1> QED
    BY <1>1, <1>2

(* The user's calls, and the ends of the goroutines, find no event in the  *)
(* hand of the goroutine they start or end.                                *)
LEMMA LifecycleInv ==
    ASSUME WatchInv,
           \/ WatchEnds \/ InterceptorExits \/ WatchEvents \/ CallKubernetesWatch
           \/ CallStop \/ KubernetesWatch \/ Stop \/ StopPanics \/ StopWrapper
    PROVE  WatchInv'
<1>1. /\ next' = next /\ bad' = bad
      /\ got' = got /\ ch' = ch /\ wgot' = wgot /\ wch' = wch
    BY DEF WatchEnds, InterceptorExits, WatchEvents, CallKubernetesWatch, CallStop, KubernetesWatch, Stop,
           StopPanics, StopWrapper, apiWatch, channels, received
<1> DEFINE Kept == /\ InHand(translator)' = InHand(translator)
                   /\ InHand(interceptor)' = InHand(interceptor)
                   /\ Before' = Before
<1>2. Kept
    <2> USE <1>1 DEF InHand, Before, At
    <2>1. CASE WatchEnds \/ CallKubernetesWatch \/ CallStop \/ StopPanics
        BY <2>1 DEF WatchEnds, CallKubernetesWatch, CallStop, StopPanics
    <2>2. CASE InterceptorExits
        BY <2>2 DEF InterceptorExits
    <2>3. CASE WatchEvents
        BY <2>3 DEF WatchEvents, WatchInv, OneAtATime
    <2>4. CASE KubernetesWatch
        <3>1. /\ translator.pc \in {"off", "select"} /\ interceptor.pc = "off"
              /\ translator'.pc \in {"off", "done"} /\ interceptor'.pc = "select" /\ handover' = next
            BY <2>4 DEF KubernetesWatch, WatchInv, OneAtATime
        <3> QED
            BY <3>1
    <2>5. CASE Stop
        BY <2>5 DEF Stop
    <2>6. CASE StopWrapper
        BY <2>6 DEF StopWrapper
    <2> QED
        BY <2>1, <2>2, <2>3, <2>4, <2>5, <2>6
<1>3. Translated' = Translated /\ Intercepted' = Intercepted
    BY <1>1, <1>2 DEF Translated, Intercepted
<1>4. WatchTypeOK'
    BY <1>1 DEF WatchEnds, InterceptorExits, WatchEvents, CallKubernetesWatch, CallStop, KubernetesWatch, Stop,
           StopPanics, StopWrapper, WatchInv, WatchTypeOK, At
<1>5. OneAtATime'
    BY DEF WatchEnds, InterceptorExits, WatchEvents, CallKubernetesWatch, CallStop, KubernetesWatch, Stop,
           StopPanics, StopWrapper, WatchInv, WatchTypeOK, OneAtATime, channels, At
<1> QED
    BY <1>1, <1>2, <1>3, <1>4, <1>5, SameStreams

LEMMA WatchNextInv == WatchInv /\ [WatchNext]_watchVars => WatchInv'
<1> SUFFICES ASSUME WatchInv, [WatchNext]_watchVars PROVE WatchInv'
    OBVIOUS
<1>1. CASE UNCHANGED watchVars
    BY <1>1 DEF watchVars, WatchInv, WatchTypeOK, OneAtATime, Ascending, Translated, Intercepted, InHand, Before
<1>2. CASE WatchNext
    BY <1>2, TranslateInv, InterceptInv, SendInv, ReceiveInv, LifecycleInv DEF WatchNext
<1> QED
    BY <1>1, <1>2

(* The watch of a GroupVersionClient gives its user every translatable     *)
(* event once and in order, hands each of the others on after the switch   *)
(* to KubernetesWatch, and sends on no closed channel - for every size of  *)
(* the channels and every number of events, and without assuming that the  *)
(* goroutines make progress.                                               *)
THEOREM EventsAreDeliveredOnce == WatchSpec => []EveryEventOnce
<1>1. WatchSpec => WatchInit /\ [][WatchNext]_watchVars
    BY DEF WatchSpec
<1>2. WatchInv => EveryEventOnce
    BY DEF WatchInv, WatchTypeOK, EveryEventOnce, Before, Translated, Intercepted
<1> QED
    BY <1>1, <1>2, WatchInitInv, WatchNextInv, PTL

=============================================================================
