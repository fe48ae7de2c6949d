----------------------------- MODULE DeltaFIFO -----------------------------
(***************************************************************************)
(* client-go's DeltaFIFO (external), the queue between the Reflector and   *)
(* processDeltas, as operators on a record:                                *)
(*   queue      keys in the order in which they are popped                 *)
(*   items      key -> the deltas waiting for it                           *)
(* A delta has the version rv of its object; unknown marks the tombstone   *)
(* (DeletedFinalStateUnknown) of a deletion nobody saw.                    *)
(***************************************************************************)
EXTENDS Integers, SequencesExt

CONSTANT Keys

EmptyFIFO == [queue |-> <<>>, items |-> [k \in Keys |-> <<>>]]

(* dedupDeltas: of two deletions in a row the one with an object is kept.   *)
Dedup(ds, d) ==
    IF ds = <<>> \/ d.type # "Deleted" \/ ds[Len(ds)].type # "Deleted" THEN Append(ds, d)
    ELSE IF d.unknown THEN ds ELSE [ds EXCEPT ![Len(ds)] = d]

(* queueActionLocked.                                                      *)
QueueAction(f, k, d) ==
    [f EXCEPT !.queue = IF f.items[k] = <<>> THEN Append(@, k) ELSE @,
              !.items[k] = Dedup(@, d)]

Put(f, k, type, rv) == QueueAction(f, k, [type |-> type, rv |-> rv, unknown |-> FALSE])

(* Delete is dropped for an object that is neither queued nor known.        *)
DeleteKey(f, k, rv, known) ==
    IF k \notin known /\ f.items[k] = <<>> THEN f ELSE Put(f, k, "Deleted", rv)

(* Queue the delta of each key of ks, in some fixed order.                  *)
QueueAll(f, ks, delta) ==
    [queue |-> f.queue \o SetToSeq({k \in ks : f.items[k] = <<>>}),
     items |-> [k \in Keys |-> IF k \in ks THEN Dedup(f.items[k], delta[k]) ELSE f.items[k]]]

(* Replace: snapshot is the list (0: not in it); what is queued or known    *)
(* and not listed gets a tombstone.                                         *)
Replace(f, snapshot, known) ==
    LET listed == {k \in Keys : snapshot[k] # 0}
        gone   == ({k \in Keys : f.items[k] # <<>>} \cup known) \ listed
        f1     == QueueAll(f, listed, [k \in listed |-> [type |-> "Replaced", rv |-> snapshot[k], unknown |-> FALSE]])
    IN  QueueAll(f1, gone, [k \in gone |-> [type |-> "Deleted", rv |-> 0, unknown |-> TRUE]])

(* Resync: every known object that has nothing queued is put in again.      *)
Resync(f, known, cache) ==
    LET idle == {k \in known : f.items[k] = <<>> /\ cache[k] # 0}
    IN  QueueAll(f, idle, [k \in idle |-> [type |-> "Sync", rv |-> cache[k], unknown |-> FALSE]])

Pop(f) == [f EXCEPT !.queue = Tail(@), !.items[Head(f.queue)] = <<>>]
=============================================================================
