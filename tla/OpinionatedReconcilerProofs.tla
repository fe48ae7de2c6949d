-------------------- MODULE OpinionatedReconcilerProofs ----------------------
(***************************************************************************)
(* The OpinionatedReconciler lets no object go that it has marked, before  *)
(* the user's reconciler has handled its deletion.                         *)
(***************************************************************************)
EXTENDS OpinionatedReconciler, SequenceTheorems, FiniteSetTheorems, TLAPS

Finalizers == Foreign \cup {"finalizer"}

Versions == [rv: Nat, gen: Nat, deleted: BOOLEAN, fins: Seq(Finalizers), live: BOOLEAN]

EventActions == {"CREATE", "UPDATE", "DELETE", "RESYNC"}

(* A State without the mark that the user's reconciler has handled the     *)
(* deletion.                                                               *)
Unhandled == {{}, {"add"}}

Ids == 1..Len(log)

Requests == [action: EventActions, id: Ids, src: Ids, shared: BOOLEAN, attempt: Nat, state: Unhandled]

(* The calls that may be executing before the deletion is handled.         *)
CallsAt(pcs) ==
    [pc: pcs, action: EventActions, id: Ids, src: Ids, shared: BOOLEAN,
     attempt: Nat, state: Unhandled, tries: Nat, stale: BOOLEAN,
     fins: Seq(Finalizers), oldFins: Seq(Finalizers)]

Handlings == CallsAt(Actions \cup {"addFinalizer"})

ObjectOk ==
    /\ log \in Seq(Versions) /\ mem \in Seq(Versions)
    /\ Len(mem) = Len(log) /\ Len(log) # 0

InformerOk == seen \in 0..Len(log) /\ listed \in BOOLEAN /\ watchList \in BOOLEAN

CallsOk == call \in [Procs -> {Idle} \cup Handlings]

RetriesOk == retries \subseteq Requests

Held == Marked => Contains(Current.fins, "finalizer")

(* Until the user's reconciler has handled the deletion, nothing is on its *)
(* way that would remove the finalizer: no call that does so, and no State *)
(* that makes a later one do so.                                           *)
Guarded == ObjectOk /\ InformerOk /\ CallsOk /\ RetriesOk /\ Held

IInv == finished \/ Guarded

-----------------------------------------------------------------------------
(* Lists of finalizers.                                                    *)

LEMMA AddedIsContained ==
    ASSUME NEW S, NEW s \in Seq(S), NEW e \in S
    PROVE  Append(s, e) \in Seq(S) /\ Contains(Append(s, e), e)
<1>1. /\ Append(s, e) \in Seq(S) /\ Len(s) \in Nat
      /\ Len(Append(s, e)) = Len(s) + 1 /\ Append(s, e)[Len(s) + 1] = e
    BY AppendProperties, LenProperties
<1>2. Len(s) + 1 \in 1..Len(Append(s, e))
    BY <1>1
<1> QED
    BY <1>1, <1>2 DEF Contains

(* To take out an element leaves the others in.                            *)
LEMMA OthersAreKept ==
    ASSUME NEW S, NEW s \in Seq(S), NEW i \in DOMAIN s
    PROVE  /\ RemoveAt(s, i) \in Seq(S)
           /\ \A e : e # s[i] /\ Contains(s, e) => Contains(RemoveAt(s, i), e)
<1> DEFINE l == SubSeq(s, 1, i - 1)
           r == SubSeq(s, i + 1, Len(s))
<1>1. Len(s) \in Nat /\ DOMAIN s = 1..Len(s) /\ i \in 1..Len(s) /\ \A k \in 1..Len(s) : s[k] \in S
    BY LenProperties, ElementOfSeq
<1>2. /\ l \in Seq(S) /\ Len(l) = i - 1
      /\ \A k \in 1..(i - 1) : l[k] = s[k]
    <2>1. 1 \in Int /\ i - 1 \in Int /\ \A k \in 1..(i - 1) : s[k] \in S
        BY <1>1
    <2>2. /\ l \in Seq(S) /\ Len(l) = (IF 1 <= i - 1 THEN (i - 1) - 1 + 1 ELSE 0)
          /\ \A k \in 1..((i - 1) - 1 + 1) : l[k] = s[1 + k - 1]
        BY <2>1, SubSeqProperties
    <2> HIDE DEF l
    <2>3. \A k \in 1..(i - 1) : k \in 1..((i - 1) - 1 + 1) /\ 1 + k - 1 = k
        BY <1>1
    <2>4. Len(l) = i - 1
        BY <1>1, <2>2
    <2> QED
        BY <2>2, <2>3, <2>4
<1>3. /\ r \in Seq(S) /\ Len(r) = Len(s) - i
      /\ \A k \in 1..(Len(s) - i) : r[k] = s[i + k]
    <2>1. i + 1 \in Int /\ Len(s) \in Int /\ \A k \in (i + 1)..Len(s) : s[k] \in S
        BY <1>1
    <2>2. /\ r \in Seq(S) /\ Len(r) = (IF i + 1 <= Len(s) THEN Len(s) - (i + 1) + 1 ELSE 0)
          /\ \A k \in 1..(Len(s) - (i + 1) + 1) : r[k] = s[(i + 1) + k - 1]
        BY <2>1, SubSeqProperties
    <2> HIDE DEF r
    <2>3. \A k \in 1..(Len(s) - i) : k \in 1..(Len(s) - (i + 1) + 1) /\ (i + 1) + k - 1 = i + k
        BY <1>1
    <2>4. Len(r) = Len(s) - i
        BY <1>1, <2>2
    <2> QED
        BY <2>2, <2>3, <2>4
<1>4. RemoveAt(s, i) = l \o r
    BY DEF RemoveAt
<1> HIDE DEF l, r
<1>5. /\ l \o r \in Seq(S) /\ Len(l \o r) = Len(s) - 1
      /\ \A k \in 1..(Len(l) + Len(r)) : (l \o r)[k] = IF k <= Len(l) THEN l[k] ELSE r[k - Len(l)]
    <2>1. /\ l \o r \in Seq(S) /\ Len(l \o r) = Len(l) + Len(r)
          /\ \A k \in 1..(Len(l) + Len(r)) : (l \o r)[k] = IF k <= Len(l) THEN l[k] ELSE r[k - Len(l)]
        BY <1>2, <1>3, ConcatProperties, Zenon
    <2>2. Len(l) + Len(r) = Len(s) - 1
        BY <1>1, <1>2, <1>3
    <2> QED
        BY <2>1, <2>2
<1>6. ASSUME NEW e, e # s[i], NEW k \in 1..Len(s), s[k] = e
      PROVE  \E m \in 1..Len(l \o r) : (l \o r)[m] = e
    <2>1. CASE k < i
        <3>1. k \in 1..Len(l \o r) /\ k \in 1..(Len(l) + Len(r)) /\ k <= Len(l) /\ k \in 1..(i - 1)
            BY <1>1, <1>2, <1>3, <1>5, <2>1
        <3>2. (l \o r)[k] = s[k]
            BY <1>2, <1>5, <3>1
        <3> QED
            BY <1>6, <3>1, <3>2
    <2>2. CASE k > i
        <3>1. /\ k - 1 \in 1..Len(l \o r) /\ k - 1 \in 1..(Len(l) + Len(r)) /\ ~(k - 1 <= Len(l))
              /\ (k - 1) - Len(l) = k - i /\ k - i \in 1..(Len(s) - i) /\ i + (k - i) = k
            BY <1>1, <1>2, <1>3, <1>5, <2>2
        <3>2. (l \o r)[k - 1] = r[k - i]
            BY <1>5, <3>1
        <3>3. r[k - i] = s[k]
            BY <1>3, <3>1
        <3> QED
            BY <1>6, <3>1, <3>2, <3>3
    <2> QED
        BY <1>1, <1>6, <2>1, <2>2
<1> QED
    BY <1>4, <1>5, <1>6 DEF Contains

-----------------------------------------------------------------------------
(* What the steps are made of.                                             *)

(* The ids of objects stay good when the API server makes a new version.   *)
LEMMA IdsGrow ==
    ASSUME ObjectOk, \/ log' = log \/ \E v \in Versions : log' = Append(log, v)
    PROVE  Ids \subseteq Ids' /\ Requests \subseteq Requests' /\ Handlings \subseteq Handlings'
<1>1. Len(log) \in Nat
    BY LenProperties DEF ObjectOk
<1>2. Len(log') \in Nat /\ Len(log) <= Len(log')
    BY <1>1, AppendProperties DEF ObjectOk
<1>3. Ids \subseteq Ids'
    BY <1>1, <1>2 DEF Ids
<1>4. Requests \subseteq Requests'
    BY <1>3 DEF Requests
<1>5. Handlings \subseteq Handlings'
    BY <1>3 DEF Handlings, CallsAt
<1> QED
    BY <1>3, <1>4, <1>5

(* A version that keeps the finalizer keeps the object held.               *)
LEMMA LogGrows ==
    ASSUME ObjectOk, Held, NEW v \in Versions, log' = Append(log, v),
           Contains(Current.fins, "finalizer") => Contains(v.fins, "finalizer"),
           mem' \in Seq(Versions), Len(mem') = Len(mem) + 1
    PROVE  ObjectOk' /\ Held' /\ Len(log') = Len(log) + 1
<1>1. /\ log' \in Seq(Versions) /\ Len(log) \in Nat /\ Len(log') = Len(log) + 1
      /\ \A i \in 1..Len(log) : log'[i] = log[i]
      /\ log'[Len(log) + 1] = v
    BY AppendProperties, LenProperties DEF ObjectOk
<1>2. ObjectOk'
    BY <1>1 DEF ObjectOk
<1>3. Held'
    <2> SUFFICES ASSUME NEW i \in 1..Len(log'), Contains(log'[i].fins, "finalizer"), ~Contains(v.fins, "finalizer")
                 PROVE  FALSE
        BY <1>1 DEF Held, Marked, Current
    <2>1. i \in 1..Len(log) /\ log'[i] = log[i]
        BY <1>1
    <2>2. Marked
        BY <2>1 DEF Marked
    <2> QED
        BY <2>2 DEF Held
<1> QED
    BY <1>1, <1>2, <1>3

LEMMA CurrentIsVersion ==
    ASSUME ObjectOk
    PROVE  Current \in Versions /\ Len(log) \in Ids /\ \A i \in Ids : log[i] \in Versions /\ mem[i] \in Versions
<1>1. Len(log) \in Nat /\ Len(log) # 0 /\ Len(mem) = Len(log)
    BY LenProperties DEF ObjectOk
<1>2. Len(log) \in Ids
    BY <1>1 DEF Ids
<1>3. \A i \in Ids : log[i] \in Versions /\ mem[i] \in Versions
    BY <1>1, ElementOfSeq DEF Ids, ObjectOk
<1> QED
    BY <1>2, <1>3 DEF Current

LEMMA NewVersion ==
    ASSUME ObjectOk, NEW gen \in Nat, NEW deleted \in BOOLEAN, NEW fins \in Seq(Finalizers)
    PROVE  Version(gen, deleted, fins) \in Versions /\ Version(gen, deleted, fins).fins = fins
<1>1. Len(log) + 1 \in Nat
    BY LenProperties DEF ObjectOk
<1>2. (~(deleted /\ fins = <<>>)) \in BOOLEAN
    OBVIOUS
<1> QED
    BY <1>1, <1>2 DEF Version, Versions

LEMMA DecodedVersion ==
    ASSUME NEW old \in Versions, NEW v \in Versions
    PROVE  Decoded(old, v) \in Versions
    BY DEF Decoded, Versions

LEMMA GoneToOk ==
    ASSUME NEW pcs, NEW c \in CallsAt(pcs), NEW to \in Actions \cup {"addFinalizer"}
    PROVE  GoTo(c, to) \in Handlings
<1>1. to # "idle"
    BY DEF Actions
<1>2. GoTo(c, to) = [c EXCEPT !.pc = to, !.tries = 0, !.stale = FALSE]
    BY <1>1 DEF GoTo
<1>3. PICK d : d = [c EXCEPT !.pc = to]
    OBVIOUS
<1>4. d \in Handlings
    BY <1>3 DEF Handlings, CallsAt
<1>5. PICK e : e = [d EXCEPT !.tries = 0]
    OBVIOUS
<1>6. e \in Handlings
    BY <1>4, <1>5 DEF Handlings, CallsAt
<1>7. [e EXCEPT !.stale = FALSE] \in Handlings
    BY <1>6 DEF Handlings, CallsAt
<1>8. GoTo(c, to) = [e EXCEPT !.stale = FALSE]
    BY <1>2, <1>3, <1>5, Zenon
<1> QED
    BY <1>7, <1>8

(* Where a call begins: without a State that says so it does not remove    *)
(* the finalizer.                                                          *)
LEMMA BegunOk ==
    ASSUME ObjectOk, NEW q \in Requests
    PROVE  Begin(q) \in {Idle} \cup Handlings
<1> DEFINE c == Started(q)
<1>1. /\ q.action \in EventActions /\ q.id \in Ids /\ q.src \in Ids /\ q.shared \in BOOLEAN
      /\ q.attempt \in Nat /\ q.state \in Unhandled
    BY DEF Requests
<1>2. Obj(q) \in Versions /\ Old(q) \in Versions
    BY <1>1, CurrentIsVersion DEF Obj, Old
<1>3. Obj(q).fins \in Seq(Finalizers) /\ Old(q).fins \in Seq(Finalizers) /\ <<>> \in Seq(Finalizers)
    BY <1>2, EmptySeq DEF Versions
<1>4. (IF q.action = "CREATE" THEN <<>> ELSE Old(q).fins) \in Seq(Finalizers)
    BY <1>3
<1>5. c = [pc |-> "start", action |-> q.action, id |-> q.id, src |-> q.src, shared |-> q.shared,
           attempt |-> q.attempt, state |-> q.state, tries |-> 0, stale |-> FALSE,
           fins |-> Obj(q).fins, oldFins |-> IF q.action = "CREATE" THEN <<>> ELSE Old(q).fins]
    BY DEF Started
<1>6. c.action \in EventActions /\ c.state \in Unhandled /\ c.id = q.id
    BY <1>1, <1>5
<1>7. Reconcile(c) \in Actions \cup {"addFinalizer", "idle"}
    <2> HIDE DEF c
    <2>1. "remove" \notin c.state
        BY <1>6 DEF Unhandled
    <2>2. Obj(c).deleted \in BOOLEAN
        BY <1>2, <1>6 DEF Obj, Versions
    <2> QED
        <3>1. CASE c.action = "DELETE"
            BY <2>2, <3>1 DEF Reconcile
        <3>2. CASE c.action # "DELETE" /\ Obj(c).deleted
            BY <2>1, <2>2, <3>2 DEF Reconcile, Actions
        <3>3. CASE c.action = "CREATE" /\ ~Obj(c).deleted
            BY <2>2, <3>3 DEF Reconcile, Actions
        <3>4. CASE c.action = "UPDATE" /\ ~Obj(c).deleted
            BY <2>2, <3>4 DEF Reconcile, Actions
        <3>5. CASE c.action = "RESYNC" /\ ~Obj(c).deleted
            BY <2>2, <3>5 DEF Reconcile, Actions
        <3> QED
            BY <1>6, <2>2, <3>1, <3>2, <3>3, <3>4, <3>5 DEF EventActions
<1>8. \A to \in Actions \cup {"addFinalizer"} : GoTo(c, to) \in Handlings
    <2>1. c \in CallsAt({"start"})
        BY <1>1, <1>3, <1>4, <1>5 DEF CallsAt
    <2> HIDE DEF c
    <2> QED
        BY <2>1, GoneToOk
<1>9. GoTo(c, "idle") = Idle
    BY DEF GoTo
<1>10. Begin(q) = GoTo(c, Reconcile(c))
    BY DEF Begin
<1> HIDE DEF c
<1> QED
    BY <1>7, <1>8, <1>9, <1>10

LEMMA QueuedOk ==
    ASSUME NEW c \in Handlings, NEW attempt \in Nat
    PROVE  Queued(c, attempt) \in Requests
    BY DEF Handlings, CallsAt, Queued, Requests

(* A call that fails leaves at most a request of its own behind.           *)
LEMMA FailOk ==
    ASSUME CallsOk, RetriesOk, NEW p \in Procs, call[p] \in Handlings, Fail(p, call[p])
    PROVE  call' \in [Procs -> {Idle} \cup Handlings] /\ retries' \subseteq Requests
<1>1. call' = [call EXCEPT ![p] = Idle]
    BY DEF Fail
<1>2. call' \in [Procs -> {Idle} \cup Handlings]
    BY <1>1 DEF CallsOk
<1>3. call[p].attempt \in Nat
    BY DEF Handlings, CallsAt
<1>4. PICK attempt \in Nat : retries' \subseteq retries \cup {Queued(call[p], attempt)}
    <2> DEFINE n == IF p = "handler" THEN 0 ELSE call[p].attempt + 1
    <2>1. n \in Nat
        BY <1>3
    <2>2. retries' \subseteq retries \cup {Queued(call[p], n)}
        BY DEF Fail
    <2> QED
        BY <2>1, <2>2
<1>5. Queued(call[p], attempt) \in Requests
    BY QueuedOk
<1> QED
    BY <1>2, <1>4, <1>5 DEF RetriesOk

-----------------------------------------------------------------------------
(* The steps.                                                              *)

LEMMA InitGuarded == ReconcilerInit => Guarded
<1> SUFFICES ASSUME ReconcilerInit PROVE Guarded
    OBVIOUS
<1>1. PICK fins : /\ \E f \in SUBSET Foreign : fins \in SetToSeqs(f)
                  /\ log = <<[rv |-> 1, gen |-> 1, deleted |-> FALSE, fins |-> fins, live |-> TRUE]>>
    BY DEF ReconcilerInit, Init
<1>2. fins \in Seq(Finalizers)
    <2>0. PICK f \in SUBSET Foreign : fins \in SetToSeqs(f)
        BY <1>1
    <2>1. IsFiniteSet(f)
        BY FinalizedObjectAssumption, FS_Subset
    <2>2. Cardinality(f) \in Nat
        BY <2>1, FS_CardinalityType
    <2>3. fins \in [1..Cardinality(f) -> f]
        BY <2>0 DEF SetToSeqs
    <2>4. fins \in Seq(f)
        BY <2>2, <2>3
    <2> QED
        BY <2>4, SeqMonotonic DEF Finalizers
<1>3. PICK v \in Versions : log = <<v>>
    BY <1>1, <1>2 DEF Versions
<1>4. log \in Seq(Versions) /\ Len(log) = 1 /\ log[1] = v
    BY <1>3
<1>5. ObjectOk
    BY <1>4 DEF ReconcilerInit, Init, ObjectOk
<1>6. Held
    BY <1>4 DEF Held, Marked, Current
<1>7. InformerOk
    <2>1. seen = 0 /\ listed = FALSE /\ watchList \in BOOLEAN
        BY FinalizedObjectAssumption DEF ReconcilerInit, Init
    <2>2. 0 \in 0..Len(log) /\ FALSE \in BOOLEAN
        BY <1>4
    <2> QED
        BY <2>1, <2>2, Zenon DEF InformerOk
<1>8. CallsOk /\ RetriesOk
    BY DEF ReconcilerInit, Init, CallsOk, RetriesOk
<1> QED
    BY <1>5, <1>6, <1>7, <1>8 DEF Guarded

(* A change by a user or by another controller.                            *)
LEMMA ChangeGuarded ==
    ASSUME Guarded, NEW v \in Versions, Change(v),
           Contains(Current.fins, "finalizer") => Contains(v.fins, "finalizer")
    PROVE  Guarded'
<1>1. /\ log' = Append(log, v) /\ mem' = Append(mem, v) /\ call' = call /\ retries' = retries
      /\ seen' = seen /\ listed' = listed /\ watchList' = watchList
    BY DEF Change, informer
<1>2. ObjectOk /\ Held
    BY DEF Guarded
<1>3. mem' \in Seq(Versions) /\ Len(mem') = Len(mem) + 1
    BY <1>1, <1>2, AppendProperties DEF ObjectOk
<1>4. ObjectOk' /\ Held' /\ Len(log') = Len(log) + 1
    BY <1>1, <1>2, <1>3, LogGrows
<1>5. Requests \subseteq Requests' /\ Handlings \subseteq Handlings'
    BY <1>1, <1>2, IdsGrow
<1>6. CallsOk' /\ RetriesOk'
    BY <1>1, <1>5 DEF Guarded, CallsOk, RetriesOk
<1>7. InformerOk'
    <2>1. Len(log) \in Nat
        BY <1>2, LenProperties DEF ObjectOk
    <2> QED
        BY <1>1, <1>4, <2>1 DEF Guarded, InformerOk
<1> QED
    BY <1>4, <1>6, <1>7 DEF Guarded

LEMMA EnvironmentGuarded == Guarded /\ Environment => Guarded'
<1> SUFFICES ASSUME Guarded, Environment PROVE Guarded'
    OBVIOUS
<1>1. ObjectOk /\ Current \in Versions
    BY CurrentIsVersion DEF Guarded
<1>2. Current.gen \in Nat /\ Current.deleted \in BOOLEAN /\ Current.fins \in Seq(Finalizers)
    BY <1>1 DEF Versions
<1>3. PICK gen \in Nat, deleted \in BOOLEAN, fins \in Seq(Finalizers) :
        /\ Change(Version(gen, deleted, fins))
        /\ Contains(Current.fins, "finalizer") => Contains(fins, "finalizer")
    <2>1. CASE UserUpdate
        BY <1>2, <2>1 DEF UserUpdate
    <2>2. CASE UserDelete
        <3>1. Current.gen + 1 \in Nat /\ TRUE \in BOOLEAN
            BY <1>2
        <3> QED
            BY <1>2, <2>2, <3>1, Zenon DEF UserDelete
    <2>3. CASE ForeignFinalizerRemoved
        <3>1. PICK i \in DOMAIN Current.fins :
                /\ Current.fins[i] \in Foreign
                /\ Change(Version(Current.gen, Current.deleted, RemoveAt(Current.fins, i)))
            BY <2>3 DEF ForeignFinalizerRemoved
        <3>2. Current.fins[i] # "finalizer"
            BY <3>1, FinalizedObjectAssumption
        <3>3. PICK s \in Seq(Finalizers) : s = Current.fins
            BY <1>2
        <3>4. /\ RemoveAt(s, i) \in Seq(Finalizers)
              /\ Contains(s, "finalizer") => Contains(RemoveAt(s, i), "finalizer")
            BY <3>2, <3>3, OthersAreKept
        <3> QED
            BY <1>2, <3>1, <3>3, <3>4
    <2> QED
        BY <2>1, <2>2, <2>3 DEF Environment
<1>4. Version(gen, deleted, fins) \in Versions /\ Version(gen, deleted, fins).fins = fins
    BY <1>1, NewVersion
<1> QED
    BY <1>3, <1>4, ChangeGuarded

(* An event is delivered.                                                  *)
LEMMA DeliverGuarded ==
    ASSUME Guarded, NEW event \in Requests, NEW list \in BOOLEAN,
           Deliver(event, list, Begin(event))
    PROVE  Guarded'
<1>1. /\ log' = log /\ mem' = mem /\ seen' = event.id /\ listed' = list /\ watchList' = watchList
      /\ retries' \subseteq retries /\ call' = [call EXCEPT !["handler"] = Begin(event)]
    BY DEF Deliver, object
<1>2. Begin(event) \in {Idle} \cup Handlings
    BY BegunOk DEF Guarded
<1>3. call' \in [Procs -> {Idle} \cup Handlings]
    BY <1>1, <1>2 DEF Guarded, CallsOk
<1>4. Requests' = Requests /\ Handlings' = Handlings
    BY <1>1 DEF Requests, Handlings, CallsAt, Ids
<1>5. CallsOk' /\ RetriesOk'
    BY <1>1, <1>3, <1>4 DEF Guarded, CallsOk, RetriesOk
<1>6. event.id \in 0..Len(log)
    <2>1. event.id \in Ids /\ Len(log) \in Nat
        BY LenProperties DEF Requests, Guarded, ObjectOk
    <2> QED
        BY <2>1 DEF Ids
<1>7. InformerOk'
    BY <1>1, <1>6 DEF Guarded, InformerOk
<1>8. ObjectOk' /\ Held'
    BY <1>1 DEF Guarded, ObjectOk, Held, Marked, Current
<1> QED
    BY <1>5, <1>7, <1>8 DEF Guarded

LEMMA EventIsRequest ==
    ASSUME Guarded, NEW action \in EventActions, NEW i \in Ids
    PROVE  EventOf(action, i) \in Requests
<1>1. seen \in 0..Len(log) /\ Len(log) \in Nat
    BY LenProperties DEF Guarded, ObjectOk, InformerOk
<1>2. (IF seen = 0 THEN i ELSE seen) \in Ids
    BY <1>1 DEF Ids
<1>3. (IF seen = 0 THEN ~watchList ELSE listed) \in BOOLEAN
    BY DEF Guarded, InformerOk
<1>4. {} \in Unhandled
    BY DEF Unhandled
<1> QED
    BY <1>2, <1>3, <1>4 DEF EventOf, Requests

LEMMA InformerGuarded == Guarded /\ (InformerAdd \/ InformerUpdate \/ InformerRelist) => Guarded'
<1> SUFFICES ASSUME Guarded, InformerAdd \/ InformerUpdate \/ InformerRelist PROVE Guarded'
    OBVIOUS
<1>1. /\ Len(log) \in Ids /\ Len(log) \in Nat /\ seen \in 0..Len(log)
      /\ (seen < Len(log) => seen + 1 \in Ids)
    BY LenProperties DEF Guarded, ObjectOk, InformerOk, Ids
<1>2. (~watchList) \in BOOLEAN
    BY DEF Guarded, InformerOk
<1>3. \A i \in Ids : EventAction(i) \in EventActions
    <2> SUFFICES ASSUME NEW i \in Ids PROVE EventAction(i) \in EventActions
        OBVIOUS
    <2>1. log[i].live \in BOOLEAN
        BY CurrentIsVersion DEF Guarded, Versions
    <2> QED
        BY <2>1 DEF EventAction, EventActions
<1>4. CASE InformerAdd
    <2>1. PICK event \in Requests : event = EventOf("CREATE", Len(log))
        BY <1>1, EventIsRequest DEF EventActions
    <2>2. Deliver(event, ~watchList, Begin(event))
        BY <1>4, <2>1 DEF InformerAdd, List
    <2> QED
        BY <1>2, <2>2, DeliverGuarded
<1>5. CASE InformerUpdate
    <2>1. seen < Len(log)
        BY <1>5 DEF InformerUpdate, Watch
    <2>2. PICK event \in Requests : event = EventOf(EventAction(seen + 1), seen + 1)
        BY <1>1, <1>3, <2>1, EventIsRequest
    <2>3. Deliver(event, FALSE, Begin(event))
        BY <1>5, <2>2 DEF InformerUpdate, Watch
    <2> QED
        BY <2>3, DeliverGuarded
<1>6. CASE InformerRelist
    <2>1. PICK event \in Requests : event = EventOf(EventAction(Len(log)), Len(log))
        BY <1>1, <1>3, EventIsRequest
    <2>2. CASE Current.live
        <3>1. Deliver(event, ~watchList, Begin(event))
            BY <1>6, <2>1, <2>2 DEF InformerRelist, Relist
        <3> QED
            BY <1>2, <3>1, DeliverGuarded
    <2>3. CASE ~Current.live
        <3>1. /\ log' = log /\ mem' = mem /\ seen' = Len(log) /\ listed' = FALSE /\ watchList' = watchList
              /\ call' = call /\ retries' = retries
            BY <1>6, <2>3 DEF InformerRelist, Relist, object
        <3>2. Len(log) \in 0..Len(log) /\ FALSE \in BOOLEAN
            BY <1>1
        <3>3. InformerOk'
            BY <3>1, <3>2, Zenon DEF Guarded, InformerOk
        <3>4. Requests' = Requests /\ Handlings' = Handlings
            BY <3>1 DEF Requests, Handlings, CallsAt, Ids
        <3>5. CallsOk' /\ RetriesOk'
            BY <3>1, <3>4 DEF Guarded, CallsOk, RetriesOk
        <3>6. ObjectOk' /\ Held'
            BY <3>1 DEF Guarded, ObjectOk, Held, Marked, Current
        <3> QED
            BY <3>3, <3>5, <3>6 DEF Guarded
    <2> QED
        BY <2>2, <2>3
<1> QED
    BY <1>4, <1>5, <1>6

(* A step that changes neither the object nor what the informer has seen.  *)
LEMMA SameLog ==
    ASSUME Guarded, log' = log, mem' \in Seq(Versions), Len(mem') = Len(mem),
           seen' = seen, listed' = listed, watchList' = watchList,
           call' \in [Procs -> {Idle} \cup Handlings], retries' \subseteq Requests
    PROVE  Guarded'
<1>1. Requests' = Requests /\ Handlings' = Handlings
    BY DEF Requests, Handlings, CallsAt, Ids
<1>2. CallsOk' /\ RetriesOk'
    BY <1>1 DEF CallsOk, RetriesOk
<1>3. ObjectOk' /\ Held'
    BY DEF Guarded, ObjectOk, Held, Marked, Current
<1>4. InformerOk'
    BY DEF Guarded, InformerOk
<1> QED
    BY <1>2, <1>3, <1>4 DEF Guarded

LEMMA RetryGuarded == Guarded /\ Retry => Guarded'
<1> SUFFICES ASSUME Guarded, Retry PROVE Guarded'
    OBVIOUS
<1>1. PICK r \in retries : TakeRetry(r, Begin(r))
    BY DEF Retry
<1>2. /\ log' = log /\ mem' = mem /\ seen' = seen /\ listed' = listed /\ watchList' = watchList
      /\ retries' \subseteq retries /\ call' = [call EXCEPT !["retrier"] = Begin(r)]
    BY <1>1 DEF TakeRetry, object, informer
<1>3. Begin(r) \in {Idle} \cup Handlings
    BY BegunOk DEF Guarded, RetriesOk
<1>4. call' \in [Procs -> {Idle} \cup Handlings]
    BY <1>2, <1>3 DEF Guarded, CallsOk
<1>5. retries' \subseteq Requests /\ mem' \in Seq(Versions) /\ Len(mem') = Len(mem)
    BY <1>2 DEF Guarded, RetriesOk, ObjectOk
<1> QED
    BY <1>2, <1>4, <1>5, SameLog

(* After a restart there is the object, and nothing else.                  *)
LEMMA CrashGuarded == Guarded /\ Crash => Guarded'
<1> SUFFICES ASSUME Guarded, Crash PROVE Guarded'
    OBVIOUS
<1>1. /\ log' = log /\ mem' = log /\ seen' = 0 /\ listed' = FALSE /\ watchList' = watchList
      /\ call' = [p \in Procs |-> Idle] /\ retries' = {}
    BY DEF Crash
<1>2. ObjectOk' /\ Held'
    BY <1>1 DEF Guarded, ObjectOk, Held, Marked, Current
<1>3. CallsOk' /\ RetriesOk'
    BY <1>1 DEF CallsOk, RetriesOk
<1>4. InformerOk'
    <2>1. 0 \in 0..Len(log) /\ FALSE \in BOOLEAN
        BY LenProperties DEF Guarded, ObjectOk
    <2> QED
        BY <1>1, <2>1, Zenon DEF Guarded, InformerOk
<1> QED
    BY <1>2, <1>3, <1>4 DEF Guarded

(* The goroutine that takes a step is in a call.                           *)
LEMMA InACall ==
    ASSUME Guarded, NEW p \in Procs, call[p].pc # "idle"
    PROVE  call[p] \in Handlings
    BY DEF Guarded, CallsOk, Idle

(* The user's reconciler has handled something other than the deletion.    *)
LEMMA ReconcileGuarded ==
    ASSUME Guarded, NEW p \in Procs, ReconcileOk(p), call[p].pc # "Deleted"
    PROVE  Guarded'
<1> DEFINE c == call[p]
<1>1. /\ c.pc \in Actions /\ call' = [call EXCEPT ![p] = Handled(p, c)]
      /\ log' = log /\ mem' = mem /\ seen' = seen /\ listed' = listed /\ watchList' = watchList
      /\ retries' = retries
    BY DEF ReconcileOk, object, informer
<1>2. c \in Handlings
    BY <1>1, InACall DEF Actions
<1>3. Handled(p, c) \in {Idle} \cup Handlings
    <2>1. CASE c.pc = "Created"
        <3>1. PICK g \in Handlings : g = GoTo(c, "addFinalizer")
            BY <1>2, GoneToOk DEF Handlings
        <3>2. Handled(p, c) = [g EXCEPT !.state = IF p = "handler" THEN {"add"} ELSE @]
            BY <2>1, <3>1 DEF Handled
        <3>3. PICK t \in Unhandled : t = IF p = "handler" THEN {"add"} ELSE g.state
            BY <3>1 DEF Handlings, CallsAt, Unhandled
        <3>4. Handled(p, c) = [g EXCEPT !.state = t]
            BY <3>2, <3>3, Zenon
        <3> QED
            BY <3>1, <3>4 DEF Handlings, CallsAt
    <2>2. CASE c.pc # "Created"
        BY <2>2 DEF Handled
    <2> QED
        BY <2>1, <2>2
<1> HIDE DEF c
<1>4. call' \in [Procs -> {Idle} \cup Handlings]
    BY <1>1, <1>3 DEF Guarded, CallsOk
<1>5. retries' \subseteq Requests /\ mem' \in Seq(Versions) /\ Len(mem') = Len(mem)
    BY <1>1 DEF Guarded, RetriesOk, ObjectOk
<1> QED
    BY <1>1, <1>4, <1>5, SameLog

LEMMA FailureGuarded ==
    ASSUME Guarded, NEW p \in Procs, CallFails(p) \/ RequeueAfter(p)
    PROVE  Guarded'
<1>1. call[p].pc # "idle"
    BY DEF CallFails, RequeueAfter, Actions, FinalizerOps
<1>2. call[p] \in Handlings
    BY <1>1, InACall
<1>3. /\ log' = log /\ mem' = mem /\ seen' = seen /\ listed' = listed /\ watchList' = watchList
    BY DEF CallFails, Fault, RequeueAfter, object, informer
<1>4. call' \in [Procs -> {Idle} \cup Handlings] /\ retries' \subseteq Requests
    <2>1. CASE CallFails(p)
        BY <1>2, <2>1, FailOk DEF CallFails, Fault, Guarded
    <2>2. CASE RequeueAfter(p)
        <3>1. /\ call' = [call EXCEPT ![p] = Idle]
              /\ retries' = retries \cup {Queued(call[p], call[p].attempt)}
            BY <2>2 DEF RequeueAfter
        <3>2. call[p].attempt \in Nat
            BY <1>2 DEF Handlings, CallsAt
        <3>3. Queued(call[p], call[p].attempt) \in Requests
            BY <1>2, <3>2, QueuedOk
        <3> QED
            BY <3>1, <3>3 DEF Guarded, CallsOk, RetriesOk
    <2> QED
        BY <2>1, <2>2
<1>5. mem' \in Seq(Versions) /\ Len(mem') = Len(mem)
    BY <1>3 DEF Guarded, ObjectOk
<1> QED
    BY <1>3, <1>4, <1>5, SameLog

LEMMA GetIntoGuarded ==
    ASSUME Guarded, NEW p \in Procs, GetInto(p)
    PROVE  Guarded'
<1> DEFINE c == call[p]
<1>1. c \in Handlings
    BY InACall DEF GetInto
<1>2. log' = log /\ seen' = seen /\ listed' = listed /\ watchList' = watchList
    BY DEF GetInto, object, informer
<1>3. CASE Current.live
    <2>1. /\ mem' = [mem EXCEPT ![c.id] = Decoded(Obj(c), Current)] /\ retries' = retries
          /\ call' = [call EXCEPT ![p].stale = FALSE, ![p].tries = @ + 1]
        BY <1>3 DEF GetInto
    <2>2. c.id \in Ids /\ Obj(c) \in Versions /\ Current \in Versions
        BY <1>1, CurrentIsVersion DEF Handlings, CallsAt, Obj, Guarded
    <2>3. Decoded(Obj(c), Current) \in Versions
        BY <2>2, DecodedVersion
    <2>4. mem' \in Seq(Versions) /\ Len(mem') = Len(mem)
        BY <2>1, <2>2, <2>3, ExceptSeq DEF Guarded, ObjectOk, Ids
    <2>5. call' \in [Procs -> {Idle} \cup Handlings]
        <3>1. PICK d : d = [c EXCEPT !.stale = FALSE, !.tries = @ + 1]
            OBVIOUS
        <3>2. d \in Handlings
            <4>1. PICK e : e = [c EXCEPT !.stale = FALSE]
                OBVIOUS
            <4>2. e \in Handlings
                BY <1>1, <4>1 DEF Handlings, CallsAt
            <4>3. PICK n \in Nat : n = c.tries + 1
                BY <1>1 DEF Handlings, CallsAt
            <4>4. [e EXCEPT !.tries = n] \in Handlings
                BY <4>2, <4>3 DEF Handlings, CallsAt
            <4>5. d = [e EXCEPT !.tries = n]
                BY <3>1, <4>1, <4>3, Zenon
            <4> QED
                BY <4>4, <4>5
        <3>3. call' = [call EXCEPT ![p] = d]
            BY <2>1, <3>1 DEF Guarded, CallsOk
        <3> QED
            BY <3>2, <3>3 DEF Guarded, CallsOk
    <2> QED
        BY <1>2, <2>1, <2>4, <2>5, SameLog DEF Guarded, RetriesOk
<1>4. CASE ~Current.live
    <2>1. Fail(p, call[p]) /\ mem' = mem
        BY <1>4 DEF GetInto, object
    <2>2. call' \in [Procs -> {Idle} \cup Handlings] /\ retries' \subseteq Requests
        BY <1>1, <2>1, FailOk DEF Guarded
    <2>3. mem' \in Seq(Versions) /\ Len(mem') = Len(mem)
        BY <2>1 DEF Guarded, ObjectOk
    <2> QED
        BY <1>2, <2>2, <2>3, SameLog
<1> QED
    BY <1>3, <1>4

(* The only patch there is adds the finalizer.                             *)
LEMMA PatchGuarded ==
    ASSUME Guarded, NEW p \in Procs, PatchFinalizer(p)
    PROVE  Guarded'
<1> DEFINE c == call[p]
           new == Patched(c.pc, Obj(c).fins)
           v == Version(Current.gen, Current.deleted, new)
<1>1. c \in Handlings /\ c.pc = "addFinalizer"
    <2>1. c \in Handlings
        BY InACall DEF PatchFinalizer, FinalizerOps
    <2> QED
        BY <2>1 DEF PatchFinalizer, FinalizerOps, Handlings, CallsAt, Actions
<1>2. PatchInto(p, new, Idle)
    BY DEF PatchFinalizer
<1>3. c.id \in Ids /\ Obj(c) \in Versions /\ Current \in Versions
    BY <1>1, CurrentIsVersion DEF Handlings, CallsAt, Obj, Guarded
<1>4. new \in Seq(Finalizers) /\ Contains(new, "finalizer")
    <2>1. PICK s \in Seq(Finalizers) : s = Obj(c).fins
        BY <1>3 DEF Versions
    <2>2. new = doAddFinalizer(s, "finalizer")
        BY <1>1, <2>1 DEF Patched
    <2>3. "finalizer" \in Finalizers
        BY DEF Finalizers
    <2>4. Append(s, "finalizer") \in Seq(Finalizers) /\ Contains(Append(s, "finalizer"), "finalizer")
        BY <2>3, AddedIsContained
    <2> QED
        BY <2>2, <2>4 DEF doAddFinalizer
<1>5. v \in Versions /\ v.fins = new
    BY <1>3, <1>4, NewVersion DEF Versions, Guarded
<1>6. seen' = seen /\ listed' = listed /\ watchList' = watchList
    BY <1>2 DEF PatchInto, informer
<1>7. \/ /\ log' = log /\ mem' = mem
         /\ \/ Succeed(p, Idle)
            \/ Fail(p, c)
            \/ call' = [call EXCEPT ![p].stale = TRUE] /\ retries' = retries
      \/ /\ log' = Append(log, v)
         /\ \/ mem' = [Append(mem, v) EXCEPT ![c.id] = Decoded(Obj(c), v)] /\ Succeed(p, Idle)
            \/ mem' = Append(mem, v) /\ Fail(p, c)
    BY <1>2 DEF PatchInto, object
<1> HIDE DEF new, v
<1>8. call' \in [Procs -> {Idle} \cup Handlings] /\ retries' \subseteq Requests
    <2>1. CASE Succeed(p, Idle)
        BY <2>1 DEF Succeed, Guarded, CallsOk, RetriesOk
    <2>2. CASE Fail(p, c)
        BY <1>1, <2>2, FailOk DEF Guarded
    <2>3. CASE call' = [call EXCEPT ![p].stale = TRUE] /\ retries' = retries
        <3>1. PICK d : d = [c EXCEPT !.stale = TRUE]
            OBVIOUS
        <3>2. d \in Handlings
            BY <1>1, <3>1 DEF Handlings, CallsAt
        <3>3. call' = [call EXCEPT ![p] = d]
            BY <2>3, <3>1 DEF Guarded, CallsOk
        <3> QED
            BY <2>3, <3>2, <3>3 DEF Guarded, CallsOk, RetriesOk
    <2> QED
        BY <1>7, <2>1, <2>2, <2>3
<1>9. CASE log' = log /\ mem' = mem
    BY <1>6, <1>8, <1>9, SameLog DEF Guarded, ObjectOk
<1>10. CASE /\ log' = Append(log, v)
            /\ mem' = [Append(mem, v) EXCEPT ![c.id] = Decoded(Obj(c), v)] \/ mem' = Append(mem, v)
    <2>1. /\ Append(mem, v) \in Seq(Versions) /\ Len(Append(mem, v)) = Len(mem) + 1
          /\ Len(mem) \in Nat /\ Len(mem) = Len(log)
        BY <1>5, AppendProperties, LenProperties DEF Guarded, ObjectOk
    <2>2. c.id \in 1..Len(Append(mem, v)) /\ Decoded(Obj(c), v) \in Versions
        BY <1>3, <1>5, <2>1, DecodedVersion DEF Ids
    <2>3. mem' \in Seq(Versions) /\ Len(mem') = Len(mem) + 1
        <3>1. PICK m \in Seq(Versions) : m = Append(mem, v)
            BY <2>1
        <3>2. PICK d \in Versions : d = Decoded(Obj(c), v)
            BY <2>2
        <3>3. [m EXCEPT ![c.id] = d] \in Seq(Versions) /\ Len([m EXCEPT ![c.id] = d]) = Len(m)
            BY <2>2, <3>1, ExceptSeq
        <3> QED
            BY <1>10, <2>1, <3>1, <3>2, <3>3
    <2>4. ObjectOk' /\ Held' /\ Len(log') = Len(log) + 1
        BY <1>4, <1>5, <1>10, <2>3, LogGrows DEF Guarded
    <2>5. Requests \subseteq Requests' /\ Handlings \subseteq Handlings'
        BY <1>5, <1>10, IdsGrow DEF Guarded
    <2>6. CallsOk' /\ RetriesOk'
        BY <1>8, <2>5 DEF CallsOk, RetriesOk
    <2>7. InformerOk'
        BY <1>6, <2>1, <2>4 DEF Guarded, InformerOk
    <2> QED
        BY <2>4, <2>6, <2>7 DEF Guarded
<1> QED
    BY <1>7, <1>9, <1>10

LEMMA NextInv == IInv /\ [Next]_vars => IInv'
<1> SUFFICES ASSUME IInv, [Next]_vars, ~finished' PROVE Guarded'
    BY DEF IInv
<1>1. CASE UNCHANGED vars
    <2>1. /\ log' = log /\ mem' = mem /\ seen' = seen /\ listed' = listed /\ watchList' = watchList
          /\ call' = call /\ retries' = retries /\ finished' = finished
        BY <1>1 DEF vars, object, informer, history
    <2>2. Guarded
        BY <2>1 DEF IInv
    <2> QED
        BY <2>1, <2>2, SameLog DEF Guarded, ObjectOk, CallsOk, RetriesOk
<1>2. CASE Next
    <2>1. finished => finished'
        BY <1>2 DEF Next, Environment, InformerAdd, InformerUpdate, InformerRelist, Retry, Proc, ReconcileOk,
                    PatchFinalizer, CallFails, RequeueAfter, history
    <2>2. Guarded
        BY <2>1 DEF IInv
    <2>3. \A p \in Procs : ReconcileOk(p) => call[p].pc # "Deleted"
        BY DEF ReconcileOk
    <2>4. \A p \in Procs : Proc(p) => Guarded'
        BY <2>2, <2>3, ReconcileGuarded, PatchGuarded, GetIntoGuarded DEF Proc
    <2>5. \A p \in Procs : CallFails(p) \/ RequeueAfter(p) => Guarded'
        BY <2>2, FailureGuarded
    <2> QED
        BY <1>2, <2>2, <2>4, <2>5, EnvironmentGuarded, InformerGuarded, RetryGuarded, CrashGuarded DEF Next
<1> QED
    BY <1>1, <1>2

(* Once the OpinionatedReconciler has put its finalizer on an object, the  *)
(* finalizer comes off only after the user's reconciler has handled the    *)
(* deletion: for every number of retries, conflicts, faults and crashes,   *)
(* every set of other controllers' finalizers, and both ways of decoding.  *)
THEOREM FinalizerHoldsTheObject == Spec => []DeletedIsReconciled
<1>1. ReconcilerInit => IInv
    BY InitGuarded DEF IInv
<1>2. IInv => DeletedIsReconciled
    BY DEF IInv, Guarded, Held, DeletedIsReconciled
<1> QED
    BY <1>1, <1>2, NextInv, PTL DEF Spec

=============================================================================
