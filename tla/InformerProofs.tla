--------------------------- MODULE InformerProofs ---------------------------
(***************************************************************************)
(* The two ends of an informer.  The queue in front of a listener's        *)
(* handler implements the abstract event stream, and never sends on its    *)
(* closed channel, for any number of producers and events.  The store and  *)
(* the handler of a CustomCacheInformer agree, no key that is cached is    *)
(* missing from the list of keys, and no handler is told of a version      *)
(* older than the one it knows, for any finite set of keys and any number  *)
(* of writes, relists and faults.                                          *)
(***************************************************************************)
EXTENDS BufferedQueue, CustomCacheInformer, SequenceTheorems, FiniteSetTheorems,
        WellFoundedInduction, TLAPS

-----------------------------------------------------------------------------
(* bufferedQueue.                                                          *)

(* A producer in push has an event to send.                                *)
SendersHaveEvents == \A p \in sending : pushed[p] < MaxPush

(* The invariant of the refinement.                                        *)
QueueInv == TypeOK /\ SendersHaveEvents /\ BufferBehindEvent /\ NoSendOnClosed

LEMMA PushingIsEvent ==
    ASSUME TypeOK, NEW p \in Producers, pushed[p] < MaxPush
    PROVE  Pushing(p) \in Events
BY BufferedQueueAssumption DEF TypeOK, Pushing, Events

LEMMA QueueInitInv == QueueInit => QueueInv
<1> SUFFICES ASSUME QueueInit PROVE QueueInv
    OBVIOUS
<1>1. stopped \in BOOLEAN
    BY Zenon DEF QueueInit
<1>2. buf \in Seq(Events) /\ delivered \in Seq(Events)
    BY EmptySeq DEF QueueInit
<1>3. pushed \in [Producers -> 0..MaxPush]
    BY BufferedQueueAssumption DEF QueueInit
<1> QED
    BY <1>1, <1>2, <1>3 DEF QueueInit, QueueInv, SendersHaveEvents, TypeOK, BufferBehindEvent, NoSendOnClosed

LEMMA EventCases ==
    ASSUME TypeOK
    PROVE  event \in Seq(Events) /\ (event # <<>> => \E e \in Events : event = <<e>>)
<1>1. event = <<>> \/ \E e \in Events : event = <<e>>
    BY Zenon DEF TypeOK
<1>2. ASSUME NEW e \in Events PROVE <<e>> \in Seq(Events)
    OBVIOUS
<1>3. <<>> \in Seq(Events)
    BY EmptySeq
<1> QED
    BY <1>1, <1>2, <1>3, Zenon

LEMMA ReceiveInv ==
    ASSUME QueueInv, NEW p \in Producers, Receive(p)
    PROVE  QueueInv'
<1> USE DEF QueueInv
<1>1. Pushing(p) \in Events
    BY PushingIsEvent DEF Receive, SendersHaveEvents
<1>2. event' \in {<<>>} \cup {<<e>> : e \in Events} /\ buf' \in Seq(Events)
    <2>1. event' = event \/ event' = <<Pushing(p)>>
        BY DEF Receive
    <2>2. event' \in {<<>>} \cup {<<e>> : e \in Events}
        BY <1>1, <2>1, Zenon DEF TypeOK
    <2>3. buf' = buf \/ buf' = Append(buf, Pushing(p))
        BY DEF Receive
    <2>4. buf \in Seq(Events)
        BY Zenon DEF TypeOK
    <2>5. buf' \in Seq(Events)
        <3> HIDE DEF QueueInv
        <3> QED
            BY <1>1, <2>3, <2>4, AppendProperties
    <2> QED
        BY <2>2, <2>5
<1>3. pushed' \in [Producers -> 0..MaxPush]
    BY BufferedQueueAssumption DEF Receive, TypeOK, SendersHaveEvents
<1>4. TypeOK'
    BY <1>2, <1>3 DEF Receive, TypeOK
<1>5. SendersHaveEvents'
    BY DEF Receive, TypeOK, SendersHaveEvents
<1>6. event' # <<>>
    BY DEF Receive
<1>7. BufferBehindEvent'
    BY <1>6 DEF BufferBehindEvent
<1>8. NoSendOnClosed'
    BY DEF Receive, NoSendOnClosed
<1> QED
    BY <1>4, <1>5, <1>7, <1>8

LEMMA OfferInv ==
    ASSUME QueueInv, Offer
    PROVE  QueueInv'
<1> USE DEF QueueInv
<1>1. PICK e \in Events : event = <<e>>
    BY EventCases DEF Offer
<1>2. delivered' \in Seq(Events)
    BY <1>1 DEF Offer, TypeOK
<1>3. CASE buf = <<>>
    BY <1>2, <1>3 DEF Offer, TypeOK, SendersHaveEvents, BufferBehindEvent, NoSendOnClosed
<1>4. CASE buf # <<>>
    <2>1. Head(buf) \in Events /\ Tail(buf) \in Seq(Events)
        BY <1>4, HeadTailProperties DEF TypeOK
    <2>2. event' = <<Head(buf)>> /\ buf' = Tail(buf)
        BY <1>4 DEF Offer
    <2> QED
        BY <1>2, <2>1, <2>2 DEF Offer, TypeOK, SendersHaveEvents, BufferBehindEvent, NoSendOnClosed
<1> QED
    BY <1>3, <1>4

LEMMA QueueNextInv == QueueInv /\ [QueueNext]_queueVars => QueueInv'
<1> SUFFICES ASSUME QueueInv, [QueueNext]_queueVars PROVE QueueInv'
    OBVIOUS
<1> USE DEF QueueInv, TypeOK, SendersHaveEvents, BufferBehindEvent, NoSendOnClosed
<1>1. ASSUME NEW p \in Producers, Push(p) PROVE QueueInv'
    <2>1. CASE stopped
        <3>1. pushed \in [Producers -> 0..MaxPush] /\ pushed[p] < MaxPush
            BY <1>1, Zenon DEF Push
        <3>2. pushed' = [pushed EXCEPT ![p] = @ + 1] /\ sending' = sending
            BY <1>1, <2>1, Zenon DEF Push
        <3>3. pushed' \in [Producers -> 0..MaxPush]
            BY <3>1, <3>2, BufferedQueueAssumption
        <3>4. \A q \in sending : pushed'[q] < MaxPush
            BY <1>1, <2>1
        <3>5. UNCHANGED <<ctxStops, blocking, stopper, stopped, runner, event, buf, consumer, delivered>>
            BY <1>1, Zenon DEF Push
        <3> QED
            BY <3>2, <3>3, <3>4, <3>5, Zenon
    <2>2. CASE ~stopped
        BY <1>1, <2>2 DEF Push
    <2> QED
        BY <2>1, <2>2
<1>2. ASSUME NEW p \in Producers, Receive(p) PROVE QueueInv'
    BY <1>2, ReceiveInv
<1>3. CASE Offer
    BY <1>3, OfferInv
<1>4. CASE StartRun \/ Handled \/ ConsumerEnds \/ CallStop
    BY <1>4 DEF StartRun, Handled, ConsumerEnds, CallStop
<1>5. CASE RunReturns
    BY <1>5, EmptySeq DEF RunReturns
<1>6. CASE Stop
    <2>1. stopped' \in BOOLEAN
        BY <1>6, Zenon DEF Stop
    <2> QED
        BY <1>6, <2>1 DEF Stop
<1>7. CASE UNCHANGED queueVars
    BY <1>7 DEF queueVars
<1> QED
    BY <1>1, <1>2, <1>3, <1>4, <1>5, <1>6, <1>7 DEF QueueNext

LEMMA QueueInvAlways == QueueSpec => []QueueInv
BY QueueInitInv, QueueNextInv, PTL DEF QueueSpec

(* However pushes and a stop interleave, no producer is blocked in a send  *)
(* when incomingEvents is closed, and none starts one afterwards.          *)
THEOREM ClosedMeansNoSender == QueueSpec => []NoSendOnClosed
<1>1. QueueInv => NoSendOnClosed
    BY DEF QueueInv
<1> QED
    BY <1>1, QueueInvAlways, PTL

-----------------------------------------------------------------------------
(* The refinement: what each step does to the sequence of waiting events.  *)

LEMMA WaitingType ==
    ASSUME QueueInv
    PROVE  Waiting \in Seq(Events) /\ (event # <<>> => Waiting # <<>>)
<1>1. event \in Seq(Events) /\ buf \in Seq(Events)
    BY EventCases DEF QueueInv, TypeOK
<1>2. Waiting \in Seq(Events) /\ Len(Waiting) = Len(event) + Len(buf)
    BY <1>1, ConcatProperties DEF Waiting
<1>3. CASE event # <<>>
    <2>1. Len(event) = 1
        BY <1>3, EventCases DEF QueueInv
    <2>2. Len(Waiting) # 0
        BY <1>1, <1>2, <2>1, LenProperties
    <2> QED
        BY <1>2, <2>2
<1> QED
    BY <1>2, <1>3

LEMMA ReceivePuts ==
    ASSUME QueueInv, NEW p \in Producers, Receive(p)
    PROVE  Waiting' = Append(Waiting, Pushing(p)) /\ Pushing(p) \in Events
<1>1. Pushing(p) \in Events
    BY PushingIsEvent DEF Receive, QueueInv, SendersHaveEvents
<1>2. event \in Seq(Events) /\ buf \in Seq(Events)
    BY EventCases DEF QueueInv, TypeOK
<1>3. CASE event = <<>>
    <2>1. buf = <<>> /\ event' = <<Pushing(p)>> /\ buf' = <<>>
        BY <1>3 DEF Receive, QueueInv, BufferBehindEvent
    <2> QED
        BY <1>1, <1>3, <2>1 DEF Waiting
<1>4. CASE event # <<>>
    <2>1. event' = event /\ buf' = Append(buf, Pushing(p))
        BY <1>4 DEF Receive
    <2>2. event \o (buf \o <<Pushing(p)>>) = (event \o buf) \o <<Pushing(p)>>
        BY <1>1, <1>2, ConcatAssociative
    <2>3. event \o buf \in Seq(Events)
        BY <1>2, ConcatProperties
    <2> QED
        BY <1>1, <1>2, <2>1, <2>2, <2>3, AppendIsConcat DEF Waiting
<1> QED
    BY <1>1, <1>3, <1>4

LEMMA OfferTakes ==
    ASSUME QueueInv, Offer
    PROVE  /\ Waiting # <<>>
           /\ delivered' = Append(delivered, Head(Waiting))
           /\ Waiting' = Tail(Waiting)
<1>1. PICK e \in Events : event = <<e>>
    BY EventCases DEF Offer, QueueInv
<1>2. buf \in Seq(Events) /\ delivered \in Seq(Events)
    BY DEF QueueInv, TypeOK
<1>3. Waiting # <<>>
    BY <1>1, WaitingType
<1>4. Head(Waiting) = e /\ Tail(Waiting) = buf
    BY <1>1, <1>2 DEF Waiting
<1>5. delivered' = Append(delivered, e)
    BY <1>1, <1>2, AppendIsConcat DEF Offer
<1>6. Waiting' = buf
    <2>1. CASE buf = <<>>
        BY <2>1 DEF Offer, Waiting
    <2>2. CASE buf # <<>>
        <3>1. event' = <<Head(buf)>> /\ buf' = Tail(buf)
            BY <2>2 DEF Offer
        <3>2. buf = <<Head(buf)>> \o Tail(buf)
            BY <1>2, <2>2
        <3> QED
            BY <3>1, <3>2 DEF Waiting
    <2> QED
        BY <2>1, <2>2
<1> QED
    BY <1>3, <1>4, <1>5, <1>6

LEMMA QueueStepRefines ==
    QueueInv /\ [QueueNext]_queueVars => [Stream!Next]_(Stream!vars)
<1> SUFFICES ASSUME QueueInv, [QueueNext]_queueVars PROVE [Stream!Next]_(Stream!vars)
    OBVIOUS
<1>1. ASSUME NEW p \in Producers, Receive(p) PROVE Stream!Next
    <2>1. Stream!Put(Pushing(p))
        BY <1>1, ReceivePuts DEF Stream!Put, Receive
    <2> QED
        BY <1>1, <2>1, ReceivePuts DEF Stream!Next
<1>2. CASE Offer
    BY <1>2, OfferTakes DEF Stream!Next, Stream!Take, Offer
<1>3. CASE RunReturns
    <2>1. Waiting' = <<>>
        BY <1>3 DEF RunReturns, Waiting
    <2> QED
        BY <1>3, <2>1 DEF Stream!Next, Stream!Shut, RunReturns
<1>4. CASE StartRun \/ Handled \/ ConsumerEnds \/ CallStop \/ Stop
    BY <1>4 DEF Stream!vars, Waiting, StartRun, Handled, ConsumerEnds, CallStop, Stop
<1>5. ASSUME NEW p \in Producers, Push(p) PROVE UNCHANGED Stream!vars
    BY <1>5 DEF Stream!vars, Waiting, Push
<1>6. CASE UNCHANGED queueVars
    BY <1>6 DEF Stream!vars, Waiting, queueVars
<1> QED
    BY <1>1, <1>2, <1>3, <1>4, <1>5, <1>6 DEF QueueNext

(* The queue is a FIFO queue: every behaviour of push, run, the consumer   *)
(* and stop is one of the abstract event stream.                           *)
THEOREM QueueImplementsStream == QueueSpec => ImplementsStream
<1>1. QueueInit => Stream!Init
    BY DEF QueueInit, Stream!Init, Waiting
<1>2. QueueInv /\ [QueueNext]_queueVars => [Stream!Next]_(Stream!vars)
    BY QueueStepRefines
<1> QED
    BY <1>1, <1>2, QueueInvAlways, PTL DEF QueueSpec, ImplementsStream, Stream!Spec

-----------------------------------------------------------------------------
(* CustomCacheInformer: the types.                                         *)
Types == {"Added", "Updated", "Deleted", "Replaced", "Sync"}

Deltas == [type: Types, rv: Nat, unknown: BOOLEAN]

States == {"start", "list", "syncWith", "watch", "handleWatch", "watchList", "handleListWatch"}

FifoType == [queue: Seq(Keys), items: [Keys -> Seq(Deltas)]]

ServerOk ==
    /\ log \in Seq([key: Keys \cup {NoKey}, del: BOOLEAN])
    /\ compacted \in 0..Len(log)

ReflectorOk ==
    /\ pc \in States /\ lastRV \in 0..Len(log) /\ unavailable \in BOOLEAN
    /\ w \in [pos: Nat, snap: Nat, init: SUBSET Keys] /\ listed \in Nat

StoreOk ==
    /\ cache \in [Keys -> Nat] /\ keys \subseteq Keys /\ index \subseteq Keys /\ unanswered \subseteq Keys
    /\ told \in [Keys -> Nat] /\ missed \subseteq Keys
    /\ backend \in AllBackends /\ useWatchList \in BOOLEAN

TypeInv == ServerOk /\ ReflectorOk /\ fifo \in FifoType /\ StoreOk /\ crashes \in Nat

(* What the Reflector is about to make the last version it has seen is not *)
(* older than that.                                                        *)
Forward ==
    /\ pc = "syncWith" => listed \in lastRV..Len(log)
    /\ pc = "handleWatch" => w.pos = lastRV
    /\ pc = "handleListWatch" => w.pos = w.snap /\ w.snap \in lastRV..Len(log)
    /\ pc \in {"watchList", "handleListWatch"} => useWatchList

(* v is a version of the object k, and not newer than rv.                  *)
VersionOf(k, v, lg, rv) == v \in 1..rv /\ lg[v].key = k

(* The deltas of k but deletions are versions of k, one not older than the *)
(* one before, and none older than known.                                  *)
InOrder(ds, k, known, lg, rv) ==
    \A i \in 1..Len(ds) : ds[i].type # "Deleted" =>
        /\ VersionOf(k, ds[i].rv, lg, rv) /\ known <= ds[i].rv
        /\ \A j \in 1..i : ds[j].type # "Deleted" => ds[j].rv <= ds[i].rv

Ordered ==
    backend = "memory" /\ ~useWatchList =>
        \A k \in Keys : /\ told[k] # 0 => VersionOf(k, told[k], log, lastRV)
                        /\ InOrder(fifo.items[k], k, told[k], log, lastRV)

IInv == TypeInv /\ Forward /\ HandlerFollowsStore /\ CachedIsListed /\ Ordered
-----------------------------------------------------------------------------
(* Induction over the natural numbers, for sets in place of predicates.    *)

LEMMA LeastNat ==
    ASSUME NEW T, T \subseteq Nat, T # {}
    PROVE  \E n \in T : \A m \in T : n <= m
<1> DEFINE R == OpToRel(<, Nat)
<1>1. IsWellFoundedOn(R, Nat)
    BY NatLessThanWellFounded
<1>2. \A x, y \in Nat : x < y => <<x, y>> \in R
    BY DEF OpToRel
<1> HIDE DEF R
<1>3. PICK n \in T : \A m \in T : ~ (<<m, n>> \in R)
    BY <1>1, WFMin
<1>4. \A m \in T : ~(m < n) /\ m \in Nat /\ n \in Nat
    BY <1>2, <1>3
<1> QED
    BY <1>4, <1>3

LEMMA Induction ==
    ASSUME NEW T, 0 \in T, \A n \in Nat : n \in T => n + 1 \in T
    PROVE  Nat \subseteq T
<1> SUFFICES ASSUME Nat \ T # {} PROVE FALSE
    OBVIOUS
<1>1. Nat \ T \subseteq Nat
    OBVIOUS
<1>2. PICK n \in Nat \ T : \A m \in Nat \ T : n <= m
    BY <1>1, LeastNat
<1>3. n # 0 /\ n - 1 \in Nat /\ (n - 1) + 1 = n /\ ~(n <= n - 1)
    BY <1>2
<1>4. n - 1 \in T
    BY <1>2, <1>3
<1> QED
    BY <1>2, <1>3, <1>4

LEMMA GreatestNat ==
    ASSUME NEW v \in Nat, NEW T, T \subseteq 1..v, T # {}
    PROVE  \E n \in T : \A m \in T : n >= m
<1> DEFINE D == {v - n : n \in T}
<1>1. D \subseteq Nat /\ D # {}
    <2>1. \A n \in T : v - n \in Nat
        OBVIOUS
    <2>2. PICK n \in T : TRUE
        OBVIOUS
    <2>3. v - n \in D
        OBVIOUS
    <2> QED
        BY <2>1, <2>3
<1>2. PICK d \in D : \A e \in D : d <= e
    <2> HIDE DEF D
    <2> QED
        BY <1>1, LeastNat
<1>3. PICK n \in T : d = v - n
    OBVIOUS
<1>4. ASSUME NEW m \in T PROVE n >= m
    <2>1. v - m \in D
        OBVIOUS
    <2>2. v - n <= v - m /\ n \in 1..v /\ m \in 1..v
        BY <1>2, <1>3, <2>1
    <2> QED
        BY <2>2
<1> QED
    BY <1>4

-----------------------------------------------------------------------------
(* The log of the API server.                                              *)

(* An object at version v is the last of its versions up to v.             *)
LEMMA AtIsLast ==
    ASSUME NEW v \in Nat, NEW k \in Keys
    PROVE  /\ At(v)[k] \in 0..v
           /\ At(v)[k] # 0 => /\ log[At(v)[k]].key = k
                              /\ \A p \in 1..v : log[p].key = k => p <= At(v)[k]
<1> DEFINE own == {i \in 1..v : log[i].key = k}
<1>1. At(v)[k] = IF own = {} \/ log[Max(own)].del THEN 0 ELSE Max(own)
    BY DEF At
<1>2. CASE own = {}
    BY <1>1, <1>2
<1>3. CASE own # {}
    <2>1. own \subseteq 1..v
        OBVIOUS
    <2>2. \E n \in own : \A m \in own : n >= m
        <3> HIDE DEF own
        <3> QED
            BY <1>3, <2>1, GreatestNat
    <2>3. Max(own) \in own /\ \A m \in own : Max(own) >= m
        <3> HIDE DEF own
        <3> QED
            BY <2>2 DEF Max
    <2>4. \A p \in 1..v : log[p].key = k => p <= Max(own)
        BY <2>3
    <2> QED
        BY <1>1, <2>3, <2>4
<1> QED
    BY <1>2, <1>3

LEMMA NextOwnIsNext ==
    ASSUME NEW p \in Nat, Len(log) \in Nat, p <= Len(log)
    PROVE  /\ NextOwn(p) \in (p + 1)..(Len(log) + 1)
           /\ NextOwn(p) <= Len(log) => log[NextOwn(p)].key \in Keys
<1> DEFINE S == {i \in p + 1 .. Len(log) : log[i].key \in Keys} \cup {Len(log) + 1}
<1>1. S \subseteq Nat /\ S # {} /\ S \subseteq (p + 1)..(Len(log) + 1)
    OBVIOUS
<1>2. \E n \in S : \A m \in S : n <= m
    <2> HIDE DEF S
    <2> QED
        BY <1>1, LeastNat
<1>3. Min(S) \in S
    <2> HIDE DEF S
    <2> QED
        BY <1>2 DEF Min
<1>4. NextOwn(p) = Min(S)
    BY DEF NextOwn
<1> QED
    BY <1>1, <1>3, <1>4

LEMMA SequenceOfSet ==
    ASSUME NEW S, IsFiniteSet(S)
    PROVE  SetToSeq(S) \in Seq(S)
<1>1. Cardinality(S) \in Nat /\ ExistsBijection(1..Cardinality(S), S)
    BY FS_CardinalityType
<1>2. \E f \in [1..Cardinality(S) -> S] : IsInjective(f)
    BY <1>1 DEF ExistsBijection, Bijection, Injection, IsInjective
<1>3. SetToSeq(S) \in [1..Cardinality(S) -> S]
    BY <1>2 DEF SetToSeq
<1> QED
    BY <1>1, <1>3

-----------------------------------------------------------------------------
(* The queue.                                                              *)

LEMMA DedupType ==
    ASSUME NEW ds \in Seq(Deltas), NEW d \in Deltas
    PROVE  Dedup(ds, d) \in Seq(Deltas)
<1>1. Append(ds, d) \in Seq(Deltas) /\ Len(ds) \in Nat
    BY AppendProperties, LenProperties
<1>2. ASSUME ds # <<>> PROVE [ds EXCEPT ![Len(ds)] = d] \in Seq(Deltas)
    BY <1>2, ExceptSeq
<1> QED
    BY <1>1, <1>2 DEF Dedup

LEMMA OrderKept ==
    ASSUME NEW ds \in Seq(Deltas), NEW d \in Deltas, NEW k, NEW known, NEW lg, NEW rv,
           InOrder(ds, k, known, lg, rv),
           d.type # "Deleted" =>
               /\ VersionOf(k, d.rv, lg, rv) /\ known <= d.rv
               /\ \A j \in 1..Len(ds) : ds[j].type # "Deleted" => ds[j].rv <= d.rv
    PROVE  InOrder(Dedup(ds, d), k, known, lg, rv)
<1>1. Len(ds) \in Nat
    BY LenProperties
<1>2. CASE ds = <<>> \/ d.type # "Deleted" \/ ds[Len(ds)].type # "Deleted"
    <2>1. Dedup(ds, d) = Append(ds, d)
        BY <1>2 DEF Dedup
    <2>2. /\ Len(Append(ds, d)) = Len(ds) + 1 /\ Append(ds, d)[Len(ds) + 1] = d
          /\ \A i \in 1..Len(ds) : Append(ds, d)[i] = ds[i]
        BY AppendProperties
    <2> SUFFICES ASSUME NEW i \in 1..(Len(ds) + 1), Append(ds, d)[i].type # "Deleted"
                 PROVE  /\ VersionOf(k, Append(ds, d)[i].rv, lg, rv) /\ known <= Append(ds, d)[i].rv
                        /\ \A j \in 1..i : Append(ds, d)[j].type # "Deleted" =>
                               Append(ds, d)[j].rv <= Append(ds, d)[i].rv
        BY <2>1, <2>2 DEF InOrder
    <2>3. CASE i \in 1..Len(ds)
        <3>1. \A j \in 1..i : j \in 1..Len(ds) /\ Append(ds, d)[j] = ds[j]
            BY <1>1, <2>2, <2>3
        <3>2. Append(ds, d)[i] = ds[i]
            BY <2>2, <2>3
        <3> QED
            BY <2>3, <3>1, <3>2 DEF InOrder
    <2>4. CASE i = Len(ds) + 1
        <3>1. Append(ds, d)[i] = d
            BY <2>2, <2>4
        <3>2. ASSUME NEW j \in 1..i, Append(ds, d)[j].type # "Deleted" PROVE Append(ds, d)[j].rv <= d.rv
            <4>1. CASE j = i
                <5>1. d.rv \in Nat
                    BY DEF Deltas
                <5> QED
                    BY <3>1, <4>1, <5>1
            <4>2. CASE j # i
                <5>1. j \in 1..Len(ds)
                    BY <1>1, <2>4, <4>2
                <5> QED
                    BY <2>2, <3>1, <3>2, <5>1
            <4> QED
                BY <4>1, <4>2
        <3> QED
            BY <3>1, <3>2
    <2> QED
        BY <1>1, <2>3, <2>4
<1>3. CASE ~(ds = <<>> \/ d.type # "Deleted" \/ ds[Len(ds)].type # "Deleted") /\ ~d.unknown
    <2>1. Dedup(ds, d) = [ds EXCEPT ![Len(ds)] = d]
        BY <1>3 DEF Dedup
    <2>2. PICK e : e = [ds EXCEPT ![Len(ds)] = d]
        OBVIOUS
    <2>3. Len(ds) \in 1..Len(ds)
        BY <1>1, <1>3, EmptySeq
    <2>4. Len(e) = Len(ds) /\ \A i \in 1..Len(ds) : e[i] = IF i = Len(ds) THEN d ELSE ds[i]
        BY <2>2, <2>3, ExceptSeq
    <2>5. \A i \in 1..Len(ds) : e[i].type # "Deleted" => e[i] = ds[i] /\ ds[i].type # "Deleted"
        BY <1>3, <2>4
    <2>6. ASSUME NEW i \in 1..Len(e), e[i].type # "Deleted"
          PROVE  /\ VersionOf(k, e[i].rv, lg, rv) /\ known <= e[i].rv
                 /\ \A j \in 1..i : e[j].type # "Deleted" => e[j].rv <= e[i].rv
        <3>1. i \in 1..Len(ds) /\ \A j \in 1..i : j \in 1..Len(ds)
            BY <1>1, <2>4
        <3>2. e[i] = ds[i] /\ ds[i].type # "Deleted"
            BY <2>5, <2>6, <3>1
        <3> QED
            BY <2>5, <3>1, <3>2 DEF InOrder
    <2> QED
        BY <2>1, <2>2, <2>6 DEF InOrder
<1>4. CASE ~(ds = <<>> \/ d.type # "Deleted" \/ ds[Len(ds)].type # "Deleted") /\ d.unknown
    BY <1>4 DEF Dedup
<1> QED
    BY <1>2, <1>3, <1>4

LEMMA OrderGrows ==
    ASSUME NEW ds, NEW k, NEW known, NEW lg, NEW rv \in Nat, NEW lg2, NEW rv2 \in Nat,
           InOrder(ds, k, known, lg, rv), rv <= rv2, \A i \in 1..rv : lg2[i] = lg[i]
    PROVE  InOrder(ds, k, known, lg2, rv2)
<1>1. \A v : VersionOf(k, v, lg, rv) => VersionOf(k, v, lg2, rv2)
    BY DEF VersionOf
<1> QED
    BY <1>1 DEF InOrder

(* A delta is queued under each of ks.                                     *)
LEMMA QueueAllOk ==
    ASSUME NEW f \in FifoType, NEW ks, ks \subseteq Keys, NEW delta, \A k \in ks : delta[k] \in Deltas
    PROVE  /\ QueueAll(f, ks, delta) \in FifoType
           /\ \A k \in Keys : QueueAll(f, ks, delta).items[k] =
                  IF k \in ks THEN Dedup(f.items[k], delta[k]) ELSE f.items[k]
<1> DEFINE new == {k \in ks : f.items[k] = <<>>}
           g == QueueAll(f, ks, delta)
<1>1. f.queue \in Seq(Keys) /\ f.items \in [Keys -> Seq(Deltas)]
    BY DEF FifoType
<1>2. IsFiniteSet(new)
    BY CustomCacheInformerAssumption, FS_Subset
<1>3. SetToSeq(new) \in Seq(Keys)
    <2>1. SetToSeq(new) \in Seq(new)
        <3> HIDE DEF new
        <3> QED
            BY <1>2, SequenceOfSet
    <2> QED
        BY <2>1
<1>4. f.queue \o SetToSeq(new) \in Seq(Keys)
    <2> HIDE DEF new
    <2> QED
        BY <1>1, <1>3, ConcatProperties
<1>5. g = [queue |-> f.queue \o SetToSeq(new),
           items |-> [k \in Keys |-> IF k \in ks THEN Dedup(f.items[k], delta[k]) ELSE f.items[k]]]
    BY DEF QueueAll
<1>6. \A k \in Keys : (IF k \in ks THEN Dedup(f.items[k], delta[k]) ELSE f.items[k]) \in Seq(Deltas)
    BY <1>1, DedupType
<1> QED
    BY <1>4, <1>5, <1>6 DEF FifoType

LEMMA PutOk ==
    ASSUME NEW f \in FifoType, NEW k \in Keys, NEW type \in Types, NEW rv \in Nat
    PROVE  /\ Put(f, k, type, rv) \in FifoType
           /\ \A x \in Keys : Put(f, k, type, rv).items[x] =
                  IF x = k THEN Dedup(f.items[x], [type |-> type, rv |-> rv, unknown |-> FALSE]) ELSE f.items[x]
<1> DEFINE d == [type |-> type, rv |-> rv, unknown |-> FALSE]
<1>1. f.queue \in Seq(Keys) /\ f.items \in [Keys -> Seq(Deltas)]
    BY DEF FifoType
<1>2. d \in Deltas
    BY DEF Deltas
<1>3. Dedup(f.items[k], d) \in Seq(Deltas)
    <2> HIDE DEF d
    <2> QED
        BY <1>1, <1>2, DedupType
<1>4. Append(f.queue, k) \in Seq(Keys)
    BY <1>1, AppendProperties
<1>5. Put(f, k, type, rv) = [f EXCEPT !.queue = IF f.items[k] = <<>> THEN Append(@, k) ELSE @,
                                      !.items[k] = Dedup(@, d)]
    BY DEF Put, QueueAction
<1> HIDE DEF d
<1>6. Put(f, k, type, rv) = [queue |-> IF f.items[k] = <<>> THEN Append(f.queue, k) ELSE f.queue,
                             items |-> [f.items EXCEPT ![k] = Dedup(f.items[k], d)]]
    BY <1>1, <1>5 DEF FifoType
<1> QED
    BY <1>1, <1>3, <1>4, <1>6 DEF FifoType, d

LEMMA ReplaceOk ==
    ASSUME NEW f \in FifoType, NEW snapshot \in [Keys -> Nat], NEW known, known \subseteq Keys
    PROVE  /\ Replace(f, snapshot, known) \in FifoType
           /\ \A k \in Keys :
                 \/ Replace(f, snapshot, known).items[k] = f.items[k]
                 \/ \E d \in Deltas : /\ Replace(f, snapshot, known).items[k] = Dedup(f.items[k], d)
                                      /\ d.type = "Deleted" \/ (d.rv = snapshot[k] /\ snapshot[k] # 0)
<1> DEFINE in == {k \in Keys : snapshot[k] # 0}
           gone == ({k \in Keys : f.items[k] # <<>>} \cup known) \ in
           d1 == [k \in in |-> [type |-> "Replaced", rv |-> snapshot[k], unknown |-> FALSE]]
           d2 == [k \in gone |-> [type |-> "Deleted", rv |-> 0, unknown |-> TRUE]]
           f1 == QueueAll(f, in, d1)
           f2 == QueueAll(f1, gone, d2)
<1>1. in \subseteq Keys /\ gone \subseteq Keys /\ \A k \in gone : k \notin in
    OBVIOUS
<1>2. \A k \in in : d1[k] \in Deltas /\ d1[k].rv = snapshot[k] /\ snapshot[k] # 0
    BY DEF Deltas, Types
<1>3. \A k \in gone : d2[k] \in Deltas /\ d2[k].type = "Deleted"
    BY DEF Deltas, Types
<1>4. Replace(f, snapshot, known) = f2
    BY Zenon DEF Replace
<1> HIDE DEF in, gone, d1, d2
<1>5. f1 \in FifoType /\ \A k \in Keys : f1.items[k] = IF k \in in THEN Dedup(f.items[k], d1[k]) ELSE f.items[k]
    BY <1>1, <1>2, QueueAllOk
<1> HIDE DEF f1
<1>6. f2 \in FifoType /\ \A k \in Keys : f2.items[k] = IF k \in gone THEN Dedup(f1.items[k], d2[k]) ELSE f1.items[k]
    BY <1>1, <1>3, <1>5, QueueAllOk
<1> HIDE DEF f2
<1>7. ASSUME NEW k \in Keys
      PROVE  \/ f2.items[k] = f.items[k]
             \/ \E d \in Deltas : /\ f2.items[k] = Dedup(f.items[k], d)
                                  /\ d.type = "Deleted" \/ (d.rv = snapshot[k] /\ snapshot[k] # 0)
    <2>1. CASE k \in in
        BY <1>1, <1>2, <1>5, <1>6, <2>1
    <2>2. CASE k \in gone
        BY <1>1, <1>3, <1>5, <1>6, <2>2
    <2>3. CASE k \notin in /\ k \notin gone
        BY <1>5, <1>6, <2>3
    <2> QED
        BY <2>1, <2>2, <2>3
<1> QED
    BY <1>4, <1>6, <1>7

LEMMA ResyncOk ==
    ASSUME NEW f \in FifoType, NEW known, known \subseteq Keys, NEW c \in [Keys -> Nat]
    PROVE  /\ Resync(f, known, c) \in FifoType
           /\ \A k \in Keys :
                 \/ Resync(f, known, c).items[k] = f.items[k]
                 \/ \E d \in Deltas : /\ Resync(f, known, c).items[k] = Dedup(f.items[k], d)
                                      /\ f.items[k] = <<>> /\ d.rv = c[k] /\ c[k] # 0
<1> DEFINE idle == {k \in known : f.items[k] = <<>> /\ c[k] # 0}
           delta == [k \in idle |-> [type |-> "Sync", rv |-> c[k], unknown |-> FALSE]]
           g == QueueAll(f, idle, delta)
<1>1. idle \subseteq Keys /\ \A k \in idle : f.items[k] = <<>> /\ c[k] # 0
    OBVIOUS
<1>2. \A k \in idle : delta[k] \in Deltas /\ delta[k].rv = c[k]
    BY DEF Deltas, Types
<1>3. Resync(f, known, c) = g
    BY Zenon DEF Resync
<1> HIDE DEF idle, delta
<1>4. g \in FifoType /\ \A k \in Keys : g.items[k] = IF k \in idle THEN Dedup(f.items[k], delta[k]) ELSE f.items[k]
    <2>1. idle \subseteq Keys /\ \A k \in idle : delta[k] \in Deltas
        BY <1>1, <1>2
    <2> QED
        BY <2>1, QueueAllOk
<1> HIDE DEF g
<1> QED
    BY <1>1, <1>2, <1>3, <1>4

LEMMA PopOk ==
    ASSUME NEW f \in FifoType, f.queue # <<>>
    PROVE  /\ Head(f.queue) \in Keys /\ Pop(f) \in FifoType
           /\ \A k \in Keys : Pop(f).items[k] = IF k = Head(f.queue) THEN <<>> ELSE f.items[k]
<1>1. f.queue \in Seq(Keys) /\ f.items \in [Keys -> Seq(Deltas)]
    BY DEF FifoType
<1>2. Head(f.queue) \in Keys /\ Tail(f.queue) \in Seq(Keys) /\ <<>> \in Seq(Deltas)
    BY <1>1, HeadTailProperties, EmptySeq
<1>3. Pop(f) = [queue |-> Tail(f.queue), items |-> [f.items EXCEPT ![Head(f.queue)] = <<>>]]
    <2>1. PICK k : k = Head(f.queue)
        OBVIOUS
    <2>2. Pop(f) = [f EXCEPT !.queue = Tail(@), !.items[k] = <<>>]
        BY <2>1 DEF Pop
    <2>3. PICK q, i : f = [queue |-> q, items |-> i]
        BY DEF FifoType
    <2>4. Pop(f) = [queue |-> Tail(q), items |-> [i EXCEPT ![k] = <<>>]]
        BY <2>2, <2>3
    <2> QED
        BY <2>1, <2>3, <2>4
<1> QED
    BY <1>1, <1>2, <1>3 DEF FifoType

-----------------------------------------------------------------------------
(* processDeltas.                                                          *)

Results == [cache: [Keys -> Nat], keys: SUBSET Keys, unanswered: SUBSET Keys,
            told: [Keys -> Nat], missed: SUBSET Keys, ok: BOOLEAN]

Follows(s) == \A x \in Keys : s.told[x] = s.cache[x] \/ (s.cache[x] = 0 /\ x \in s.missed)

Tracked(s) == \A x \in Keys : s.cache[x] # 0 => x \in s.keys \cup s.unanswered

(* The store's operations and the handler's, on their records.             *)
LEMMA StoreOperations ==
    ASSUME NEW s \in Results, NEW k \in Keys, NEW d \in Deltas, NEW fault
    PROVE  /\ AddItem(s, k, d, fault) \in Results
           /\ UpdateItem(s, k, d, fault) \in Results
           /\ DeleteItem(s, k, d, fault) \in Results
           /\ AddFunc(s, k, d) \in Results /\ UpdateFunc(s, k, d) \in Results /\ DeleteFunc(s, k, d) \in Results
           /\ Track(s, k) \in Results
<1> USE DEF Results, Deltas
<1>1. AddItem(s, k, d, fault) \in Results
    BY DEF AddItem, Failed, Track
<1>2. UpdateItem(s, k, d, fault) \in Results
    BY DEF UpdateItem, Failed
<1>3. DeleteItem(s, k, d, fault) \in Results
    BY DEF DeleteItem, Failed
<1>4. AddFunc(s, k, d) \in Results /\ UpdateFunc(s, k, d) \in Results /\ DeleteFunc(s, k, d) \in Results
    BY DEF AddFunc, UpdateFunc, DeleteFunc
<1>5. Track(s, k) \in Results
    BY DEF Track
<1> QED
    BY <1>1, <1>2, <1>3, <1>4, <1>5

LEMMA ProcessDeltaType ==
    ASSUME NEW s \in Results, NEW k \in Keys, NEW d \in Deltas, NEW fault
    PROVE  ProcessDelta(s, k, d, fault) \in Results
<1>1. DeleteItem(s, k, d, fault) \in Results /\ DeleteFunc(DeleteItem(s, k, d, fault), k, d) \in Results
    BY StoreOperations
<1>2. AddItem(s, k, d, fault) \in Results /\ AddFunc(AddItem(s, k, d, fault), k, d) \in Results
    BY StoreOperations
<1>3. PICK u : u = Track(s, k)
    OBVIOUS
<1>4. u \in Results
    BY <1>3, StoreOperations
<1>5. UpdateItem(u, k, d, fault) \in Results /\ UpdateFunc(UpdateItem(u, k, d, fault), k, d) \in Results
    BY <1>4, StoreOperations
<1> QED
    BY <1>1, <1>2, <1>3, <1>5 DEF ProcessDelta

(* With a store in memory nothing fails, and the handler hears what the    *)
(* store is told, but for tombstones.                                      *)
LEMMA ProcessDeltaFollows ==
    ASSUME NEW s \in Results, NEW k \in Keys, NEW d \in Deltas, NEW fault,
           ~Memcached, s.ok, Follows(s)
    PROVE  ProcessDelta(s, k, d, fault).ok /\ Follows(ProcessDelta(s, k, d, fault))
<1>1. CASE d.type = "Deleted"
    <2>1. PICK t : t = DeleteItem(s, k, d, fault)
        OBVIOUS
    <2>2. t = [s EXCEPT !.cache[k] = 0, !.keys = @ \ {k}]
        BY <2>1 DEF DeleteItem
    <2>3. t.ok
        BY <2>2 DEF Results
    <2>4. ProcessDelta(s, k, d, fault) = DeleteFunc(t, k, d)
        BY <1>1, <2>1, <2>3 DEF ProcessDelta
    <2>5. /\ t \in Results /\ t.told = s.told /\ t.missed = s.missed
          /\ \A x \in Keys : t.cache[x] = IF x = k THEN 0 ELSE s.cache[x]
        BY <2>2 DEF Results
    <2>6. CASE toResourceObject(d)
        <3>1. DeleteFunc(t, k, d) = [t EXCEPT !.told[k] = 0]
            BY <2>6 DEF DeleteFunc
        <3>2. PICK r : r = [t EXCEPT !.told[k] = 0]
            OBVIOUS
        <3>3. /\ r.ok /\ r.cache = t.cache /\ r.missed = t.missed
              /\ \A x \in Keys : r.told[x] = IF x = k THEN 0 ELSE s.told[x]
            BY <2>3, <2>5, <3>2 DEF Results
        <3> QED
            BY <2>4, <2>5, <3>1, <3>2, <3>3 DEF Follows
    <2>7. CASE ~toResourceObject(d)
        <3>1. DeleteFunc(t, k, d) = [t EXCEPT !.missed = IF t.told[k] # 0 THEN @ \cup {k} ELSE @]
            BY <2>7 DEF DeleteFunc
        <3>2. PICK r : r = [t EXCEPT !.missed = IF t.told[k] # 0 THEN @ \cup {k} ELSE @]
            OBVIOUS
        <3>3. /\ r.ok /\ r.cache = t.cache /\ r.told = s.told
              /\ r.missed = IF s.told[k] # 0 THEN s.missed \cup {k} ELSE s.missed
            BY <2>3, <2>5, <3>2 DEF Results
        <3> QED
            BY <2>4, <2>5, <3>1, <3>2, <3>3 DEF Follows
    <2> QED
        BY <2>6, <2>7
<1>2. ASSUME NEW t \in Results, t.ok, t.told = s.told, t.missed = s.missed,
             \A x \in Keys : t.cache[x] = IF x = k THEN d.rv ELSE s.cache[x],
             NEW r, r = [t EXCEPT !.told[k] = d.rv]
      PROVE  r.ok /\ Follows(r)
    <2>1. /\ r.ok /\ r.cache = t.cache /\ r.missed = s.missed
          /\ \A x \in Keys : r.told[x] = IF x = k THEN d.rv ELSE s.told[x]
        BY <1>2 DEF Results
    <2> QED
        BY <1>2, <2>1 DEF Follows
<1>3. CASE d.type # "Deleted" /\ GetItem(s, k, fault)
    <2>1. PICK u : u = Track(s, k)
        OBVIOUS
    <2>2. PICK t : t = UpdateItem(u, k, d, fault)
        OBVIOUS
    <2>3. u \in Results /\ u.ok /\ u.told = s.told /\ u.missed = s.missed /\ u.cache = s.cache
        BY <2>1 DEF Results, Track
    <2>4. t = [u EXCEPT !.cache[k] = d.rv]
        BY <2>2 DEF UpdateItem
    <2>5. /\ t \in Results /\ t.ok /\ t.told = s.told /\ t.missed = s.missed
          /\ \A x \in Keys : t.cache[x] = IF x = k THEN d.rv ELSE s.cache[x]
        BY <2>3, <2>4 DEF Results, Deltas
    <2>6. ProcessDelta(s, k, d, fault) = UpdateFunc(t, k, d)
        BY <1>3, <2>1, <2>2, <2>5 DEF ProcessDelta
    <2> QED
        BY <1>2, <2>5, <2>6 DEF UpdateFunc
<1>4. CASE d.type # "Deleted" /\ ~GetItem(s, k, fault)
    <2>1. PICK t : t = AddItem(s, k, d, fault)
        OBVIOUS
    <2>2. t = [s EXCEPT !.cache[k] = d.rv, !.keys = @ \cup {k}, !.unanswered = @ \ {k}]
        BY <2>1 DEF AddItem, Track, Results
    <2>3. /\ t \in Results /\ t.ok /\ t.told = s.told /\ t.missed = s.missed
          /\ \A x \in Keys : t.cache[x] = IF x = k THEN d.rv ELSE s.cache[x]
        BY <2>2 DEF Results, Deltas
    <2>4. ProcessDelta(s, k, d, fault) = AddFunc(t, k, d)
        BY <1>4, <2>1, <2>3 DEF ProcessDelta
    <2> QED
        BY <1>2, <2>3, <2>4 DEF AddFunc
<1> QED
    BY <1>1, <1>3, <1>4

(* Whatever fails, what is cached is tracked, or its Add has gone          *)
(* unanswered.                                                             *)
LEMMA ProcessDeltaTracks ==
    ASSUME NEW s \in Results, NEW k \in Keys, NEW d \in Deltas, NEW fault, Tracked(s)
    PROVE  Tracked(ProcessDelta(s, k, d, fault))
<1>1. ASSUME NEW t \in Results, Tracked(t)
      PROVE  Tracked(AddFunc(t, k, d)) /\ Tracked(UpdateFunc(t, k, d)) /\ Tracked(DeleteFunc(t, k, d))
    <2>1. AddFunc(t, k, d).cache = t.cache /\ AddFunc(t, k, d).keys = t.keys /\ AddFunc(t, k, d).unanswered = t.unanswered
        BY DEF AddFunc, Results
    <2>2. UpdateFunc(t, k, d).cache = t.cache /\ UpdateFunc(t, k, d).keys = t.keys /\ UpdateFunc(t, k, d).unanswered = t.unanswered
        BY DEF UpdateFunc, Results
    <2>3. DeleteFunc(t, k, d).cache = t.cache /\ DeleteFunc(t, k, d).keys = t.keys /\ DeleteFunc(t, k, d).unanswered = t.unanswered
        BY DEF DeleteFunc, Results
    <2> QED
        BY <1>1, <2>1, <2>2, <2>3 DEF Tracked
<1>2. PICK t : t = DeleteItem(s, k, d, fault)
    OBVIOUS
<1>3. /\ t \in Results /\ t.unanswered = s.unanswered
      /\ \/ t.cache = s.cache /\ t.keys = s.keys
         \/ s.keys \ {k} \subseteq t.keys /\ \A x \in Keys : t.cache[x] = IF x = k THEN 0 ELSE s.cache[x]
    BY <1>2 DEF DeleteItem, Failed, Results
<1>4. Tracked(t)
    BY <1>3 DEF Tracked
<1>5. PICK a : a = AddItem(s, k, d, fault)
    OBVIOUS
<1>6. /\ a \in Results
      /\ \/ a.cache = s.cache /\ a.keys = s.keys /\ a.unanswered = s.unanswered
         \/ /\ a.keys \cup a.unanswered = s.keys \cup s.unanswered \cup {k}
            /\ \A x \in Keys : x # k => a.cache[x] = s.cache[x]
    BY <1>5 DEF AddItem, Failed, Track, Results, Deltas
<1>7. Tracked(a)
    BY <1>6 DEF Tracked
<1>8. PICK u : u = Track(s, k)
    OBVIOUS
<1>9. PICK v : v = UpdateItem(u, k, d, fault)
    OBVIOUS
<1>10. u \in Results /\ u.cache = s.cache /\ u.keys \cup u.unanswered = s.keys \cup s.unanswered \cup {k}
    BY <1>8 DEF Track, Results
<1>11. /\ v \in Results /\ v.keys \cup v.unanswered = s.keys \cup s.unanswered \cup {k}
       /\ \A x \in Keys : x # k => v.cache[x] = s.cache[x]
    <2>1. v \in Results /\ v.keys = u.keys /\ v.unanswered = u.unanswered /\ \A x \in Keys : x # k => v.cache[x] = u.cache[x]
        BY <1>9, <1>10 DEF UpdateItem, Failed, Results, Deltas
    <2> QED
        BY <1>10, <2>1
<1>12. Tracked(v)
    BY <1>11 DEF Tracked
<1> QED
    BY <1>1, <1>2, <1>3, <1>4, <1>5, <1>6, <1>7, <1>8, <1>9, <1>11, <1>12 DEF ProcessDelta

(* What the handler knows of an object is what it knew, nothing, or the    *)
(* version of the delta.                                                   *)
LEMMA ProcessDeltaTells ==
    ASSUME NEW s \in Results, NEW k \in Keys, NEW d \in Deltas, NEW fault
    PROVE  /\ \A x \in Keys : x # k => ProcessDelta(s, k, d, fault).told[x] = s.told[x]
           /\ \/ ProcessDelta(s, k, d, fault).told[k] \in {0, s.told[k]}
              \/ d.type # "Deleted" /\ ProcessDelta(s, k, d, fault).told[k] = d.rv
<1>1. ASSUME NEW t \in Results, t.told = s.told
      PROVE  /\ \A x \in Keys : /\ AddFunc(t, k, d).told[x] = IF x = k THEN d.rv ELSE s.told[x]
                                /\ UpdateFunc(t, k, d).told[x] = IF x = k THEN d.rv ELSE s.told[x]
                                /\ x # k => DeleteFunc(t, k, d).told[x] = s.told[x]
             /\ DeleteFunc(t, k, d).told[k] \in {0, s.told[k]}
    BY <1>1 DEF AddFunc, UpdateFunc, DeleteFunc, Results
<1>2. PICK t : t = DeleteItem(s, k, d, fault)
    OBVIOUS
<1>3. t \in Results /\ t.told = s.told
    BY <1>2 DEF DeleteItem, Failed, Results
<1>4. PICK a : a = AddItem(s, k, d, fault)
    OBVIOUS
<1>5. a \in Results /\ a.told = s.told
    BY <1>4 DEF AddItem, Failed, Track, Results, Deltas
<1>6. PICK u : u = Track(s, k)
    OBVIOUS
<1>7. PICK v : v = UpdateItem(u, k, d, fault)
    OBVIOUS
<1>8. u \in Results /\ u.told = s.told
    BY <1>6 DEF Track, Results
<1>9. v \in Results /\ v.told = s.told
    BY <1>7, <1>8 DEF UpdateItem, Failed, Results, Deltas
<1>10. CASE d.type = "Deleted"
    <2>1. ProcessDelta(s, k, d, fault) = IF t.ok THEN DeleteFunc(t, k, d) ELSE t
        BY <1>2, <1>10 DEF ProcessDelta
    <2> QED
        BY <1>1, <1>3, <2>1
<1>11. CASE d.type # "Deleted" /\ GetItem(s, k, fault)
    <2>1. ProcessDelta(s, k, d, fault) = IF v.ok THEN UpdateFunc(v, k, d) ELSE v
        BY <1>6, <1>7, <1>11 DEF ProcessDelta
    <2> QED
        BY <1>1, <1>9, <1>11, <2>1
<1>12. CASE d.type # "Deleted" /\ ~GetItem(s, k, fault)
    <2>1. ProcessDelta(s, k, d, fault) = IF a.ok THEN AddFunc(a, k, d) ELSE a
        BY <1>4, <1>12 DEF ProcessDelta
    <2> QED
        BY <1>1, <1>5, <1>12, <2>1
<1> QED
    BY <1>10, <1>11, <1>12

(* The loop of processDeltas: after[n] is the result of n deltas.          *)
Round(s, k, ds, n, i, fault) ==
    IF s.ok THEN ProcessDelta(s, k, ds[n], IF n = i THEN fault ELSE "none") ELSE s

Rounds(after, s, k, ds, i, fault, n) ==
    after[0] = s /\ \A m \in 1..n : after[m] = Round(after[m - 1], k, ds, m, i, fault)

LEMMA LoopRuns ==
    ASSUME NEW s, NEW k, NEW ds, NEW i, NEW fault, Len(ds) \in Nat
    PROVE  \E after : /\ Rounds(after, s, k, ds, i, fault, Len(ds))
                      /\ processDeltas(s, k, ds, i, fault) = after[Len(ds)]
<1> DEFINE Body(g) == [n \in 0..Len(ds) |->
               IF n = 0 THEN s
               ELSE IF g[n - 1].ok THEN ProcessDelta(g[n - 1], k, ds[n], IF n = i THEN fault ELSE "none")
               ELSE g[n - 1]]
           after == CHOOSE g : g = Body(g)
           T == {n \in Nat : \E g : Rounds(g, s, k, ds, i, fault, n)}
<1>1. processDeltas(s, k, ds, i, fault) = after[Len(ds)]
    BY Zenon DEF processDeltas
<1>2. 0 \in T
    <2>1. Rounds([m \in {0} |-> s], s, k, ds, i, fault, 0)
        BY DEF Rounds
    <2> QED
        BY <2>1
<1>3. ASSUME NEW n \in Nat, n \in T PROVE n + 1 \in T
    <2>1. PICK g : Rounds(g, s, k, ds, i, fault, n)
        BY <1>3
    <2>2. PICK last : last = Round(g[n], k, ds, n + 1, i, fault)
        OBVIOUS
    <2>3. PICK h : h = [m \in 0..(n + 1) |-> IF m = n + 1 THEN last ELSE g[m]]
        OBVIOUS
    <2>4. h[0] = s /\ h[n + 1] = last /\ \A m \in 0..n : h[m] = g[m]
        BY <2>1, <2>3 DEF Rounds
    <2>5. ASSUME NEW m \in 1..(n + 1) PROVE h[m] = Round(h[m - 1], k, ds, m, i, fault)
        <3>1. CASE m = n + 1
            <4>1. h[m - 1] = g[n]
                BY <2>4, <3>1
            <4> QED
                BY <2>2, <2>4, <3>1, <4>1
        <3>2. CASE m # n + 1
            <4>1. m \in 1..n /\ m \in 0..n /\ m - 1 \in 0..n
                BY <3>2
            <4> QED
                BY <2>1, <2>4, <4>1 DEF Rounds
        <3> QED
            BY <3>1, <3>2
    <2> QED
        BY <2>4, <2>5 DEF Rounds
<1>4. PICK g : Rounds(g, s, k, ds, i, fault, Len(ds))
    <2> HIDE DEF T
    <2>1. Len(ds) \in T
        BY <1>2, <1>3, Induction
    <2> QED
        BY <2>1 DEF T
<1>5. PICK h : h = [n \in 0..Len(ds) |-> g[n]]
    OBVIOUS
<1>6. h = Body(h)
    <2>1. ASSUME NEW n \in 0..Len(ds)
          PROVE  h[n] = IF n = 0 THEN s ELSE Round(h[n - 1], k, ds, n, i, fault)
        <3>1. CASE n = 0
            BY <1>4, <1>5, <3>1 DEF Rounds
        <3>2. CASE n # 0
            <4>1. n \in 1..Len(ds) /\ n - 1 \in 0..Len(ds)
                BY <3>2
            <4>2. h[n] = g[n] /\ h[n - 1] = g[n - 1]
                BY <1>5, <4>1
            <4> QED
                BY <1>4, <3>2, <4>1, <4>2 DEF Rounds
        <3> QED
            BY <3>1, <3>2
    <2> QED
        BY <1>5, <2>1 DEF Round
<1>7. after = Body(after)
    BY <1>6
<1> HIDE DEF after
<1>8. Rounds(after, s, k, ds, i, fault, Len(ds))
    <2>1. after[0] = s
        BY <1>7
    <2>2. ASSUME NEW m \in 1..Len(ds) PROVE after[m] = Round(after[m - 1], k, ds, m, i, fault)
        <3>1. m \in 0..Len(ds) /\ m # 0
            OBVIOUS
        <3> QED
            BY <1>7, <3>1 DEF Round
    <2> QED
        BY <2>1, <2>2 DEF Rounds
<1> QED
    BY <1>1, <1>8

(* What all the deltas of k make of the store and of the handler.          *)
LEMMA ProcessedOk ==
    ASSUME NEW s \in Results, NEW k \in Keys, NEW ds \in Seq(Deltas), NEW i, NEW fault, s.ok,
           NEW r, r = processDeltas(s, k, ds, i, fault)
    PROVE  /\ r \in Results
           /\ ~Memcached /\ Follows(s) => Follows(r)
           /\ Tracked(s) => Tracked(r)
           /\ \A x \in Keys : x # k => r.told[x] = s.told[x]
           /\ \/ r.told[k] \in {0, s.told[k]}
              \/ \E n \in 1..Len(ds) : ds[n].type # "Deleted" /\ r.told[k] = ds[n].rv
<1>1. Len(ds) \in Nat /\ \A n \in 1..Len(ds) : ds[n] \in Deltas
    BY LenProperties, ElementOfSeq
<1>2. PICK after : Rounds(after, s, k, ds, i, fault, Len(ds)) /\ r = after[Len(ds)]
    BY <1>1, LoopRuns
<1> DEFINE Good(n) == /\ after[n] \in Results
                      /\ ~Memcached /\ Follows(s) => after[n].ok /\ Follows(after[n])
                      /\ Tracked(s) => Tracked(after[n])
                      /\ \A x \in Keys : x # k => after[n].told[x] = s.told[x]
                      /\ \/ after[n].told[k] \in {0, s.told[k]}
                         \/ \E m \in 1..n : ds[m].type # "Deleted" /\ after[n].told[k] = ds[m].rv
           T == {n \in Nat : n <= Len(ds) => Good(n)}
<1>3. 0 \in T
    <2>1. after[0] = s
        BY <1>2 DEF Rounds
    <2>2. Good(0)
        BY <2>1
    <2> QED
        BY <2>2
<1>4. ASSUME NEW n \in Nat, n \in T PROVE n + 1 \in T
    <2> SUFFICES ASSUME n + 1 <= Len(ds) PROVE Good(n + 1)
        OBVIOUS
    <2>1. n + 1 \in 1..Len(ds) /\ (n + 1) - 1 = n /\ n <= Len(ds) /\ \A m \in 1..n : m \in 1..(n + 1)
        BY <1>1
    <2>2. Good(n)
        BY <1>4, <2>1
    <2>3. PICK a, b, d, f : /\ a = after[n] /\ b = after[n + 1] /\ d = ds[n + 1]
                            /\ f = IF n + 1 = i THEN fault ELSE "none"
        OBVIOUS
    <2>4. b = IF a.ok THEN ProcessDelta(a, k, d, f) ELSE a
        BY <1>2, <2>1, <2>3 DEF Rounds, Round
    <2>5. d \in Deltas /\ a \in Results
        BY <1>1, <2>1, <2>2, <2>3
    <2>6. CASE ~a.ok
        BY <2>1, <2>2, <2>3, <2>4, <2>6
    <2>7. CASE a.ok
        <3>1. b \in Results
            BY <2>4, <2>5, <2>7, ProcessDeltaType
        <3>2. ~Memcached /\ Follows(a) => b.ok /\ Follows(b)
            BY <2>4, <2>5, <2>7, ProcessDeltaFollows
        <3>3. Tracked(a) => Tracked(b)
            BY <2>4, <2>5, <2>7, ProcessDeltaTracks
        <3>4. /\ \A x \in Keys : x # k => b.told[x] = a.told[x]
              /\ b.told[k] \in {0, a.told[k]} \/ (d.type # "Deleted" /\ b.told[k] = d.rv)
            BY <2>4, <2>5, <2>7, ProcessDeltaTells
        <3>5. \/ b.told[k] \in {0, s.told[k]}
              \/ \E m \in 1..(n + 1) : ds[m].type # "Deleted" /\ b.told[k] = ds[m].rv
            <4>1. n + 1 \in 1..(n + 1)
                OBVIOUS
            <4> QED
                BY <2>1, <2>2, <2>3, <3>4, <4>1
        <3> QED
            BY <2>2, <2>3, <3>1, <3>2, <3>3, <3>4, <3>5
    <2> QED
        BY <2>6, <2>7
<1>5. Good(Len(ds))
    <2> HIDE DEF T
    <2>1. Len(ds) \in T
        BY <1>1, <1>3, <1>4, Induction
    <2> QED
        BY <1>1, <2>1 DEF T
<1> QED
    BY <1>2, <1>5

-----------------------------------------------------------------------------
(* The steps.                                                              *)

(* CachedIsListed with the keys where the backend keeps them.              *)
AllListed ==
    backend \in {"tracked", "sharded"} /\ crashes = 0 =>
        \A k \in Keys : cache[k] # 0 => k \in keys \cup unanswered

LEMMA ListKeysOk ==
    ASSUME StoreOk
    PROVE  /\ ListKeys \subseteq Keys
           /\ CachedIsListed <=> AllListed
<1>1. CASE backend = "memory"
    BY <1>1 DEF StoreOk, ListKeys, CachedIsListed, AllListed
<1>2. CASE backend = "untracked"
    BY <1>2 DEF StoreOk, ListKeys, CachedIsListed, AllListed
<1>3. CASE backend \in {"tracked", "sharded"}
    BY <1>3 DEF StoreOk, ListKeys, CachedIsListed, AllListed
<1> QED
    BY <1>1, <1>2, <1>3 DEF StoreOk, AllBackends

LEMMA InitInv == Init => IInv
<1> SUFFICES ASSUME Init PROVE IInv
    OBVIOUS
<1> USE DEF Init
<1>1. PICK e : e = [key |-> NoKey, del |-> FALSE]
    OBVIOUS
<1>2. e \in [key: Keys \cup {NoKey}, del: BOOLEAN] /\ log = <<e>>
    BY <1>1
<1>3. ServerOk
    BY <1>2 DEF ServerOk
<1>4. fifo \in FifoType /\ \A k \in Keys : fifo.items[k] = <<>>
    <2>1. <<>> \in Seq(Keys) /\ <<>> \in Seq(Deltas)
        BY EmptySeq
    <2> QED
        BY <2>1 DEF EmptyFIFO, FifoType
<1>5. ReflectorOk
    <2>1. unavailable \in BOOLEAN
        BY Zenon
    <2>2. Len(log) = 1
        BY <1>2
    <2> QED
        BY <2>1, <2>2 DEF ReflectorOk, States, NoWatch
<1>6. StoreOk
    <2>1. useWatchList \in BOOLEAN
        BY Zenon
    <2> QED
        BY <2>1, CustomCacheInformerAssumption DEF StoreOk, NoObjects
<1>7. Forward
    BY DEF Forward
<1>8. HandlerFollowsStore /\ CachedIsListed
    BY DEF HandlerFollowsStore, CachedIsListed, NoObjects
<1>9. Ordered
    BY <1>4 DEF Ordered, InOrder, NoObjects
<1> QED
    BY <1>3, <1>4, <1>5, <1>6, <1>7, <1>8, <1>9 DEF IInv, TypeInv

(* d may follow what is queued for k, once rv has been seen.               *)
Follower(k, d, rv) ==
    backend = "memory" /\ ~useWatchList /\ d.type # "Deleted" =>
        /\ VersionOf(k, d.rv, log, rv) /\ told[k] <= d.rv
        /\ \A j \in 1..Len(fifo.items[k]) :
               fifo.items[k][j].type # "Deleted" => fifo.items[k][j].rv <= d.rv

(* The Reflector goes forward, and queues deltas that may follow.          *)
LEMMA ReflectorStep ==
    ASSUME IInv, UNCHANGED <<server, cache, index, handler, options, crashes>>,
           ReflectorOk', Forward', lastRV' >= lastRV,
           keys \cup unanswered \subseteq keys' \cup unanswered', keys' \subseteq Keys, unanswered' \subseteq Keys,
           fifo' \in FifoType,
           \A k \in Keys : \/ fifo'.items[k] = fifo.items[k]
                           \/ \E d \in Deltas : /\ fifo'.items[k] = Dedup(fifo.items[k], d)
                                                /\ Follower(k, d, lastRV')
    PROVE  IInv'
<1> USE DEF IInv, TypeInv, server, handler, options
<1>1. ServerOk'
    BY DEF ServerOk
<1>2. StoreOk'
    BY DEF StoreOk
<1>3. HandlerFollowsStore'
    BY DEF HandlerFollowsStore
<1>4. CachedIsListed'
    <2>1. AllListed
        BY ListKeysOk
    <2>2. AllListed'
        BY <2>1 DEF AllListed
    <2>3. CachedIsListed' <=> AllListed'
        BY <1>2, ListKeysOk, PTL
    <2> QED
        BY <2>2, <2>3
<1>5. Ordered'
    <2> SUFFICES ASSUME backend = "memory", ~useWatchList, NEW k \in Keys
                 PROVE  /\ told[k] # 0 => VersionOf(k, told[k], log, lastRV')
                        /\ InOrder(fifo'.items[k], k, told[k], log, lastRV')
        BY DEF Ordered
    <2>1. /\ told[k] # 0 => VersionOf(k, told[k], log, lastRV)
          /\ InOrder(fifo.items[k], k, told[k], log, lastRV)
        BY DEF Ordered
    <2>2. lastRV \in Nat /\ lastRV' \in Nat /\ lastRV <= lastRV'
        BY DEF ReflectorOk
    <2>3. InOrder(fifo.items[k], k, told[k], log, lastRV')
        BY <2>1, <2>2, OrderGrows
    <2>4. fifo.items[k] \in Seq(Deltas)
        BY DEF FifoType
    <2>5. ASSUME NEW d \in Deltas, Follower(k, d, lastRV')
          PROVE  InOrder(Dedup(fifo.items[k], d), k, told[k], log, lastRV')
        BY <2>3, <2>4, <2>5, OrderKept DEF Follower
    <2> QED
        BY <2>1, <2>2, <2>3, <2>5 DEF VersionOf
<1> QED
    BY <1>1, <1>2, <1>3, <1>4, <1>5

(* The steps that only change where the Reflector is.                      *)
LEMMA ReflectorInv ==
    ASSUME IInv,
           \/ ListAndWatch \/ ListSucceeds \/ ListExpired \/ ListFails
           \/ WatchOpens \/ WatchExpired \/ WatchFails \/ WatchEnds \/ HandleBookmark
           \/ WatchListOpens \/ InitialEventsEnd \/ WatchListFails
    PROVE  IInv' /\ lastRV' >= lastRV
<1>1. /\ TypeInv /\ Forward /\ ServerOk /\ ReflectorOk /\ Len(log) \in Nat
      /\ lastRV \in Nat /\ lastRV <= Len(log) /\ compacted \in Nat /\ compacted <= Len(log)
      /\ w \in [pos: Nat, snap: Nat, init: SUBSET Keys]
    <2>1. TypeInv /\ Forward /\ ServerOk /\ ReflectorOk
        BY DEF IInv, TypeInv
    <2>2. Len(log) \in Nat
        BY <2>1, LenProperties DEF ServerOk
    <2> QED
        BY <2>1, <2>2 DEF ServerOk, ReflectorOk
<1>2. UNCHANGED <<server, fifo, store, handler, options, crashes>>
    BY DEF ListAndWatch, ListSucceeds, ListExpired, ListFails, WatchOpens, WatchExpired, WatchFails, WatchEnds,
           HandleBookmark, WatchListOpens, InitialEventsEnd, WatchListFails
<1>3. NoWatch \in [pos: Nat, snap: Nat, init: SUBSET Keys]
    BY DEF NoWatch
<1>4. ASSUME NEW v \in relistResourceVersion \cup rewatchResourceVersion
      PROVE  v \in lastRV..Len(log)
    <2>1. PICK m : m = Max({lastRV, compacted})
        OBVIOUS
    <2>2. m \in {lastRV, compacted} /\ m >= lastRV
        <3>1. \E x \in {lastRV, compacted} : \A y \in {lastRV, compacted} : x >= y
            BY <1>1
        <3> QED
            BY <2>1, <3>1 DEF Max
    <2>3. v \in m..Len(log) \/ v = Len(log)
        BY <1>4, <2>1 DEF relistResourceVersion, rewatchResourceVersion, Latest, NotOlderThan
    <2> QED
        BY <1>1, <2>2, <2>3
<1>5. unavailable' \in BOOLEAN
    <2>1. unavailable \in BOOLEAN
        BY <1>1 DEF ReflectorOk
    <2>2. \/ unavailable' = FALSE \/ unavailable' = TRUE \/ unavailable' = unavailable
        BY DEF ListAndWatch, ListSucceeds, ListExpired, ListFails, WatchOpens, WatchExpired, WatchFails, WatchEnds,
               HandleBookmark, WatchListOpens, InitialEventsEnd, WatchListFails
    <2> QED
        BY <2>1, <2>2, Zenon
<1>6. ReflectorOk' /\ Forward' /\ lastRV' >= lastRV
    <2> USE <1>1, <1>2, <1>5 DEF ReflectorOk, Forward, States, server, options
    <2>1. CASE ListAndWatch
        BY <2>1 DEF ListAndWatch, TypeInv, StoreOk
    <2>2. CASE ListSucceeds
        BY <1>4, <2>2 DEF ListSucceeds
    <2>3. CASE ListExpired
        BY <2>3 DEF ListExpired
    <2>4. CASE ListFails
        BY <2>4 DEF ListFails
    <2>5. CASE WatchOpens
        <3>1. w' \in [pos: Nat, snap: Nat, init: SUBSET Keys] /\ w'.pos = lastRV
            BY <1>3, <2>5 DEF WatchOpens, NoWatch
        <3> QED
            BY <2>5, <3>1 DEF WatchOpens
    <2>6. CASE WatchExpired
        BY <2>6 DEF WatchExpired
    <2>7. CASE WatchFails
        BY <2>7 DEF WatchFails
    <2>8. CASE WatchEnds
        BY <1>3, <2>8 DEF WatchEnds
    <2>9. CASE HandleBookmark
        <3>1. PICK j : j = NextOwn(w.pos)
            OBVIOUS
        <3>2. w.pos = lastRV /\ w.pos < j - 1 /\ lastRV' = j - 1 /\ w' = [w EXCEPT !.pos = lastRV']
            BY <2>9, <3>1 DEF HandleBookmark
        <3>3. j \in (w.pos + 1)..(Len(log) + 1)
            BY <3>1, <3>2, NextOwnIsNext
        <3>4. lastRV' \in 0..Len(log) /\ lastRV' >= lastRV
            BY <3>2, <3>3
        <3>5. w' \in [pos: Nat, snap: Nat, init: SUBSET Keys] /\ w'.pos = lastRV'
            BY <3>2, <3>4
        <3> QED
            BY <2>9, <3>4, <3>5 DEF HandleBookmark
    <2>10. CASE WatchListOpens
        <3>1. PICK v \in rewatchResourceVersion :
                  w' = [pos |-> v, snap |-> v, init |-> {k \in Keys : At(v)[k] # 0}]
            BY <2>10 DEF WatchListOpens
        <3>2. v \in lastRV..Len(log)
            BY <1>4
        <3>3. w' \in [pos: Nat, snap: Nat, init: SUBSET Keys] /\ w'.pos = v /\ w'.snap = v
            BY <3>1, <3>2
        <3> QED
            BY <2>10, <3>2, <3>3 DEF WatchListOpens
    <2>11. CASE InitialEventsEnd
        <3>1. w' \in [pos: Nat, snap: Nat, init: SUBSET Keys] /\ w'.pos = w.pos
            BY <2>11 DEF InitialEventsEnd
        <3> QED
            BY <2>11, <3>1 DEF InitialEventsEnd
    <2>12. CASE WatchListFails
        <3>1. w' = NoWatch /\ pc' \in {"watchList", "list"} /\ UNCHANGED <<lastRV, listed>>
            BY <2>12 DEF WatchListFails
        <3>2. useWatchList
            BY <2>12 DEF WatchListFails
        <3> QED
            BY <1>3, <3>1, <3>2
    <2> QED
        BY <2>1, <2>2, <2>3, <2>4, <2>5, <2>6, <2>7, <2>8, <2>9, <2>10, <2>11, <2>12
<1> QED
    BY <1>1, <1>2, <1>6, ReflectorStep DEF store, TypeInv, StoreOk

LEMMA SyncInv == ASSUME IInv, syncWith PROVE IInv' /\ lastRV' >= lastRV
<1>1. /\ TypeInv /\ Forward /\ ServerOk /\ ReflectorOk /\ StoreOk /\ Len(log) \in Nat
      /\ lastRV \in Nat /\ listed \in lastRV..Len(log) /\ listed \in Nat
    <2>1. TypeInv /\ Forward /\ ServerOk /\ ReflectorOk /\ StoreOk
        BY DEF IInv, TypeInv
    <2>2. Len(log) \in Nat
        BY <2>1, LenProperties DEF ServerOk
    <2> QED
        BY <2>1, <2>2 DEF ReflectorOk, Forward, syncWith
<1>2. At(listed) \in [Keys -> Nat]
    <2>1. \A k \in Keys : At(listed)[k] \in Nat
        BY <1>1, AtIsLast
    <2> QED
        BY <2>1 DEF At
<1>3. PICK s, ks : s = At(listed) /\ ks = ListKeys
    OBVIOUS
<1>4. /\ fifo' \in FifoType
      /\ \A k \in Keys :
            \/ fifo'.items[k] = fifo.items[k]
            \/ \E d \in Deltas : /\ fifo'.items[k] = Dedup(fifo.items[k], d)
                                 /\ d.type = "Deleted" \/ (d.rv = s[k] /\ s[k] # 0)
    <2>1. fifo' = Replace(fifo, s, ks) /\ fifo \in FifoType /\ s \in [Keys -> Nat] /\ ks \subseteq Keys
        BY <1>1, <1>2, <1>3, ListKeysOk DEF syncWith, TypeInv
    <2> QED
        BY <2>1, ReplaceOk
<1>5. ASSUME NEW k \in Keys, NEW d \in Deltas, d.type = "Deleted" \/ (d.rv = s[k] /\ s[k] # 0)
      PROVE  Follower(k, d, listed)
    <2> SUFFICES ASSUME backend = "memory", ~useWatchList, d.type # "Deleted"
                 PROVE  /\ VersionOf(k, d.rv, log, listed) /\ told[k] <= d.rv
                        /\ \A j \in 1..Len(fifo.items[k]) :
                               fifo.items[k][j].type # "Deleted" => fifo.items[k][j].rv <= d.rv
        BY DEF Follower
    <2>1. /\ d.rv \in 0..listed /\ d.rv # 0 /\ log[d.rv].key = k
          /\ \A p \in 1..listed : log[p].key = k => p <= d.rv
        BY <1>1, <1>3, <1>5, AtIsLast
    <2>2. \A v : VersionOf(k, v, log, lastRV) => v <= d.rv
        BY <1>1, <2>1 DEF VersionOf
    <2>3. /\ told[k] \in Nat
          /\ told[k] # 0 => VersionOf(k, told[k], log, lastRV)
          /\ InOrder(fifo.items[k], k, told[k], log, lastRV)
        BY <1>1 DEF IInv, Ordered, StoreOk
    <2>4. \A j \in 1..Len(fifo.items[k]) :
              fifo.items[k][j].type # "Deleted" => VersionOf(k, fifo.items[k][j].rv, log, lastRV)
        BY <2>3 DEF InOrder
    <2>5. told[k] <= d.rv
        BY <2>1, <2>2, <2>3
    <2>6. VersionOf(k, d.rv, log, listed)
        BY <1>1, <2>1 DEF VersionOf
    <2>7. \A j \in 1..Len(fifo.items[k]) :
              fifo.items[k][j].type # "Deleted" => fifo.items[k][j].rv <= d.rv
        BY <2>2, <2>4
    <2> QED
        BY <2>5, <2>6, <2>7
<1>6. ReflectorOk' /\ Forward' /\ lastRV' = listed /\ lastRV' >= lastRV
    <2>1. unavailable' \in BOOLEAN
        BY <1>1 DEF syncWith, ReflectorOk
    <2> QED
        BY <1>1, <2>1 DEF syncWith, ReflectorOk, Forward, States, server
<1>7. UNCHANGED <<server, cache, keys, index, unanswered, handler, options, crashes>>
    BY DEF syncWith, store
<1> QED
    BY <1>1, <1>4, <1>5, <1>6, <1>7, ReflectorStep DEF StoreOk

LEMMA HandleEventInv == ASSUME IInv, HandleEvent PROVE IInv' /\ lastRV' >= lastRV
<1>1. /\ TypeInv /\ Forward /\ ServerOk /\ ReflectorOk /\ StoreOk /\ Len(log) \in Nat
      /\ lastRV \in Nat /\ lastRV <= Len(log) /\ w.pos = lastRV
      /\ w \in [pos: Nat, snap: Nat, init: SUBSET Keys]
    <2>1. TypeInv /\ Forward /\ ServerOk /\ ReflectorOk /\ StoreOk
        BY DEF IInv, TypeInv
    <2>2. Len(log) \in Nat
        BY <2>1, LenProperties DEF ServerOk
    <2> QED
        BY <2>1, <2>2 DEF ReflectorOk, Forward, HandleEvent
<1>2. PICK j : /\ j = NextOwn(w.pos) /\ j <= Len(log)
               /\ fifo' = IF log[j].del THEN DeleteKey(fifo, log[j].key, j, {x \in Keys : cache[x] # 0})
                          ELSE Put(fifo, log[j].key, IF At(j - 1)[log[j].key] = 0 THEN "Added" ELSE "Updated", j)
               /\ \/ keys' = keys /\ unanswered' = unanswered
                  \/ keys' = keys \cup {log[j].key} /\ unanswered' = unanswered \ {log[j].key}
               /\ w' = [w EXCEPT !.pos = j] /\ lastRV' = j
    BY DEF HandleEvent
<1>3. j \in (lastRV + 1)..Len(log) /\ log[j].key \in Keys /\ j \in Nat
    BY <1>1, <1>2, NextOwnIsNext
<1>4. PICK k : k = log[j].key /\ k \in Keys
    BY <1>3
<1>5. \/ fifo' = fifo
      \/ fifo' = Put(fifo, k, "Deleted", j)
      \/ fifo' = Put(fifo, k, "Added", j)
      \/ fifo' = Put(fifo, k, "Updated", j)
    BY <1>2, <1>4 DEF DeleteKey
<1>6. ASSUME NEW type \in Types, fifo' = Put(fifo, k, type, j)
      PROVE  /\ fifo' \in FifoType
             /\ \A x \in Keys : \/ fifo'.items[x] = fifo.items[x]
                                \/ \E d \in Deltas : /\ fifo'.items[x] = Dedup(fifo.items[x], d)
                                                     /\ x = k /\ d.rv = j
    <2>1. PICK d : d = [type |-> type, rv |-> j, unknown |-> FALSE]
        OBVIOUS
    <2>2. d \in Deltas /\ d.rv = j
        BY <1>3, <2>1 DEF Deltas
    <2>3. /\ fifo' \in FifoType
          /\ \A x \in Keys : fifo'.items[x] = IF x = k THEN Dedup(fifo.items[x], d) ELSE fifo.items[x]
        BY <1>1, <1>3, <1>4, <1>6, <2>1, PutOk DEF TypeInv
    <2> QED
        BY <2>2, <2>3
<1>7. /\ fifo' \in FifoType
      /\ \A x \in Keys : \/ fifo'.items[x] = fifo.items[x]
                         \/ \E d \in Deltas : fifo'.items[x] = Dedup(fifo.items[x], d) /\ x = k /\ d.rv = j
    <2>1. {"Added", "Updated", "Deleted"} \subseteq Types
        BY DEF Types
    <2>2. CASE fifo' = fifo
        BY <1>1, <2>2 DEF TypeInv
    <2> QED
        BY <1>5, <1>6, <2>1, <2>2
<1>8. ASSUME NEW d \in Deltas, d.rv = j PROVE Follower(k, d, j)
    <2> SUFFICES ASSUME backend = "memory", ~useWatchList
                 PROVE  /\ VersionOf(k, j, log, j) /\ told[k] <= j
                        /\ \A i \in 1..Len(fifo.items[k]) :
                               fifo.items[k][i].type # "Deleted" => fifo.items[k][i].rv <= j
        BY <1>8 DEF Follower
    <2>1. /\ told[k] \in Nat
          /\ told[k] # 0 => VersionOf(k, told[k], log, lastRV)
          /\ InOrder(fifo.items[k], k, told[k], log, lastRV)
        BY <1>1, <1>4 DEF IInv, Ordered, StoreOk
    <2>2. \A v : VersionOf(k, v, log, lastRV) => v <= j
        BY <1>1, <1>3 DEF VersionOf
    <2>3. VersionOf(k, j, log, j)
        BY <1>1, <1>3, <1>4 DEF VersionOf
    <2>4. told[k] <= j
        BY <1>3, <2>1, <2>2
    <2> QED
        BY <2>1, <2>2, <2>3, <2>4 DEF InOrder
<1>9. ReflectorOk' /\ Forward' /\ lastRV' = j /\ lastRV' >= lastRV
    <2>1. unavailable' \in BOOLEAN
        BY <1>1 DEF HandleEvent, ReflectorOk
    <2>2. w' \in [pos: Nat, snap: Nat, init: SUBSET Keys] /\ w'.pos = j
        BY <1>1, <1>2, <1>3
    <2>3. pc = "handleWatch" /\ UNCHANGED <<log, pc, listed>>
        BY DEF HandleEvent, server
    <2> QED
        BY <1>1, <1>2, <1>3, <2>1, <2>2, <2>3 DEF ReflectorOk, Forward, States
<1>10. UNCHANGED <<server, cache, index, handler, options, crashes>>
    BY DEF HandleEvent
<1>11. keys \cup unanswered \subseteq keys' \cup unanswered' /\ keys' \subseteq Keys /\ unanswered' \subseteq Keys
    BY <1>1, <1>2, <1>3 DEF StoreOk
<1> QED
    BY <1>7, <1>8, <1>9, <1>10, <1>11, ReflectorStep

LEMMA InitialEventInv == ASSUME IInv, HandleInitialEvent PROVE IInv' /\ lastRV' >= lastRV
<1>1. /\ TypeInv /\ Forward /\ ServerOk /\ ReflectorOk /\ StoreOk
      /\ lastRV \in Nat /\ useWatchList /\ w \in [pos: Nat, snap: Nat, init: SUBSET Keys]
    BY DEF IInv, TypeInv, ReflectorOk, Forward, HandleInitialEvent
<1>2. PICK k \in w.init : fifo' = Put(fifo, k, "Added", At(w.snap)[k]) /\ w' = [w EXCEPT !.init = @ \ {k}]
    BY DEF HandleInitialEvent
<1>3. k \in Keys /\ w.snap \in Nat
    BY <1>1
<1>4. PICK rv : rv = At(w.snap)[k]
    OBVIOUS
<1>5. rv \in Nat
    BY <1>3, <1>4, AtIsLast
<1>6. PICK d : d = [type |-> "Added", rv |-> rv, unknown |-> FALSE]
    OBVIOUS
<1>7. d \in Deltas /\ "Added" \in Types
    BY <1>5, <1>6 DEF Deltas, Types
<1>8. /\ fifo' \in FifoType
      /\ \A x \in Keys : fifo'.items[x] = IF x = k THEN Dedup(fifo.items[x], d) ELSE fifo.items[x]
    BY <1>1, <1>2, <1>3, <1>4, <1>5, <1>6, <1>7, PutOk DEF TypeInv
<1>9. \A x \in Keys : Follower(x, d, lastRV')
    BY <1>1 DEF Follower
<1>10. ReflectorOk' /\ Forward' /\ lastRV' >= lastRV
    <2>1. unavailable' \in BOOLEAN
        BY <1>1 DEF HandleInitialEvent, ReflectorOk
    <2>2. w' \in [pos: Nat, snap: Nat, init: SUBSET Keys] /\ w'.pos = w.pos /\ w'.snap = w.snap
        BY <1>1, <1>2
    <2>3. pc = "handleListWatch" /\ UNCHANGED <<log, pc, listed, lastRV, useWatchList>>
        BY DEF HandleInitialEvent, server, options
    <2> QED
        BY <1>1, <2>1, <2>2, <2>3 DEF ReflectorOk, Forward, States
<1>11. UNCHANGED <<server, cache, keys, index, unanswered, handler, options, crashes>>
    BY DEF HandleInitialEvent, store
<1> QED
    BY <1>1, <1>7, <1>8, <1>9, <1>10, <1>11, ReflectorStep DEF StoreOk

LEMMA ResyncInv == ASSUME IInv, ResyncTimer PROVE IInv' /\ lastRV' >= lastRV
<1>1. TypeInv /\ Forward /\ ReflectorOk /\ StoreOk /\ lastRV \in Nat
    BY DEF IInv, TypeInv, ReflectorOk
<1>2. PICK ks : ks = ListKeys
    OBVIOUS
<1>3. fifo' = Resync(fifo, ks, cache) /\ fifo \in FifoType /\ ks \subseteq Keys /\ cache \in [Keys -> Nat]
    BY <1>1, <1>2, ListKeysOk DEF ResyncTimer, TypeInv, StoreOk
<1>4. /\ fifo' \in FifoType
      /\ \A k \in Keys :
            \/ fifo'.items[k] = fifo.items[k]
            \/ \E d \in Deltas : /\ fifo'.items[k] = Dedup(fifo.items[k], d)
                                 /\ fifo.items[k] = <<>> /\ d.rv = cache[k] /\ cache[k] # 0
    BY <1>3, ResyncOk
<1>5. ASSUME NEW k \in Keys, NEW d \in Deltas, fifo.items[k] = <<>>, d.rv = cache[k], cache[k] # 0
      PROVE  Follower(k, d, lastRV)
    <2> SUFFICES ASSUME backend = "memory", ~useWatchList
                 PROVE  VersionOf(k, d.rv, log, lastRV) /\ told[k] <= d.rv
        BY <1>5 DEF Follower
    <2>1. d.rv = told[k] /\ told[k] # 0 /\ told[k] \in Nat
        BY <1>1, <1>5 DEF IInv, HandlerFollowsStore, StoreOk
    <2> QED
        BY <2>1 DEF IInv, Ordered
<1>6. UNCHANGED <<server, refl, cache, keys, index, unanswered, handler, options, crashes>>
    BY DEF ResyncTimer, store
<1>7. ReflectorOk' /\ Forward' /\ lastRV' = lastRV
    BY <1>1, <1>6 DEF ReflectorOk, Forward, refl, server, options
<1> QED
    BY <1>1, <1>4, <1>5, <1>6, <1>7, ReflectorStep DEF StoreOk

LEMMA ServerInv == ASSUME IInv, Write \/ Delete \/ OtherKind \/ Compact PROVE IInv' /\ lastRV' >= lastRV
<1>1. /\ TypeInv /\ Forward /\ ServerOk /\ ReflectorOk /\ StoreOk /\ Len(log) \in Nat
      /\ lastRV \in Nat /\ lastRV <= Len(log) /\ compacted \in 0..Len(log)
    <2>1. TypeInv /\ Forward /\ ServerOk /\ ReflectorOk /\ StoreOk
        BY DEF IInv, TypeInv
    <2>2. Len(log) \in Nat
        BY <2>1, LenProperties DEF ServerOk
    <2> QED
        BY <2>1, <2>2 DEF ServerOk, ReflectorOk
<1>2. UNCHANGED <<refl, fifo, store, handler, options, crashes>>
    BY DEF Write, Delete, OtherKind, Change, Compact
<1>3. /\ ServerOk' /\ Len(log') \in Nat /\ Len(log) <= Len(log')
      /\ \A i \in 1..Len(log) : log'[i] = log[i]
    <2>1. CASE Compact
        BY <1>1, <2>1 DEF Compact, ServerOk
    <2>2. CASE Write \/ Delete \/ OtherKind
        <3>1. PICK e \in [key: Keys \cup {NoKey}, del: BOOLEAN] : Change(e)
            <4>1. TRUE \in BOOLEAN /\ FALSE \in BOOLEAN
                BY Zenon
            <4>2. \A k \in Keys \cup {NoKey} : /\ [key |-> k, del |-> FALSE] \in [key: Keys \cup {NoKey}, del: BOOLEAN]
                                              /\ [key |-> k, del |-> TRUE] \in [key: Keys \cup {NoKey}, del: BOOLEAN]
                BY <4>1
            <4> QED
                BY <2>2, <4>2 DEF Write, Delete, OtherKind
        <3>2. log' = Append(log, e) /\ compacted' = compacted
            BY <3>1 DEF Change
        <3>3. /\ log' \in Seq([key: Keys \cup {NoKey}, del: BOOLEAN]) /\ Len(log') = Len(log) + 1
              /\ \A i \in 1..Len(log) : log'[i] = log[i]
            BY <1>1, <3>1, <3>2, AppendProperties DEF ServerOk
        <3> QED
            BY <1>1, <3>2, <3>3 DEF ServerOk
    <2> QED
        BY <2>1, <2>2
<1>4. ReflectorOk' /\ Forward' /\ lastRV' = lastRV
    BY <1>1, <1>2, <1>3 DEF ReflectorOk, Forward, refl, options
<1>5. StoreOk' /\ HandlerFollowsStore' /\ (fifo \in FifoType)' /\ (crashes \in Nat)'
    BY <1>1, <1>2 DEF IInv, TypeInv, StoreOk, HandlerFollowsStore, store, handler, options
<1>6. CachedIsListed'
    BY <1>2 DEF IInv, CachedIsListed, ListKeys, store, options
<1>7. Ordered'
    <2> SUFFICES ASSUME backend = "memory", ~useWatchList, NEW k \in Keys
                 PROVE  /\ told[k] # 0 => VersionOf(k, told[k], log', lastRV)
                        /\ InOrder(fifo.items[k], k, told[k], log', lastRV)
        BY <1>2, <1>4 DEF Ordered, handler, options
    <2>1. /\ told[k] # 0 => VersionOf(k, told[k], log, lastRV)
          /\ InOrder(fifo.items[k], k, told[k], log, lastRV)
        BY DEF IInv, Ordered
    <2>2. \A i \in 1..lastRV : log'[i] = log[i]
        BY <1>1, <1>3
    <2>3. InOrder(fifo.items[k], k, told[k], log', lastRV)
        BY <1>1, <2>1, <2>2, OrderGrows
    <2> QED
        BY <1>1, <2>1, <2>2, <2>3 DEF VersionOf
<1> QED
    BY <1>1, <1>3, <1>4, <1>5, <1>6, <1>7 DEF IInv, TypeInv

(* Pop: what the handler learns is not older than what it knew.            *)
LEMMA PopInv ==
    ASSUME IInv, NEW i, NEW fault, PopWith(i, fault)
    PROVE  /\ IInv' /\ lastRV' = lastRV
           /\ backend = "memory" /\ ~useWatchList => \A k \in Keys : told'[k] # 0 => told'[k] >= told[k]
<1>1. TypeInv /\ Forward /\ ServerOk /\ ReflectorOk /\ StoreOk /\ fifo \in FifoType /\ lastRV \in Nat
    BY DEF IInv, TypeInv, ReflectorOk
<1>2. PICK s : s = [cache |-> cache, keys |-> keys, unanswered |-> unanswered,
                  told |-> told, missed |-> missed, ok |-> TRUE]
    OBVIOUS
<1>3. PICK k, ds : k = Head(fifo.queue) /\ ds = fifo.items[k]
    OBVIOUS
<1>4. PICK r : /\ r = processDeltas(s, k, ds, i, fault)
               /\ cache' = r.cache /\ keys' = r.keys /\ unanswered' = r.unanswered
               /\ told' = r.told /\ missed' = r.missed
    BY <1>2, <1>3 DEF PopWith
<1>5. /\ k \in Keys /\ fifo' \in FifoType
      /\ \A x \in Keys : fifo'.items[x] = IF x = k THEN <<>> ELSE fifo.items[x]
    BY <1>1, <1>3, PopOk DEF PopWith
<1>6. ds \in Seq(Deltas)
    BY <1>1, <1>3, <1>5 DEF FifoType
<1>7. /\ s \in Results /\ s.ok /\ s.cache = cache /\ s.keys = keys /\ s.unanswered = unanswered
      /\ s.told = told /\ s.missed = missed
    <2>1. TRUE \in BOOLEAN
        BY Zenon
    <2> QED
        BY <1>1, <1>2, <2>1 DEF Results, StoreOk
<1>8. /\ r \in Results
      /\ ~Memcached /\ Follows(s) => Follows(r)
      /\ Tracked(s) => Tracked(r)
      /\ \A x \in Keys : x # k => r.told[x] = s.told[x]
      /\ \/ r.told[k] \in {0, s.told[k]}
         \/ \E n \in 1..Len(ds) : ds[n].type # "Deleted" /\ r.told[k] = ds[n].rv
    BY <1>4, <1>5, <1>6, <1>7, ProcessedOk
<1>9. UNCHANGED <<server, refl, index, options, crashes>>
    BY DEF PopWith
<1>10. StoreOk'
    BY <1>1, <1>4, <1>8, <1>9 DEF StoreOk, Results, options
<1>11. ServerOk' /\ ReflectorOk' /\ Forward' /\ lastRV' = lastRV /\ (crashes \in Nat)'
    BY <1>1, <1>9 DEF ServerOk, ReflectorOk, Forward, TypeInv, server, refl, options
<1>12. HandlerFollowsStore'
    <2> SUFFICES ASSUME backend = "memory" PROVE Follows(r)
        BY <1>4, <1>9 DEF HandlerFollowsStore, Follows, options
    <2>1. Follows(s)
        BY <1>7 DEF IInv, HandlerFollowsStore, Follows
    <2> QED
        BY <1>8, <2>1 DEF Memcached
<1>13. CachedIsListed'
    <2>1. AllListed
        BY <1>1, ListKeysOk DEF IInv
    <2>2. backend \in {"tracked", "sharded"} /\ crashes = 0 => \A x \in Keys : r.cache[x] # 0 => x \in r.keys \cup r.unanswered
        BY <1>7, <1>8, <2>1 DEF Tracked, AllListed
    <2>3. AllListed'
        BY <1>4, <1>9, <2>2 DEF options, AllListed
    <2>4. CachedIsListed' <=> AllListed'
        BY <1>10, ListKeysOk, PTL
    <2> QED
        BY <2>3, <2>4
<1>14. ASSUME backend = "memory", ~useWatchList, NEW x \in Keys
       PROVE  /\ told'[x] # 0 => told'[x] >= told[x] /\ VersionOf(x, told'[x], log, lastRV)
              /\ InOrder(fifo'.items[x], x, told'[x], log, lastRV)
    <2>1. /\ told[x] \in Nat
          /\ told[x] # 0 => VersionOf(x, told[x], log, lastRV)
          /\ InOrder(fifo.items[x], x, told[x], log, lastRV)
        BY <1>1, <1>14 DEF IInv, Ordered, StoreOk
    <2>2. CASE x # k
        BY <1>4, <1>5, <1>7, <1>8, <2>1, <2>2
    <2>3. CASE x = k
        <3>1. InOrder(fifo'.items[x], x, told'[x], log, lastRV)
            BY <1>5, <2>3 DEF InOrder
        <3>2. \A n \in 1..Len(ds) : ds[n].type # "Deleted" => told[x] <= ds[n].rv /\ VersionOf(x, ds[n].rv, log, lastRV)
            BY <1>3, <2>1, <2>3 DEF InOrder
        <3>3. \A n \in 1..Len(ds) : ds[n].rv \in Nat
            <4>1. \A n \in 1..Len(ds) : ds[n] \in Deltas
                BY <1>6, ElementOfSeq
            <4> QED
                BY <4>1 DEF Deltas
        <3>4. CASE told'[x] \in {0, told[x]}
            BY <2>1, <3>1, <3>4
        <3>5. CASE \E n \in 1..Len(ds) : ds[n].type # "Deleted" /\ told'[x] = ds[n].rv
            BY <2>1, <3>1, <3>2, <3>3, <3>5
        <3> QED
            BY <1>4, <1>7, <1>8, <2>3, <3>4, <3>5
    <2> QED
        BY <2>2, <2>3
<1>15. Ordered'
    BY <1>9, <1>11, <1>14 DEF Ordered, server, options
<1> QED
    BY <1>5, <1>10, <1>11, <1>12, <1>13, <1>14, <1>15 DEF IInv, TypeInv

LEMMA MemcachedInv ==
    ASSUME IInv, Evict \/ syncKeys
    PROVE  IInv' /\ lastRV' = lastRV /\ told' = told
<1>1. TypeInv /\ Forward /\ ServerOk /\ ReflectorOk /\ StoreOk
    BY DEF IInv, TypeInv
<1>2. /\ UNCHANGED <<server, refl, fifo, keys, unanswered, handler, options, crashes>>
      /\ cache' \in [Keys -> Nat] /\ index' \subseteq Keys
      /\ \A k \in Keys : cache'[k] # 0 => cache[k] # 0
      /\ Memcached
    BY <1>1 DEF Evict, syncKeys, StoreOk, Memcached
<1>3. ServerOk' /\ ReflectorOk' /\ Forward' /\ lastRV' = lastRV /\ told' = told /\ StoreOk'
    BY <1>1, <1>2 DEF ServerOk, ReflectorOk, Forward, StoreOk, server, refl, handler, options
<1>4. HandlerFollowsStore' /\ Ordered'
    BY <1>2 DEF HandlerFollowsStore, Ordered, Memcached, options
<1>5. CachedIsListed'
    <2>1. AllListed
        BY <1>1, ListKeysOk DEF IInv
    <2>2. AllListed'
        BY <1>2, <2>1 DEF options, AllListed
    <2>3. CachedIsListed' <=> AllListed'
        BY <1>3, ListKeysOk, PTL
    <2> QED
        BY <2>2, <2>3
<1> QED
    BY <1>1, <1>2, <1>3, <1>4, <1>5 DEF IInv, TypeInv

LEMMA RestartInv == ASSUME IInv, Restart PROVE IInv' /\ crashes' # crashes
<1>1. TypeInv /\ ServerOk /\ StoreOk /\ crashes \in Nat
    BY DEF IInv, TypeInv
<1>2. crashes' = crashes + 1 /\ crashes' # 0 /\ crashes' # crashes
    BY <1>1 DEF Restart
<1>3. ServerOk' /\ Len(log) \in Nat
    BY <1>1, LenProperties DEF Restart, ServerOk, server
<1>4. ReflectorOk' /\ Forward'
    <2>1. unavailable' \in BOOLEAN
        BY Zenon DEF Restart
    <2>2. w' \in [pos: Nat, snap: Nat, init: SUBSET Keys]
        BY DEF Restart, NoWatch
    <2> QED
        BY <1>3, <2>1, <2>2 DEF Restart, ReflectorOk, Forward, States, server
<1>5. fifo' \in FifoType /\ \A k \in Keys : fifo'.items[k] = <<>>
    <2>1. <<>> \in Seq(Keys) /\ <<>> \in Seq(Deltas)
        BY EmptySeq
    <2> QED
        BY <2>1 DEF Restart, EmptyFIFO, FifoType
<1>6. /\ cache' \in [Keys -> Nat] /\ told' = [k \in Keys |-> 0] /\ missed' = {}
      /\ ~Memcached => cache' = [k \in Keys |-> 0]
    BY <1>1 DEF Restart, NoObjects, StoreOk
<1>7. StoreOk'
    BY <1>1, <1>6 DEF Restart, StoreOk, setKeysFromCache, options
<1>8. HandlerFollowsStore'
    BY <1>6 DEF Restart, HandlerFollowsStore, Memcached, options
<1>9. CachedIsListed'
    BY <1>2 DEF CachedIsListed
<1>10. Ordered'
    BY <1>5, <1>6 DEF Ordered, InOrder
<1> QED
    BY <1>1, <1>2, <1>3, <1>4, <1>5, <1>7, <1>8, <1>9, <1>10 DEF IInv, TypeInv

(* A step that is not a restart: the Reflector does not go back, and the   *)
(* handler hears of nothing older.                                         *)
NotBack ==
    crashes' = crashes =>
        /\ lastRV' >= lastRV
        /\ ~useWatchList /\ ~Memcached => \A k \in Keys : told'[k] # 0 => told'[k] >= told[k]

LEMMA NextInv == ASSUME IInv, [Next]_vars PROVE IInv' /\ NotBack
<1>1. lastRV \in Nat /\ told \in [Keys -> Nat] /\ (backend = "memory" <=> ~Memcached)
    BY DEF IInv, TypeInv, ReflectorOk, StoreOk, Memcached
<1>2. ASSUME IInv', lastRV' >= lastRV, told' = told PROVE IInv' /\ NotBack
    BY <1>1, <1>2 DEF NotBack
<1>3. CASE Write \/ Delete \/ OtherKind \/ Compact
    <2>1. told' = told
        BY <1>3 DEF Write, Delete, OtherKind, Change, Compact, handler
    <2> QED
        BY <1>2, <1>3, <2>1, ServerInv
<1>4. CASE \/ ListAndWatch \/ ListSucceeds \/ ListExpired \/ ListFails
           \/ WatchOpens \/ WatchExpired \/ WatchFails \/ WatchEnds \/ HandleBookmark
           \/ WatchListOpens \/ InitialEventsEnd \/ WatchListFails
    <2>1. told' = told
        BY <1>4 DEF ListAndWatch, ListSucceeds, ListExpired, ListFails, WatchOpens, WatchExpired, WatchFails,
                    WatchEnds, HandleBookmark, WatchListOpens, InitialEventsEnd, WatchListFails, handler
    <2> QED
        BY <1>2, <1>4, <2>1, ReflectorInv
<1>5. CASE syncWith
    <2>1. told' = told
        BY <1>5 DEF syncWith, handler
    <2> QED
        BY <1>2, <1>5, <2>1, SyncInv
<1>6. CASE HandleEvent
    <2>1. told' = told
        BY <1>6 DEF HandleEvent, handler
    <2> QED
        BY <1>2, <1>6, <2>1, HandleEventInv
<1>7. CASE HandleInitialEvent
    <2>1. told' = told
        BY <1>7 DEF HandleInitialEvent, handler
    <2> QED
        BY <1>2, <1>7, <2>1, InitialEventInv
<1>8. CASE ResyncTimer
    <2>1. told' = told
        BY <1>8 DEF ResyncTimer, handler
    <2> QED
        BY <1>2, <1>8, <2>1, ResyncInv
<1>9. CASE processLoop \/ ProcessFails
    <2>1. PICK i, fault : PopWith(i, fault)
        BY <1>9 DEF processLoop, ProcessFails
    <2> QED
        BY <1>1, <2>1, PopInv DEF NotBack
<1>10. CASE Evict \/ syncKeys
    <2>1. IInv' /\ lastRV' = lastRV /\ told' = told
        BY <1>10, MemcachedInv
    <2> QED
        BY <1>1, <1>2, <2>1
<1>11. CASE Restart
    BY <1>11, RestartInv DEF NotBack
<1>12. CASE UNCHANGED vars
    <2> USE <1>12 DEF vars, server, refl, store, handler, options
    <2>1. ServerOk' /\ ReflectorOk' /\ StoreOk' /\ (fifo \in FifoType)' /\ (crashes \in Nat)' /\ Forward'
        BY DEF IInv, TypeInv, ServerOk, ReflectorOk, StoreOk, Forward
    <2>2. HandlerFollowsStore' /\ CachedIsListed' /\ Ordered'
        BY DEF IInv, HandlerFollowsStore, CachedIsListed, ListKeys, Ordered
    <2> QED
        BY <1>1, <1>2, <2>1, <2>2 DEF IInv, TypeInv
<1> QED
    BY <1>3, <1>4, <1>5, <1>6, <1>7, <1>8, <1>9, <1>10, <1>11, <1>12 DEF Next, ReflectorNext

LEMMA InvAlways == Spec => []IInv
<1>1. IInv /\ [Next]_vars => IInv'
    BY NextInv
<1> QED
    BY <1>1, InitInv, PTL DEF Spec

(* With a store in memory the handler is sent what the store holds, whatever *)
(* fails, expires or is restarted, but for deletions that come as          *)
(* tombstones (processDeltas and toResourceEventHandlerFuncs).             *)
THEOREM HandlerSeesTheStore == Spec => []HandlerFollowsStore
<1>1. IInv => HandlerFollowsStore
    BY DEF IInv
<1> QED
    BY <1>1, InvAlways, PTL

(* MemcachedStore tracks the key of all it has cached, whichever of its    *)
(* operations fail and whatever is evicted, until the first restart, but   *)
(* for an object whose Add was done and not answered.                      *)
THEOREM NoKeyForgotten == Spec => []CachedIsListed
<1>1. IInv => CachedIsListed
    BY DEF IInv
<1> QED
    BY <1>1, InvAlways, PTL

(* The Reflector never goes back to a version older than one it has seen   *)
(* (relistResourceVersion), and the event handler is never sent an older   *)
(* version of an object than the one before.                               *)
THEOREM VersionsGoForward == Spec => NeverBackInTime
<1>1. IInv /\ [Next]_vars => [crashes' = crashes =>
         /\ lastRV' >= lastRV
         /\ ~useWatchList /\ ~Memcached =>
                \A k \in Keys : told'[k] # 0 => told'[k] >= told[k]]_vars
    BY NextInv DEF NotBack
<1> QED
    BY <1>1, InvAlways, PTL DEF Spec, NeverBackInTime

=============================================================================
