---------------------- MODULE OpinionatedWatcherProofs -----------------------
(***************************************************************************)
(* The OpinionatedWatcher lets no object go that it has marked before      *)
(* DeleteFunc has succeeded, and marks none as added before AddFunc has.   *)
(***************************************************************************)
EXTENDS OpinionatedWatcher, SequenceTheorems, FiniteSetTheorems, WellFoundedInduction, TLAPS

Finalizers == Foreign \cup Ours

Versions == [rv: Nat, gen: Nat, deleted: BOOLEAN, fins: Seq(Finalizers), live: BOOLEAN]

EventActions == {"CREATE", "UPDATE", "DELETE"}

Steps == FinalizerOps \cup UserFuncs

Ids == 1..Len(log)

Requests == [action: EventActions, id: Ids, src: Ids, shared: BOOLEAN, attempt: Nat, state: {{}}]

CallsAt(pcs) ==
    [pc: pcs, action: EventActions, id: Ids, src: Ids, shared: BOOLEAN,
     attempt: Nat, state: {{}}, tries: Nat, stale: BOOLEAN,
     fins: Seq(Finalizers), oldFins: Seq(Finalizers)]

Handlings == CallsAt(Steps)

ObjectOk ==
    /\ log \in Seq(Versions) /\ mem \in Seq(Versions)
    /\ Len(mem) = Len(log) /\ Len(log) # 0

InformerOk == seen \in 0..Len(log) /\ listed \in BOOLEAN /\ watchList \in BOOLEAN

CallsOk == call \in [Procs -> {Idle} \cup Handlings]

RetriesOk == retries \subseteq Requests

(* A resource version is that of one version of the object.  A copy has    *)
(* the finalizers of its version, or has kept those of an earlier one      *)
(* where that has none.                                                    *)
Copied(m) == m.rv \in Ids /\ (m.fins = log[m.rv].fins \/ log[m.rv].fins = <<>>)

CopiesOk ==
    /\ \A i \in Ids : log[i].rv = i
    /\ \A i \in Ids : Copied(mem[i])

TypeInv == ObjectOk /\ InformerOk /\ CallsOk /\ RetriesOk /\ CopiesOk

(* Before AddFunc has succeeded the finalizer is on no version and on no   *)
(* copy, and no call is about to put it there.                             *)
Unadded ==
    /\ \A i \in Ids : ~Contains(log[i].fins, "finalizer") /\ ~Contains(mem[i].fins, "finalizer")
    /\ \A p \in Procs : call[p].pc # "replace"

HasOurs(fins) == Contains(fins, "finalizer") \/ Contains(fins, "pending")

(* What a list has of ours, the object has.                                *)
Behind(fins) ==
    /\ Contains(fins, "finalizer") => Contains(Current.fins, "finalizer")
    /\ HasOurs(fins) => HasOurs(Current.fins)

(* A call that may be executing before DeleteFunc has succeeded.           *)
CallGuarded(c) ==
    c.pc # "idle" =>
        /\ c.pc # "removeFinalizer"
        /\ c.pc \in {"syncFunc", "removePending"} => Contains(Current.fins, "finalizer")
        /\ c.pc = "addFunc" /\ c.action = "CREATE" => HasOurs(Current.fins)

(* Before DeleteFunc has succeeded no version and no copy knows of a       *)
(* finalizer of ours that the object has no more, and no call is about to  *)
(* remove the last one.                                                    *)
Guarded ==
    /\ \A i \in Ids : Behind(log[i].fins) /\ Behind(mem[i].fins)
    /\ \A p \in Procs : CallGuarded(call[p])

IInv == TypeInv /\ (added \/ Unadded) /\ (finished \/ Guarded)

-----------------------------------------------------------------------------
(* Induction over the natural numbers, for sets in place of predicates.    *)

LEMMA LeastNat ==
    ASSUME NEW T, T \subseteq Nat, T # {}
    PROVE  \E n \in T : \A m \in T : n <= m
<1> DEFINE R == OpToRel(<, Nat)
<1>1. IsWellFoundedOn(R, Nat)
    BY NatLessThanWellFounded
<1>2. \A x, y \in Nat : x < y => <<x, y>> \in R
    BY DEF OpToRel
<1> HIDE DEF R
<1>3. PICK n \in T : \A m \in T : ~ (<<m, n>> \in R)
    BY <1>1, WFMin
<1>4. \A m \in T : ~(m < n) /\ m \in Nat /\ n \in Nat
    BY <1>2, <1>3
<1> QED
    BY <1>4, <1>3

LEMMA Induction ==
    ASSUME NEW T, 0 \in T, \A n \in Nat : n \in T => n + 1 \in T
    PROVE  Nat \subseteq T
<1> SUFFICES ASSUME Nat \ T # {} PROVE FALSE
    OBVIOUS
<1>1. Nat \ T \subseteq Nat
    OBVIOUS
<1>2. PICK n \in Nat \ T : \A m \in Nat \ T : n <= m
    BY <1>1, LeastNat
<1>3. n # 0 /\ n - 1 \in Nat /\ (n - 1) + 1 = n /\ ~(n <= n - 1)
    BY <1>2
<1>4. n - 1 \in T
    BY <1>2, <1>3
<1> QED
    BY <1>2, <1>3, <1>4

-----------------------------------------------------------------------------
(* Lists of finalizers.                                                    *)

(* The loop of doRemoveFinalizer: kept[n] is the list after n rounds.      *)
Loop(s, f, kept, n) ==
    /\ kept[0] = <<>>
    /\ \A m \in 1..n : kept[m] = IF s[m] = f THEN kept[m - 1] ELSE Append(kept[m - 1], s[m])

LEMMA LoopRuns ==
    ASSUME NEW s, NEW f, Len(s) \in Nat
    PROVE  \E kept : Loop(s, f, kept, Len(s)) /\ doRemoveFinalizer(s, f) = kept[Len(s)]
<1> DEFINE Body(g) == [n \in 0..Len(s) |->
               IF n = 0 THEN <<>> ELSE IF s[n] = f THEN g[n - 1] ELSE Append(g[n - 1], s[n])]
           kept == CHOOSE g : g = Body(g)
           T == {n \in Nat : \E g : Loop(s, f, g, n)}
<1>1. doRemoveFinalizer(s, f) = kept[Len(s)]
    BY Zenon DEF doRemoveFinalizer
<1>2. 0 \in T
    <2>1. Loop(s, f, [m \in {0} |-> <<>>], 0)
        BY DEF Loop
    <2> QED
        BY <2>1
<1>3. ASSUME NEW n \in Nat, n \in T PROVE n + 1 \in T
    <2>1. PICK g : Loop(s, f, g, n)
        BY <1>3
    <2>2. PICK last : last = IF s[n + 1] = f THEN g[n] ELSE Append(g[n], s[n + 1])
        OBVIOUS
    <2>3. PICK h : h = [m \in 0..(n + 1) |-> IF m = n + 1 THEN last ELSE g[m]]
        OBVIOUS
    <2>4. h[0] = <<>> /\ h[n + 1] = last /\ \A m \in 0..n : h[m] = g[m]
        BY <2>1, <2>3 DEF Loop
    <2>5. ASSUME NEW m \in 1..(n + 1)
          PROVE  h[m] = IF s[m] = f THEN h[m - 1] ELSE Append(h[m - 1], s[m])
        <3>1. CASE m = n + 1
            <4>1. h[m - 1] = g[n]
                BY <2>4, <3>1
            <4> QED
                BY <2>2, <2>4, <3>1, <4>1
        <3>2. CASE m # n + 1
            <4>1. m \in 1..n /\ m \in 0..n /\ m - 1 \in 0..n
                BY <3>2
            <4> QED
                BY <2>1, <2>4, <4>1 DEF Loop
        <3> QED
            BY <3>1, <3>2
    <2> QED
        BY <2>4, <2>5 DEF Loop
<1>4. PICK g : Loop(s, f, g, Len(s))
    <2> HIDE DEF T
    <2>1. Len(s) \in T
        BY <1>2, <1>3, Induction
    <2> QED
        BY <2>1 DEF T
<1>5. PICK h : h = [n \in 0..Len(s) |-> g[n]]
    OBVIOUS
<1>6. h = Body(h)
    <2>1. ASSUME NEW n \in 0..Len(s)
          PROVE  h[n] = IF n = 0 THEN <<>> ELSE IF s[n] = f THEN h[n - 1] ELSE Append(h[n - 1], s[n])
        <3>1. CASE n = 0
            BY <1>4, <1>5, <3>1 DEF Loop
        <3>2. CASE n # 0
            <4>1. n \in 1..Len(s) /\ n - 1 \in 0..Len(s)
                BY <3>2
            <4>2. h[n] = g[n] /\ h[n - 1] = g[n - 1]
                BY <1>5, <4>1
            <4> QED
                BY <1>4, <3>2, <4>1, <4>2 DEF Loop
        <3> QED
            BY <3>1, <3>2
    <2> QED
        BY <1>5, <2>1
<1>7. kept = Body(kept)
    BY <1>6
<1> HIDE DEF kept
<1>8. Loop(s, f, kept, Len(s))
    <2>1. kept[0] = <<>>
        BY <1>7
    <2>2. ASSUME NEW m \in 1..Len(s)
          PROVE  kept[m] = IF s[m] = f THEN kept[m - 1] ELSE Append(kept[m - 1], s[m])
        <3>1. m \in 0..Len(s) /\ m # 0
            OBVIOUS
        <3> QED
            BY <1>7, <3>1
    <2> QED
        BY <2>1, <2>2 DEF Loop
<1> QED
    BY <1>1, <1>8

LEMMA AddedIsContained ==
    ASSUME NEW S, NEW s \in Seq(S), NEW x \in S
    PROVE  Append(s, x) \in Seq(S) /\ \A e : Contains(Append(s, x), e) <=> Contains(s, e) \/ e = x
<1>1. /\ Append(s, x) \in Seq(S) /\ Len(s) \in Nat /\ Len(Append(s, x)) = Len(s) + 1
      /\ \A i \in 1..Len(s) : Append(s, x)[i] = s[i]
      /\ Append(s, x)[Len(s) + 1] = x
    BY AppendProperties, LenProperties
<1>2. 1..(Len(s) + 1) = (1..Len(s)) \cup {Len(s) + 1}
    BY <1>1
<1> QED
    BY <1>1, <1>2 DEF Contains

(* What is left of the list: everything but f.                             *)
LEMMA RemovedIsGone ==
    ASSUME NEW S, NEW s \in Seq(S), NEW f
    PROVE  /\ doRemoveFinalizer(s, f) \in Seq(S)
           /\ \A e : Contains(doRemoveFinalizer(s, f), e) <=> Contains(s, e) /\ e # f
<1>1. Len(s) \in Nat /\ \A i \in 1..Len(s) : s[i] \in S
    BY LenProperties, ElementOfSeq
<1>2. PICK kept : Loop(s, f, kept, Len(s)) /\ doRemoveFinalizer(s, f) = kept[Len(s)]
    BY <1>1, LoopRuns
<1> DEFINE Good(n) == /\ kept[n] \in Seq(S)
                      /\ \A e : Contains(kept[n], e) <=> e # f /\ \E i \in 1..n : s[i] = e
           T == {n \in Nat : n <= Len(s) => Good(n)}
<1>3. 0 \in T
    <2>1. kept[0] = <<>> /\ <<>> \in Seq(S)
        BY <1>2, EmptySeq DEF Loop
    <2>2. \A e : ~Contains(<<>>, e) /\ ~\E i \in 1..0 : s[i] = e
        BY DEF Contains
    <2>3. Good(0)
        BY <2>1, <2>2
    <2> QED
        BY <2>3
<1>4. ASSUME NEW n \in Nat, n \in T PROVE n + 1 \in T
    <2> SUFFICES ASSUME n + 1 <= Len(s) PROVE Good(n + 1)
        OBVIOUS
    <2>1. n + 1 \in 1..Len(s) /\ (n + 1) - 1 = n /\ n <= Len(s)
        BY <1>1
    <2>2. /\ kept[n] \in Seq(S)
          /\ \A e : Contains(kept[n], e) <=> e # f /\ \E i \in 1..n : s[i] = e
        BY <1>4, <2>1
    <2>3. kept[n + 1] = IF s[n + 1] = f THEN kept[n] ELSE Append(kept[n], s[n + 1])
        BY <1>2, <2>1 DEF Loop
    <2>4. \A e : (\E i \in 1..(n + 1) : s[i] = e) <=> (\E i \in 1..n : s[i] = e) \/ s[n + 1] = e
        <3>1. 1..(n + 1) = (1..n) \cup {n + 1}
            OBVIOUS
        <3> QED
            BY <3>1
    <2>5. CASE s[n + 1] = f
        BY <2>2, <2>3, <2>4, <2>5
    <2>6. CASE s[n + 1] # f
        <3>1. PICK k, x : k = kept[n] /\ x = s[n + 1]
            OBVIOUS
        <3>2. k \in Seq(S) /\ x \in S /\ x # f
            BY <1>1, <2>1, <2>2, <2>6, <3>1
        <3>3. Append(k, x) \in Seq(S) /\ \A e : Contains(Append(k, x), e) <=> Contains(k, e) \/ e = x
            BY <3>2, AddedIsContained
        <3>4. kept[n + 1] = Append(k, x)
            BY <2>3, <2>6, <3>1
        <3> QED
            BY <2>2, <2>4, <3>1, <3>2, <3>3, <3>4
    <2> QED
        BY <2>5, <2>6
<1>5. Good(Len(s))
    <2> HIDE DEF T
    <2>1. Len(s) \in T
        BY <1>1, <1>3, <1>4, Induction
    <2> QED
        BY <1>1, <2>1 DEF T
<1> QED
    BY <1>2, <1>5 DEF Contains

(* To take out an element leaves the others in, and adds none.             *)
LEMMA OthersAreKept ==
    ASSUME NEW S, NEW s \in Seq(S), NEW i \in DOMAIN s
    PROVE  /\ RemoveAt(s, i) \in Seq(S)
           /\ \A e : e # s[i] /\ Contains(s, e) => Contains(RemoveAt(s, i), e)
           /\ \A e : Contains(RemoveAt(s, i), e) => Contains(s, e)
<1> DEFINE l == SubSeq(s, 1, i - 1)
           r == SubSeq(s, i + 1, Len(s))
<1>1. Len(s) \in Nat /\ DOMAIN s = 1..Len(s) /\ i \in 1..Len(s) /\ \A k \in 1..Len(s) : s[k] \in S
    BY LenProperties, ElementOfSeq
<1>2. /\ l \in Seq(S) /\ Len(l) = i - 1
      /\ \A k \in 1..(i - 1) : l[k] = s[k]
    <2>1. 1 \in Int /\ i - 1 \in Int /\ \A k \in 1..(i - 1) : s[k] \in S
        BY <1>1
    <2>2. /\ l \in Seq(S) /\ Len(l) = (IF 1 <= i - 1 THEN (i - 1) - 1 + 1 ELSE 0)
          /\ \A k \in 1..((i - 1) - 1 + 1) : l[k] = s[1 + k - 1]
        BY <2>1, SubSeqProperties
    <2> HIDE DEF l
    <2>3. \A k \in 1..(i - 1) : k \in 1..((i - 1) - 1 + 1) /\ 1 + k - 1 = k
        BY <1>1
    <2>4. Len(l) = i - 1
        BY <1>1, <2>2
    <2> QED
        BY <2>2, <2>3, <2>4
<1>3. /\ r \in Seq(S) /\ Len(r) = Len(s) - i
      /\ \A k \in 1..(Len(s) - i) : r[k] = s[i + k]
    <2>1. i + 1 \in Int /\ Len(s) \in Int /\ \A k \in (i + 1)..Len(s) : s[k] \in S
        BY <1>1
    <2>2. /\ r \in Seq(S) /\ Len(r) = (IF i + 1 <= Len(s) THEN Len(s) - (i + 1) + 1 ELSE 0)
          /\ \A k \in 1..(Len(s) - (i + 1) + 1) : r[k] = s[(i + 1) + k - 1]
        BY <2>1, SubSeqProperties
    <2> HIDE DEF r
    <2>3. \A k \in 1..(Len(s) - i) : k \in 1..(Len(s) - (i + 1) + 1) /\ (i + 1) + k - 1 = i + k
        BY <1>1
    <2>4. Len(r) = Len(s) - i
        BY <1>1, <2>2
    <2> QED
        BY <2>2, <2>3, <2>4
<1>4. RemoveAt(s, i) = l \o r
    BY DEF RemoveAt
<1> HIDE DEF l, r
<1>5. /\ l \o r \in Seq(S) /\ Len(l \o r) = Len(s) - 1
      /\ \A k \in 1..(Len(l) + Len(r)) : (l \o r)[k] = IF k <= Len(l) THEN l[k] ELSE r[k - Len(l)]
    <2>1. /\ l \o r \in Seq(S) /\ Len(l \o r) = Len(l) + Len(r)
          /\ \A k \in 1..(Len(l) + Len(r)) : (l \o r)[k] = IF k <= Len(l) THEN l[k] ELSE r[k - Len(l)]
        BY <1>2, <1>3, ConcatProperties, Zenon
    <2>2. Len(l) + Len(r) = Len(s) - 1
        BY <1>1, <1>2, <1>3
    <2> QED
        BY <2>1, <2>2
<1>6. ASSUME NEW e, e # s[i], NEW k \in 1..Len(s), s[k] = e
      PROVE  \E m \in 1..Len(l \o r) : (l \o r)[m] = e
    <2>1. CASE k < i
        <3>1. k \in 1..Len(l \o r) /\ k \in 1..(Len(l) + Len(r)) /\ k <= Len(l) /\ k \in 1..(i - 1)
            BY <1>1, <1>2, <1>3, <1>5, <2>1
        <3>2. (l \o r)[k] = s[k]
            BY <1>2, <1>5, <3>1
        <3> QED
            BY <1>6, <3>1, <3>2
    <2>2. CASE k > i
        <3>1. /\ k - 1 \in 1..Len(l \o r) /\ k - 1 \in 1..(Len(l) + Len(r)) /\ ~(k - 1 <= Len(l))
              /\ (k - 1) - Len(l) = k - i /\ k - i \in 1..(Len(s) - i) /\ i + (k - i) = k
            BY <1>1, <1>2, <1>3, <1>5, <2>2
        <3>2. (l \o r)[k - 1] = r[k - i]
            BY <1>5, <3>1
        <3>3. r[k - i] = s[k]
            BY <1>3, <3>1
        <3> QED
            BY <1>6, <3>1, <3>2, <3>3
    <2> QED
        BY <1>1, <1>6, <2>1, <2>2
<1>7. ASSUME NEW m \in 1..Len(l \o r) PROVE \E k \in 1..Len(s) : s[k] = (l \o r)[m]
    <2>1. CASE m <= Len(l)
        <3>1. m \in 1..(Len(l) + Len(r)) /\ m \in 1..(i - 1) /\ m \in 1..Len(s)
            BY <1>1, <1>2, <1>3, <1>5, <2>1
        <3> QED
            BY <1>2, <1>5, <2>1, <3>1
    <2>2. CASE ~(m <= Len(l))
        <3>1. /\ m \in 1..(Len(l) + Len(r)) /\ m - Len(l) \in 1..(Len(s) - i)
              /\ i + (m - Len(l)) = m + 1 /\ m + 1 \in 1..Len(s)
            BY <1>1, <1>2, <1>3, <1>5, <2>2
        <3>2. (l \o r)[m] = r[m - Len(l)]
            BY <1>5, <2>2, <3>1
        <3>3. r[m - Len(l)] = s[m + 1]
            BY <1>3, <3>1
        <3> QED
            BY <3>1, <3>2, <3>3
    <2> QED
        BY <2>1, <2>2
<1> QED
    BY <1>4, <1>5, <1>6, <1>7 DEF Contains

LEMMA OursMeans ==
    ASSUME NEW v, NEW S, v.fins \in Seq(S)
    PROVE  OursOn(v) <=> HasOurs(v.fins)
<1>1. DOMAIN v.fins = 1..Len(v.fins)
    BY LenProperties
<1> QED
    BY <1>1 DEF OursOn, HasOurs, Ours, ToSet, Contains

(* What the operations of finalizers.go make of a list.                    *)
LEMMA PatchedOk ==
    ASSUME NEW op \in FinalizerOps, NEW s \in Seq(Finalizers)
    PROVE  /\ Patched(op, s) \in Seq(Finalizers)
           /\ Contains(Patched(op, s), "finalizer") => op = "replace" \/ Contains(s, "finalizer")
           /\ op # "removeFinalizer" /\ Contains(s, "finalizer") => Contains(Patched(op, s), "finalizer")
           /\ op \in {"addPending", "replace"} => HasOurs(Patched(op, s))
<1>1. {"finalizer", "pending"} \subseteq Finalizers
    BY DEF Finalizers, Ours
<1>2. /\ doAddFinalizer(s, "pending") \in Seq(Finalizers)
      /\ Contains(doAddFinalizer(s, "pending"), "pending")
      /\ Contains(doAddFinalizer(s, "pending"), "finalizer") <=> Contains(s, "finalizer")
    BY <1>1, AddedIsContained DEF doAddFinalizer
<1>3. /\ \A f : doRemoveFinalizer(s, f) \in Seq(Finalizers)
      /\ \A f, e : Contains(doRemoveFinalizer(s, f), e) <=> Contains(s, e) /\ e # f
    BY RemovedIsGone
<1>4. CASE op = "addPending"
    BY <1>2, <1>4 DEF Patched, HasOurs
<1>5. CASE op = "removeFinalizer"
    BY <1>3, <1>5 DEF Patched
<1>6. CASE op = "removePending"
    BY <1>3, <1>6 DEF Patched
<1>7. CASE op = "replace"
    <2>1. Patched(op, s) = doReplaceFinalizer(s, "pending", "finalizer")
        BY <1>7 DEF Patched
    <2>2. CASE Contains(s, "finalizer")
        BY <1>3, <1>7, <2>1, <2>2 DEF doReplaceFinalizer, HasOurs
    <2>3. CASE ~Contains(s, "finalizer") /\ ~Contains(s, "pending")
        BY <1>2, <1>7, <2>1, <2>3 DEF doReplaceFinalizer, HasOurs
    <2>4. CASE ~Contains(s, "finalizer") /\ Contains(s, "pending")
        <3>1. Len(s) \in Nat /\ \A i \in 1..Len(s) : s[i] \in Finalizers
            BY LenProperties, ElementOfSeq
        <3>2. PICK r : r = [i \in 1..Len(s) |-> IF s[i] = "pending" THEN "finalizer" ELSE s[i]]
            OBVIOUS
        <3>3. r \in [1..Len(s) -> Finalizers]
            BY <1>1, <3>1, <3>2
        <3>4. r \in Seq(Finalizers) /\ Len(r) = Len(s)
            BY <3>1, <3>3
        <3>5. Contains(r, "finalizer")
            BY <2>4, <3>2, <3>4 DEF Contains
        <3>6. Patched(op, s) = r
            BY <2>1, <2>4, <3>2 DEF doReplaceFinalizer, ReplaceAll
        <3> QED
            BY <1>7, <2>4, <3>4, <3>5, <3>6 DEF HasOurs
    <2> QED
        BY <2>2, <2>3, <2>4
<1> QED
    BY <1>4, <1>5, <1>6, <1>7 DEF FinalizerOps

-----------------------------------------------------------------------------
(* What a step other than a crash does.  The API server may make a version *)
(* v; copies stay as they are or are renewed with the current version v.   *)
Renewed(v) ==
    /\ \/ log' = log /\ v = Current
       \/ log' = Append(log, v) /\ v.rv = Len(log) + 1
    /\ mem' \in Seq(Versions) /\ Len(mem') = Len(log')
    /\ \A i \in Ids' : mem'[i] = v \/ (i \in Ids /\ mem'[i] \in {mem[i], Decoded(mem[i], v)})

(* The object keeps what it has of ours.                                   *)
Keeps(v) ==
    /\ Contains(Current.fins, "finalizer") => Contains(v.fins, "finalizer")
    /\ HasOurs(Current.fins) => HasOurs(v.fins)

(* The goroutine p goes on as n.                                           *)
Moves(v, p, n) ==
    /\ Renewed(v)
    /\ call' = [call EXCEPT ![p] = n]
    /\ retries' \subseteq Requests'
    /\ InformerOk'
    /\ added => added'
    /\ Unadded => added' \/ (~Contains(v.fins, "finalizer") /\ n.pc # "replace")
    /\ finished => finished'
    /\ Guarded => finished' \/ (Keeps(v) /\ CallGuarded(n)')

Step == \E v \in Versions, p \in Procs, n \in {Idle} \cup Handlings' : Moves(v, p, n)

LEMMA CurrentIsVersion ==
    ASSUME ObjectOk
    PROVE  /\ Len(log) \in Nat /\ Len(log) \in Ids /\ Current \in Versions
           /\ \A i \in Ids : log[i] \in Versions /\ mem[i] \in Versions
<1>1. Len(log) \in Nat /\ Len(log) # 0 /\ Len(mem) = Len(log)
    BY LenProperties DEF ObjectOk
<1>2. Len(log) \in Ids
    BY <1>1 DEF Ids
<1>3. \A i \in Ids : log[i] \in Versions /\ mem[i] \in Versions
    BY <1>1, ElementOfSeq DEF Ids, ObjectOk
<1> QED
    BY <1>1, <1>2, <1>3 DEF Current

LEMMA VersionsMade ==
    ASSUME ObjectOk, NEW v \in Versions, Renewed(v)
    PROVE  /\ ObjectOk' /\ Current' = v
           /\ Len(log) <= Len(log') /\ Ids \subseteq Ids'
           /\ \A i \in Ids : log'[i] = log[i]
           /\ \A i \in Ids' : i \in Ids \/ (i = v.rv /\ log'[i] = v)
           /\ \A i \in Ids' : \/ mem'[i].rv = v.rv /\ mem'[i].fins = v.fins
                              \/ i \in Ids /\ mem'[i] = mem[i]
                              \/ /\ i \in Ids /\ v.fins = <<>>
                                 /\ mem'[i].rv = v.rv /\ mem'[i].fins = mem[i].fins
<1>1. Len(log) \in Nat /\ Len(log) # 0
    BY CurrentIsVersion DEF ObjectOk
<1>2. \A i \in Ids' : \/ mem'[i].rv = v.rv /\ mem'[i].fins = v.fins
                      \/ i \in Ids /\ mem'[i] = mem[i]
                      \/ /\ i \in Ids /\ v.fins = <<>>
                         /\ mem'[i].rv = v.rv /\ mem'[i].fins = mem[i].fins
    <2>1. ASSUME NEW m \in Versions
          PROVE  \/ Decoded(m, v) = v
                 \/ v.fins = <<>> /\ Decoded(m, v).rv = v.rv /\ Decoded(m, v).fins = m.fins
        BY DEF Decoded, Versions
    <2>2. \A i \in Ids : mem[i] \in Versions
        BY CurrentIsVersion
    <2> QED
        BY <2>1, <2>2 DEF Renewed
<1>3. CASE log' = log /\ v = Current
    BY <1>1, <1>2, <1>3 DEF ObjectOk, Renewed, Current, Ids
<1>4. CASE log' = Append(log, v) /\ v.rv = Len(log) + 1
    <2>1. /\ log' \in Seq(Versions) /\ Len(log') = Len(log) + 1
          /\ \A i \in 1..Len(log) : log'[i] = log[i]
          /\ log'[Len(log) + 1] = v
        BY <1>4, AppendProperties DEF ObjectOk
    <2>2. Ids' = Ids \cup {v.rv}
        BY <1>1, <1>4, <2>1 DEF Ids
    <2> QED
        BY <1>1, <1>2, <1>4, <2>1, <2>2 DEF ObjectOk, Renewed, Current, Ids
<1>5. \/ log' = log /\ v = Current
      \/ log' = Append(log, v) /\ v.rv = Len(log) + 1
    BY DEF Renewed
<1> QED
    BY <1>3, <1>4, <1>5

LEMMA CallsGrow ==
    ASSUME Ids \subseteq Ids'
    PROVE  Requests \subseteq Requests' /\ Handlings \subseteq Handlings'
<1>1. Requests \subseteq Requests'
    BY DEF Requests
<1>2. Handlings \subseteq Handlings'
    BY DEF Handlings, CallsAt
<1> QED
    BY <1>1, <1>2

LEMMA CopiesStay ==
    ASSUME ObjectOk, CopiesOk, NEW v \in Versions, Renewed(v)
    PROVE  CopiesOk'
<1>1. /\ Ids \subseteq Ids' /\ Current' = v
      /\ \A i \in Ids : log'[i] = log[i]
      /\ \A i \in Ids' : i \in Ids \/ (i = v.rv /\ log'[i] = v)
    BY VersionsMade
<1>2. \A i \in Ids' : log'[i].rv = i
    BY <1>1 DEF CopiesOk
<1>3. v.rv \in Ids' /\ log'[v.rv] = v
    <2>1. ObjectOk'
        BY VersionsMade
    <2>2. Len(log') \in Ids' /\ log'[Len(log')] = v
        <3>1. Len(log') \in Nat /\ Len(log') # 0
            BY <2>1, LenProperties DEF ObjectOk
        <3> QED
            BY <1>1, <3>1 DEF Ids, Current
    <2> QED
        BY <1>2, <2>2
<1>4. ASSUME NEW i \in Ids' PROVE Copied(mem[i])'
    <2>1. CASE mem'[i].rv = v.rv /\ mem'[i].fins = v.fins
        BY <1>3, <2>1 DEF Copied
    <2>2. CASE i \in Ids /\ mem'[i] = mem[i]
        <3>1. mem[i].rv \in Ids /\ (mem[i].fins = log[mem[i].rv].fins \/ log[mem[i].rv].fins = <<>>)
            BY <2>2 DEF CopiesOk, Copied
        <3>2. log'[mem[i].rv] = log[mem[i].rv]
            BY <1>1, <3>1
        <3> QED
            BY <1>1, <2>2, <3>1, <3>2 DEF Copied
    <2>3. CASE v.fins = <<>> /\ mem'[i].rv = v.rv
        BY <1>3, <2>3 DEF Copied
    <2> QED
        BY <2>1, <2>2, <2>3, VersionsMade
<1> QED
    BY <1>2, <1>4 DEF CopiesOk

LEMMA StepInv == IInv /\ Step => IInv'
<1> SUFFICES ASSUME IInv, NEW v \in Versions, NEW p \in Procs, NEW n \in {Idle} \cup Handlings',
                    Moves(v, p, n)
             PROVE  IInv'
    BY DEF Step
<1>1. ObjectOk /\ CopiesOk /\ CallsOk /\ Renewed(v)
    BY DEF IInv, TypeInv, Moves
<1>2. /\ ObjectOk' /\ Ids \subseteq Ids' /\ Current' = v
      /\ \A i \in Ids : log'[i] = log[i]
      /\ \A i \in Ids' : i \in Ids \/ log'[i] = v
      /\ \A i \in Ids' : mem'[i].fins = v.fins \/ (i \in Ids /\ mem'[i].fins = mem[i].fins)
    <2>1. \A i \in Ids' : mem'[i].fins = v.fins \/ (i \in Ids /\ mem'[i].fins = mem[i].fins)
        BY <1>1, VersionsMade
    <2> QED
        BY <1>1, <2>1, VersionsMade
<1>3. Handlings \subseteq Handlings'
    BY <1>2, CallsGrow
<1>4. /\ call' \in [Procs -> {Idle} \cup Handlings'] /\ call'[p] = n
      /\ \A q \in Procs \ {p} : call'[q] = call[q]
    BY <1>1, <1>3 DEF Moves, CallsOk
<1>5. TypeInv'
    BY <1>1, <1>2, <1>4, CopiesStay DEF TypeInv, CallsOk, RetriesOk, Moves
<1>6. added' \/ Unadded'
    <2> SUFFICES ASSUME ~added' PROVE Unadded'
        OBVIOUS
    <2>1. Unadded /\ ~Contains(v.fins, "finalizer") /\ n.pc # "replace"
        BY DEF IInv, Moves
    <2>2. ASSUME NEW i \in Ids'
          PROVE  ~Contains(log'[i].fins, "finalizer") /\ ~Contains(mem'[i].fins, "finalizer")
        BY <1>2, <2>1 DEF Unadded
    <2>3. ASSUME NEW q \in Procs PROVE call'[q].pc # "replace"
        BY <1>4, <2>1 DEF Unadded
    <2> QED
        BY <2>2, <2>3 DEF Unadded
<1>7. finished' \/ Guarded'
    <2> SUFFICES ASSUME ~finished' PROVE Guarded'
        OBVIOUS
    <2>1. Guarded /\ Keeps(v) /\ CallGuarded(n)'
        BY DEF IInv, Moves
    <2>2. ASSUME NEW fins, Behind(fins) \/ fins = v.fins PROVE Behind(fins)'
        BY <1>2, <2>1, <2>2 DEF Behind, Keeps
    <2>3. ASSUME NEW i \in Ids' PROVE Behind(log[i].fins)' /\ Behind(mem[i].fins)'
        <3>1. PICK l, m : l = log'[i].fins /\ m = mem'[i].fins
            OBVIOUS
        <3>2. Behind(l) \/ l = v.fins
            BY <1>2, <2>1, <3>1 DEF Guarded
        <3>3. Behind(m) \/ m = v.fins
            BY <1>2, <2>1, <3>1 DEF Guarded
        <3>4. Behind(l)' /\ Behind(m)'
            BY <2>2, <3>2, <3>3
        <3> QED
            BY <3>1, <3>4 DEF Behind
    <2>4. ASSUME NEW q \in Procs PROVE CallGuarded(call[q])'
        <3>1. PICK c : c = call'[q]
            OBVIOUS
        <3>2. CASE q = p
            BY <1>4, <2>1, <3>2 DEF CallGuarded
        <3>3. CASE q # p
            <4>1. c = call[q] /\ CallGuarded(c)
                BY <1>4, <2>1, <3>1, <3>3 DEF Guarded
            <4>2. CallGuarded(c)'
                BY <1>2, <2>1, <4>1 DEF CallGuarded, Keeps
            <4> QED
                BY <3>1, <4>2 DEF CallGuarded
        <3> QED
            BY <3>2, <3>3
    <2> QED
        BY <2>3, <2>4 DEF Guarded
<1> QED
    BY <1>5, <1>6, <1>7 DEF IInv

-----------------------------------------------------------------------------
(* Calls.                                                                  *)

LEMMA GoneTo ==
    ASSUME NEW pcs, NEW c \in CallsAt(pcs), NEW to \in Steps
    PROVE  /\ GoTo(c, to) \in Handlings
           /\ GoTo(c, to).pc = to /\ GoTo(c, to).action = c.action
<1>1. to # "idle"
    BY DEF Steps, FinalizerOps, UserFuncs
<1>2. GoTo(c, to) = [c EXCEPT !.pc = to, !.tries = 0, !.stale = FALSE]
    BY <1>1 DEF GoTo
<1>3. PICK d : d = [c EXCEPT !.pc = to]
    OBVIOUS
<1>4. d \in Handlings /\ d.pc = to /\ d.action = c.action
    BY <1>3 DEF Handlings, CallsAt
<1>5. PICK e : e = [d EXCEPT !.tries = 0]
    OBVIOUS
<1>6. e \in Handlings /\ e.pc = to /\ e.action = c.action
    BY <1>4, <1>5 DEF Handlings, CallsAt
<1>7. PICK g : g = [e EXCEPT !.stale = FALSE]
    OBVIOUS
<1>8. g \in Handlings /\ g.pc = to /\ g.action = c.action
    BY <1>6, <1>7 DEF Handlings, CallsAt
<1>9. GoTo(c, to) = g
    BY <1>2, <1>3, <1>5, <1>7, Zenon
<1> QED
    BY <1>8, <1>9

LEMMA IdleIs == Idle.pc = "idle" /\ \A c : GoTo(c, "idle") = Idle
BY DEF Idle, GoTo

(* Where a call goes after a step that has succeeded: the removal of the   *)
(* finalizer follows DeleteFunc, that of the other one follows it or       *)
(* SyncFunc.                                                               *)
LEMMA NextStepIs ==
    ASSUME NEW c, c.pc \in Steps
    PROVE  /\ NextStep(c)' \in Steps \cup {"idle"}
           /\ NextStep(c)' = "replace" => c.pc = "addFunc"
           /\ NextStep(c)' = "removeFinalizer" => c.pc = "deleteFunc"
           /\ NextStep(c)' = "removePending" => c.pc \in {"deleteFunc", "removeFinalizer", "syncFunc"}
           /\ NextStep(c)' = "addFunc" => c.pc = "addPending"
           /\ NextStep(c)' # "syncFunc"
<1> USE DEF Steps, FinalizerOps, UserFuncs
<1>1. /\ "addFunc" \in Steps /\ "replace" \in Steps /\ "removeFinalizer" \in Steps
      /\ "removePending" \in Steps /\ "deleteFunc" \in Steps /\ "updateFunc" \in Steps
    OBVIOUS
<1>2. CASE c.pc = "addPending"
    BY <1>1, <1>2 DEF NextStep
<1>3. CASE c.pc = "addFunc"
    BY <1>1, <1>3 DEF NextStep
<1>4. CASE c.pc = "replace"
    <2>1. NextStep(c)' \in {"idle", "deleteFunc", "updateFunc"}
        BY <1>4 DEF NextStep, AfterAdd, StartDelete
    <2> QED
        BY <1>1, <2>1
<1>5. CASE c.pc = "deleteFunc"
    BY <1>1, <1>5 DEF NextStep, RemovePending
<1>6. CASE c.pc = "removeFinalizer"
    BY <1>1, <1>6 DEF NextStep, RemovePending
<1>7. CASE c.pc = "syncFunc"
    BY <1>1, <1>7 DEF NextStep, RemovePending
<1>8. CASE c.pc = "updateFunc" \/ c.pc = "removePending"
    BY <1>8 DEF NextStep
<1> QED
    BY <1>2, <1>3, <1>4, <1>5, <1>6, <1>7, <1>8

LEMMA SucceededIs ==
    ASSUME NEW c \in Handlings, NEW n, n = GoTo(c, NextStep(c)')
    PROVE  /\ n \in {Idle} \cup Handlings
           /\ n.pc = "replace" => c.pc = "addFunc"
           /\ /\ c.pc # "deleteFunc" /\ c.pc # "removeFinalizer"
              /\ c.pc = "syncFunc" => Contains(Current.fins, "finalizer")'
              /\ c.pc = "addPending" => HasOurs(Current.fins)'
              => CallGuarded(n)'
<1>1. c.pc \in Steps
    BY DEF Handlings, CallsAt
<1>2. PICK to : to = NextStep(c)'
    OBVIOUS
<1>3. /\ to \in Steps \cup {"idle"}
      /\ to = "replace" => c.pc = "addFunc"
      /\ to = "removeFinalizer" => c.pc = "deleteFunc"
      /\ to = "removePending" => c.pc \in {"deleteFunc", "removeFinalizer", "syncFunc"}
      /\ to = "addFunc" => c.pc = "addPending"
      /\ to # "syncFunc"
    BY <1>1, <1>2, NextStepIs
<1>4. CASE to = "idle"
    <2>1. n = Idle /\ n.pc = "idle"
        BY <1>2, <1>4, IdleIs
    <2> QED
        BY <2>1 DEF CallGuarded
<1>5. CASE to \in Steps
    <2>1. n \in Handlings /\ n.pc = to
        BY <1>2, <1>5, GoneTo DEF Handlings
    <2> QED
        BY <1>3, <2>1 DEF CallGuarded
<1> QED
    BY <1>3, <1>4, <1>5

(* Where a call begins.  SyncFunc is for an object whose copy has the      *)
(* finalizer.                                                              *)
LEMMA BegunOk ==
    ASSUME ObjectOk, NEW q \in Requests
    PROVE  /\ Begin(q) \in {Idle} \cup Handlings
           /\ Begin(q).pc # "replace"
           /\ Guarded => CallGuarded(Begin(q))
<1>1. /\ q.action \in EventActions /\ q.id \in Ids /\ q.src \in Ids /\ q.shared \in BOOLEAN
      /\ q.attempt \in Nat /\ q.state \in {{}}
    BY DEF Requests
<1>2. Obj(q) \in Versions /\ Old(q) \in Versions
    BY <1>1, CurrentIsVersion DEF Obj, Old
<1>3. Obj(q).fins \in Seq(Finalizers) /\ Old(q).fins \in Seq(Finalizers) /\ <<>> \in Seq(Finalizers)
    BY <1>2, EmptySeq DEF Versions
<1>4. (IF q.action = "CREATE" THEN <<>> ELSE Old(q).fins) \in Seq(Finalizers)
    BY <1>3
<1>5. PICK c : c = Started(q)
    OBVIOUS
<1>6. /\ c \in CallsAt({"start"}) /\ c.action = q.action /\ c.id = q.id /\ c.fins = Obj(q).fins
    BY <1>1, <1>3, <1>4, <1>5 DEF Started, CallsAt
<1>7. Has(c, "finalizer") => Contains(mem[q.id].fins, "finalizer")
    <2>1. PICK s \in Seq(Finalizers) : s = Obj(q).fins
        BY <1>3
    <2>2. newFinalizers(c) = Overlay(s, s)
        BY <1>6, <2>1 DEF newFinalizers, Obj
    <2>3. Overlay(s, s) = s
        <3>1. DOMAIN s = 1..Len(s) /\ s = [i \in DOMAIN s |-> s[i]]
            BY LenProperties
        <3> QED
            BY <3>1 DEF Overlay
    <2> QED
        BY <2>1, <2>2, <2>3 DEF Has, Obj
<1>8. PICK to : /\ Begin(q) = GoTo(c, to)
                /\ to \in {"idle", "deleteFunc", "syncFunc", "addPending", "addFunc", "updateFunc"}
                /\ to = "syncFunc" => Has(c, "finalizer")
                /\ to = "addFunc" => c.action # "CREATE"
    <2>1. CASE q.action = "CREATE"
        <3>1. Begin(q) = GoTo(c, StartAdd(c))
            BY <1>5, <1>6, <2>1 DEF Begin
        <3>2. /\ StartAdd(c) \in {"idle", "deleteFunc", "syncFunc", "addPending"}
              /\ StartAdd(c) = "syncFunc" => Has(c, "finalizer")
            BY DEF StartAdd, StartDelete
        <3> QED
            BY <3>1, <3>2
    <2>2. CASE q.action = "UPDATE"
        <3>1. Begin(q) = GoTo(c, StartUpdate(c))
            BY <1>5, <1>6, <2>2 DEF Begin
        <3>2. StartUpdate(c) \in {"idle", "deleteFunc", "addFunc", "updateFunc"}
            BY DEF StartUpdate, AfterAdd, StartDelete
        <3> QED
            BY <1>6, <2>2, <3>1, <3>2
    <2>3. CASE q.action = "DELETE"
        <3>1. Begin(q) = Idle
            BY <1>5, <1>6, <2>3 DEF Begin
        <3> QED
            BY <3>1, IdleIs
    <2> QED
        BY <1>1, <2>1, <2>2, <2>3 DEF EventActions
<1>9. CASE to = "idle"
    <2>1. Begin(q) = Idle /\ Begin(q).pc = "idle"
        BY <1>8, <1>9, IdleIs
    <2> QED
        BY <2>1 DEF CallGuarded
<1>10. CASE to # "idle"
    <2>1. to \in Steps /\ to # "removeFinalizer" /\ to # "removePending" /\ to # "replace"
        BY <1>8, <1>10 DEF Steps, FinalizerOps, UserFuncs
    <2>2. Begin(q) \in Handlings /\ Begin(q).pc = to /\ Begin(q).action = c.action
        BY <1>6, <1>8, <2>1, GoneTo
    <2>3. Guarded /\ to = "syncFunc" => Contains(Current.fins, "finalizer")
        BY <1>1, <1>7, <1>8 DEF Guarded, Behind
    <2> QED
        BY <1>8, <2>1, <2>2, <2>3 DEF CallGuarded
<1> QED
    BY <1>9, <1>10

-----------------------------------------------------------------------------
(* The steps.                                                              *)

(* A step that changes neither the object nor a copy.                      *)
LEMMA QuietInv ==
    ASSUME IInv, NEW p \in Procs, NEW n \in {Idle} \cup Handlings,
           log' = log, mem' = mem, call' = [call EXCEPT ![p] = n],
           retries' \subseteq Requests, InformerOk',
           added => added', Unadded => added' \/ n.pc # "replace",
           finished => finished', Guarded => finished' \/ CallGuarded(n)
    PROVE  IInv'
<1>1. ObjectOk
    BY DEF IInv, TypeInv
<1>2. PICK v \in Versions : v = Current
    BY <1>1, CurrentIsVersion
<1>3. Renewed(v)
    BY <1>1, <1>2 DEF Renewed, ObjectOk, Ids
<1>4. Requests' = Requests /\ Handlings' = Handlings
    BY DEF Requests, Handlings, CallsAt, Ids
<1>5. Unadded => ~Contains(v.fins, "finalizer")
    BY <1>1, <1>2, CurrentIsVersion DEF Unadded, Current
<1>6. Keeps(v) /\ (CallGuarded(n) => CallGuarded(n)')
    BY <1>2 DEF Keeps, CallGuarded, Current
<1>7. Moves(v, p, n)
    BY <1>3, <1>4, <1>5, <1>6 DEF Moves
<1>8. Step
    BY <1>4, <1>7 DEF Step
<1> QED
    BY <1>8, StepInv

LEMMA FailOk ==
    ASSUME RetriesOk, NEW p \in Procs, NEW c \in Handlings, Fail(p, c)
    PROVE  call' = [call EXCEPT ![p] = Idle] /\ retries' \subseteq Requests
<1>1. c.attempt \in Nat
    BY DEF Handlings, CallsAt
<1>2. PICK attempt \in Nat : retries' \subseteq retries \cup {Queued(c, attempt)}
    <2> DEFINE a == IF p = "handler" THEN 0 ELSE c.attempt + 1
    <2>1. a \in Nat
        BY <1>1
    <2>2. retries' \subseteq retries \cup {Queued(c, a)}
        BY DEF Fail
    <2> QED
        BY <2>1, <2>2
<1>3. Queued(c, attempt) \in Requests
    BY DEF Handlings, CallsAt, Queued, Requests
<1> QED
    BY <1>2, <1>3 DEF RetriesOk, Fail

(* A goroutine that takes a step is in a call; a call that is over is not  *)
(* about to do anything.                                                   *)
LEMMA InACall ==
    ASSUME CallsOk, NEW p \in Procs, call[p].pc # "idle"
    PROVE  call[p] \in Handlings
    BY DEF CallsOk, Idle

LEMMA IdleGuarded == Idle.pc # "replace" /\ CallGuarded(Idle) /\ CallGuarded(Idle)'
BY IdleIs DEF CallGuarded

(* A call fails, and the object stays as it is.                            *)
LEMMA FailInv ==
    ASSUME IInv, NEW p \in Procs, call[p].pc # "idle", Fail(p, call[p]),
           log' = log, mem' = mem, UNCHANGED informer, UNCHANGED history
    PROVE  IInv'
<1>1. PICK c \in Handlings : c = call[p]
    BY InACall DEF IInv, TypeInv
<1>2. call' = [call EXCEPT ![p] = Idle] /\ retries' \subseteq Requests
    BY <1>1, FailOk DEF IInv, TypeInv
<1>3. InformerOk' /\ added' = added /\ finished' = finished
    BY DEF IInv, TypeInv, InformerOk, informer, history
<1>4. PICK n : n = Idle
    OBVIOUS
<1>5. n.pc # "replace" /\ CallGuarded(n)
    BY <1>4, IdleGuarded
<1> QED
    BY <1>2, <1>3, <1>4, <1>5, QuietInv

LEMMA CallFailsInv ==
    ASSUME IInv, NEW p \in Procs, CallFails(p)
    PROVE  IInv'
<1>1. call[p].pc # "idle"
    BY DEF CallFails, UserFuncs, FinalizerOps
<1>2. Fail(p, call[p]) /\ log' = log /\ mem' = mem /\ UNCHANGED informer /\ UNCHANGED history
    BY DEF CallFails, Fault, object
<1> QED
    BY <1>1, <1>2, FailInv

LEMMA FuncOkInv ==
    ASSUME IInv, NEW p \in Procs, FuncOk(p)
    PROVE  IInv'
<1>1. PICK c : /\ c = call[p] /\ c.pc \in UserFuncs
               /\ UNCHANGED <<object, informer, bounds>>
               /\ Succeed(p, GoTo(c, NextStep(c)'))
               /\ added' = (added \/ c.pc = "addFunc")
               /\ finished' = (finished \/ c.pc = "deleteFunc")
    BY DEF FuncOk
<1>2. c \in Handlings
    BY <1>1, InACall DEF IInv, TypeInv, UserFuncs
<1>3. PICK n : n = GoTo(c, NextStep(c)')
    OBVIOUS
<1>4. log' = log /\ mem' = mem /\ call' = [call EXCEPT ![p] = n] /\ retries' = retries
    BY <1>1, <1>3 DEF object, Succeed
<1>5. InformerOk'
    <2>1. seen' = seen /\ listed' = listed /\ watchList' = watchList
        BY <1>1 DEF informer
    <2>2. InformerOk
        BY DEF IInv, TypeInv
    <2> QED
        BY <1>4, <2>1, <2>2 DEF InformerOk
<1>6. /\ n \in {Idle} \cup Handlings
      /\ n.pc = "replace" => c.pc = "addFunc"
      /\ /\ c.pc # "deleteFunc" /\ c.pc # "removeFinalizer"
         /\ c.pc = "syncFunc" => Contains(Current.fins, "finalizer")'
         /\ c.pc = "addPending" => HasOurs(Current.fins)'
         => CallGuarded(n)'
    BY <1>2, <1>3, SucceededIs
<1>7. (Contains(Current.fins, "finalizer"))' = Contains(Current.fins, "finalizer") /\ CallGuarded(n)' = CallGuarded(n)
    BY <1>4 DEF Current, CallGuarded
<1>8. Guarded => finished' \/ CallGuarded(n)
    <2> SUFFICES ASSUME Guarded, c.pc # "deleteFunc" PROVE CallGuarded(n)
        BY <1>1
    <2>1. c.pc = "syncFunc" => Contains(Current.fins, "finalizer")
        BY <1>1 DEF Guarded, CallGuarded
    <2> QED
        BY <1>1, <1>6, <1>7, <2>1 DEF UserFuncs
<1>9. Unadded => added' \/ n.pc # "replace"
    BY <1>1, <1>6
<1>10. retries' \subseteq Requests
    BY <1>4 DEF IInv, TypeInv, RetriesOk
<1>11. (added => added') /\ (finished => finished')
    BY <1>1
<1> QED
    BY <1>4, <1>5, <1>6, <1>8, <1>9, <1>10, <1>11, QuietInv

(* An event is delivered, a retry is taken.                                *)
LEMMA DeliverInv ==
    ASSUME IInv, NEW event \in Requests, NEW list \in BOOLEAN,
           Deliver(event, list, Begin(event)), UNCHANGED history
    PROVE  IInv'
<1>1. /\ log' = log /\ mem' = mem /\ seen' = event.id /\ listed' = list /\ watchList' = watchList
      /\ retries' \subseteq retries /\ call' = [call EXCEPT !["handler"] = Begin(event)]
      /\ added' = added /\ finished' = finished
    BY DEF Deliver, object, history
<1>2. PICK n : n = Begin(event)
    OBVIOUS
<1>3. n \in {Idle} \cup Handlings /\ n.pc # "replace" /\ (Guarded => CallGuarded(n))
    BY <1>2, BegunOk DEF IInv, TypeInv
<1>4. event.id \in 0..Len(log)
    <2>1. event.id \in Ids /\ Len(log) \in Nat
        BY LenProperties DEF Requests, IInv, TypeInv, ObjectOk
    <2> QED
        BY <2>1 DEF Ids
<1>5. InformerOk'
    BY <1>1, <1>4 DEF IInv, TypeInv, InformerOk
<1>6. retries' \subseteq Requests /\ "handler" \in Procs
    BY <1>1 DEF IInv, TypeInv, RetriesOk, Procs
<1> QED
    BY <1>1, <1>2, <1>3, <1>5, <1>6, QuietInv

LEMMA EventIsRequest ==
    ASSUME IInv, NEW action \in EventActions, NEW i \in Ids
    PROVE  EventOf(action, i) \in Requests
<1>1. seen \in 0..Len(log) /\ Len(log) \in Nat
    BY LenProperties DEF IInv, TypeInv, ObjectOk, InformerOk
<1>2. (IF seen = 0 THEN i ELSE seen) \in Ids
    BY <1>1 DEF Ids
<1>3. (IF seen = 0 THEN ~watchList ELSE listed) \in BOOLEAN
    BY DEF IInv, TypeInv, InformerOk
<1> QED
    BY <1>2, <1>3 DEF EventOf, Requests

LEMMA InformerInv == IInv /\ (InformerAdd \/ InformerUpdate \/ InformerRelist) => IInv'
<1> SUFFICES ASSUME IInv, InformerAdd \/ InformerUpdate \/ InformerRelist PROVE IInv'
    OBVIOUS
<1>1. /\ Len(log) \in Ids /\ Len(log) \in Nat /\ seen \in 0..Len(log)
      /\ (seen < Len(log) => seen + 1 \in Ids)
    BY LenProperties DEF IInv, TypeInv, ObjectOk, InformerOk, Ids
<1>2. (~watchList) \in BOOLEAN
    BY DEF IInv, TypeInv, InformerOk
<1>3. \A i \in Ids : EventAction(i) \in EventActions
    <2> SUFFICES ASSUME NEW i \in Ids PROVE EventAction(i) \in EventActions
        OBVIOUS
    <2>1. log[i].live \in BOOLEAN
        BY CurrentIsVersion DEF IInv, TypeInv, Versions
    <2> QED
        BY <2>1 DEF EventAction, EventActions
<1>4. CASE InformerAdd
    <2>1. PICK event \in Requests : event = EventOf("CREATE", Len(log))
        BY <1>1, EventIsRequest DEF EventActions
    <2>2. Deliver(event, ~watchList, Begin(event)) /\ UNCHANGED history
        BY <1>4, <2>1 DEF InformerAdd, List
    <2> QED
        BY <1>2, <2>2, DeliverInv
<1>5. CASE InformerUpdate
    <2>1. seen < Len(log)
        BY <1>5 DEF InformerUpdate, Watch
    <2>2. PICK event \in Requests : event = EventOf(EventAction(seen + 1), seen + 1)
        BY <1>1, <1>3, <2>1, EventIsRequest
    <2>3. Deliver(event, FALSE, Begin(event)) /\ UNCHANGED history
        BY <1>5, <2>2 DEF InformerUpdate, Watch
    <2> QED
        BY <2>3, DeliverInv
<1>6. CASE InformerRelist
    <2>1. PICK event \in Requests : event = EventOf(EventAction(Len(log)), Len(log))
        BY <1>1, <1>3, EventIsRequest
    <2>2. CASE Current.live
        <3>1. Deliver(event, ~watchList, Begin(event)) /\ UNCHANGED history
            BY <1>6, <2>1, <2>2 DEF InformerRelist, Relist
        <3> QED
            BY <1>2, <3>1, DeliverInv
    <2>3. CASE ~Current.live
        <3>1. /\ log' = log /\ mem' = mem /\ seen' = Len(log) /\ listed' = FALSE /\ watchList' = watchList
              /\ call["handler"] = Idle /\ call' = call /\ retries' = retries
              /\ added' = added /\ finished' = finished
            BY <1>6, <2>3 DEF InformerRelist, Relist, object, history
        <3>2. Len(log) \in 0..Len(log) /\ FALSE \in BOOLEAN
            BY <1>1
        <3>3. InformerOk'
            BY <3>1, <3>2, Zenon DEF IInv, TypeInv, InformerOk
        <3>4. call' = [call EXCEPT !["handler"] = Idle] /\ "handler" \in Procs
            BY <3>1 DEF IInv, TypeInv, CallsOk, Procs
        <3>5. PICK n : n = Idle
            OBVIOUS
        <3>6. n \in {Idle} \cup Handlings /\ n.pc # "replace" /\ CallGuarded(n)
            BY <3>5, IdleGuarded
        <3>7. retries' \subseteq Requests
            BY <3>1 DEF IInv, TypeInv, RetriesOk
        <3> QED
            BY <3>1, <3>3, <3>4, <3>5, <3>6, <3>7, QuietInv
    <2> QED
        BY <2>2, <2>3
<1> QED
    BY <1>4, <1>5, <1>6

LEMMA RetryInv == IInv /\ Retry => IInv'
<1> SUFFICES ASSUME IInv, Retry PROVE IInv'
    OBVIOUS
<1>1. PICK r \in retries : TakeRetry(r, Begin(r)) /\ UNCHANGED history
    BY DEF Retry
<1>2. /\ log' = log /\ mem' = mem /\ UNCHANGED informer
      /\ retries' \subseteq retries /\ call' = [call EXCEPT !["retrier"] = Begin(r)]
      /\ added' = added /\ finished' = finished
    BY <1>1 DEF TakeRetry, object, history
<1>3. PICK n : n = Begin(r)
    OBVIOUS
<1>4. n \in {Idle} \cup Handlings /\ n.pc # "replace" /\ (Guarded => CallGuarded(n))
    BY <1>3, BegunOk DEF IInv, TypeInv, RetriesOk
<1>5. InformerOk'
    BY <1>2 DEF IInv, TypeInv, InformerOk, informer
<1>6. retries' \subseteq Requests /\ "retrier" \in Procs
    BY <1>2 DEF IInv, TypeInv, RetriesOk, Procs
<1> QED
    BY <1>2, <1>3, <1>4, <1>5, <1>6, QuietInv

(* After a restart there is the object, and nothing else.                  *)
LEMMA CrashInv == IInv /\ Crash /\ UNCHANGED history => IInv'
<1> SUFFICES ASSUME IInv, Crash, UNCHANGED history PROVE IInv'
    OBVIOUS
<1>1. /\ log' = log /\ mem' = log /\ seen' = 0 /\ listed' = FALSE /\ watchList' = watchList
      /\ call' = [p \in Procs |-> Idle] /\ retries' = {} /\ added' = added /\ finished' = finished
    BY DEF Crash, history
<1>2. ObjectOk' /\ Ids' = Ids
    BY <1>1 DEF IInv, TypeInv, ObjectOk, Ids
<1>3. CopiesOk'
    <2>1. \A i \in Ids : log[i].rv = i
        BY DEF IInv, TypeInv, CopiesOk
    <2> QED
        BY <1>1, <1>2, <2>1 DEF CopiesOk, Copied
<1>4. CallsOk' /\ RetriesOk'
    BY <1>1 DEF CallsOk, RetriesOk
<1>5. InformerOk'
    <2>1. 0 \in 0..Len(log) /\ FALSE \in BOOLEAN
        BY LenProperties DEF IInv, TypeInv, ObjectOk
    <2> QED
        BY <1>1, <2>1, Zenon DEF IInv, TypeInv, InformerOk
<1>6. Unadded => Unadded'
    BY <1>1, <1>2, IdleIs DEF Unadded
<1>7. Guarded => Guarded'
    <2>1. \A q \in Procs : CallGuarded(call[q])'
        BY <1>1, IdleIs DEF CallGuarded
    <2>2. Guarded => \A i \in Ids' : Behind(log[i].fins)' /\ Behind(mem[i].fins)'
        BY <1>1, <1>2 DEF Guarded, Behind, Current
    <2> QED
        BY <2>1, <2>2 DEF Guarded
<1> QED
    BY <1>1, <1>2, <1>3, <1>4, <1>5, <1>6, <1>7 DEF IInv, TypeInv

(* A call stays guarded while the object keeps what it has of ours.        *)
LEMMA GuardedStays ==
    ASSUME NEW c, CallGuarded(c), NEW v, Keeps(v), Current' = v
    PROVE  CallGuarded(c)'
    BY DEF CallGuarded, Keeps

LEMMA NewVersion ==
    ASSUME ObjectOk, NEW gen \in Nat, NEW deleted \in BOOLEAN, NEW fins \in Seq(Finalizers)
    PROVE  /\ Version(gen, deleted, fins) \in Versions
           /\ Version(gen, deleted, fins).fins = fins
           /\ Version(gen, deleted, fins).rv = Len(log) + 1
<1>1. Len(log) + 1 \in Nat
    BY LenProperties DEF ObjectOk
<1>2. (~(deleted /\ fins = <<>>)) \in BOOLEAN
    OBVIOUS
<1> QED
    BY <1>1, <1>2 DEF Version, Versions

(* What the informer has seen stays good.                                  *)
LEMMA InformerStays ==
    ASSUME ObjectOk, InformerOk, UNCHANGED informer, NEW v \in Versions, Renewed(v)
    PROVE  InformerOk'
<1>1. Len(log) \in Nat /\ Len(log') \in Nat /\ Len(log) <= Len(log')
    <2>1. ObjectOk'
        BY VersionsMade
    <2>2. Len(log') \in Nat
        BY <2>1, LenProperties DEF ObjectOk
    <2> QED
        BY <2>2, CurrentIsVersion, VersionsMade
<1>2. seen' = seen /\ listed' = listed /\ watchList' = watchList
    BY DEF informer
<1>3. seen' \in 0..Len(log')
    BY <1>1, <1>2 DEF InformerOk
<1> QED
    BY <1>2, <1>3 DEF InformerOk

(* The API server makes the version v and nothing is decoded.              *)
LEMMA AppendedIsRenewed ==
    ASSUME ObjectOk, NEW v \in Versions, v.rv = Len(log) + 1,
           log' = Append(log, v), mem' = Append(mem, v)
    PROVE  Renewed(v)
<1>1. /\ Len(log) \in Nat /\ Len(mem) = Len(log)
      /\ mem' \in Seq(Versions) /\ Len(mem') = Len(mem) + 1 /\ Len(log') = Len(log) + 1
      /\ \A i \in 1..Len(mem) : mem'[i] = mem[i]
      /\ mem'[Len(mem) + 1] = v
    BY AppendProperties, LenProperties DEF ObjectOk
<1>2. \A i \in Ids' : i \in Ids \/ i = Len(mem) + 1
    BY <1>1 DEF Ids
<1> QED
    BY <1>1, <1>2 DEF Renewed, Ids

(* A copy is renewed with the version v, made by now.                      *)
LEMMA DecodedIsRenewed ==
    ASSUME ObjectOk, NEW v \in Versions, NEW id \in Ids, NEW m \in Seq(Versions),
           \/ log' = log /\ v = Current /\ m = mem
           \/ log' = Append(log, v) /\ v.rv = Len(log) + 1 /\ m = Append(mem, v),
           mem' = [m EXCEPT ![id] = Decoded(mem[id], v)]
    PROVE  Renewed(v)
<1>1. Len(log) \in Nat /\ Len(mem) = Len(log) /\ mem[id] \in Versions
    BY CurrentIsVersion DEF ObjectOk
<1>2. PICK d \in Versions : d = Decoded(mem[id], v)
    BY <1>1 DEF Decoded, Versions
<1>3. /\ Len(m) = Len(log') /\ id \in 1..Len(m)
      /\ \A i \in Ids' : m[i] = v \/ (i \in Ids /\ m[i] = mem[i])
      /\ \A i \in Ids : m[i] = mem[i]
    <2>1. CASE log' = log /\ v = Current /\ m = mem
        BY <1>1, <2>1 DEF Ids
    <2>2. CASE log' = Append(log, v) /\ v.rv = Len(log) + 1 /\ m = Append(mem, v)
        <3>1. /\ Len(m) = Len(mem) + 1 /\ Len(log') = Len(log) + 1
              /\ \A i \in 1..Len(mem) : m[i] = mem[i]
              /\ m[Len(mem) + 1] = v
            BY <2>2, AppendProperties DEF ObjectOk
        <3>2. \A i \in Ids' : i \in Ids \/ i = Len(mem) + 1
            BY <1>1, <3>1 DEF Ids
        <3> QED
            BY <1>1, <3>1, <3>2 DEF Ids
    <2> QED
        BY <2>1, <2>2
<1>4. mem' \in Seq(Versions) /\ Len(mem') = Len(m) /\ \A i \in 1..Len(m) : mem'[i] = IF i = id THEN d ELSE m[i]
    BY <1>2, <1>3, ExceptSeq
<1>5. \A i \in Ids' : mem'[i] = v \/ (i \in Ids /\ mem'[i] \in {mem[i], Decoded(mem[i], v)})
    <2> SUFFICES ASSUME NEW i \in Ids'
                 PROVE  mem'[i] = v \/ (i \in Ids /\ mem'[i] \in {mem[i], Decoded(mem[i], v)})
        OBVIOUS
    <2>1. i \in 1..Len(m)
        BY <1>3 DEF Ids
    <2>2. CASE i = id
        BY <1>2, <1>4, <2>1, <2>2
    <2>3. CASE i # id
        BY <1>3, <1>4, <2>1, <2>3
    <2> QED
        BY <2>2, <2>3
<1> QED
    BY <1>3, <1>4, <1>5 DEF Renewed

(* A change by a user or by another controller.                            *)
LEMMA EnvironmentInv == IInv /\ Environment /\ UNCHANGED history => IInv'
<1> SUFFICES ASSUME IInv, Environment, UNCHANGED history PROVE IInv'
    OBVIOUS
<1>1. ObjectOk /\ InformerOk /\ Current \in Versions /\ Len(log) \in Ids
    BY CurrentIsVersion DEF IInv, TypeInv
<1>2. Current.gen \in Nat /\ Current.deleted \in BOOLEAN /\ Current.fins \in Seq(Finalizers)
    BY <1>1 DEF Versions
<1>3. PICK gen \in Nat, deleted \in BOOLEAN, fins \in Seq(Finalizers) :
        /\ Change(Version(gen, deleted, fins))
        /\ \A e \in Ours : Contains(Current.fins, e) <=> Contains(fins, e)
    <2>1. CASE UserUpdate
        BY <1>2, <2>1 DEF UserUpdate
    <2>2. CASE UserDelete
        <3>1. Current.gen + 1 \in Nat /\ TRUE \in BOOLEAN
            BY <1>2
        <3> QED
            BY <1>2, <2>2, <3>1, Zenon DEF UserDelete
    <2>3. CASE ForeignFinalizerRemoved
        <3>1. PICK i \in DOMAIN Current.fins :
                /\ Current.fins[i] \in Foreign
                /\ Change(Version(Current.gen, Current.deleted, RemoveAt(Current.fins, i)))
            BY <2>3 DEF ForeignFinalizerRemoved
        <3>2. Current.fins[i] \notin Ours
            BY <3>1, FinalizedObjectAssumption DEF Ours
        <3>3. PICK s \in Seq(Finalizers) : s = Current.fins
            BY <1>2
        <3>4. /\ RemoveAt(s, i) \in Seq(Finalizers)
              /\ \A e : e # s[i] /\ Contains(s, e) => Contains(RemoveAt(s, i), e)
              /\ \A e : Contains(RemoveAt(s, i), e) => Contains(s, e)
            BY <3>3, OthersAreKept
        <3>5. \A e \in Ours : Contains(s, e) <=> Contains(RemoveAt(s, i), e)
            BY <3>2, <3>3, <3>4
        <3> QED
            BY <1>2, <3>1, <3>3, <3>4, <3>5
    <2> QED
        BY <2>1, <2>2, <2>3 DEF Environment
<1>4. PICK v : v = Version(gen, deleted, fins)
    OBVIOUS
<1>5. v \in Versions /\ v.fins = fins /\ v.rv = Len(log) + 1
    BY <1>1, <1>4, NewVersion
<1>6. /\ log' = Append(log, v) /\ mem' = Append(mem, v) /\ call' = call /\ retries' = retries
      /\ UNCHANGED informer /\ added' = added /\ finished' = finished
    BY <1>3, <1>4 DEF Change, history
<1>7. Renewed(v)
    BY <1>1, <1>5, <1>6, AppendedIsRenewed
<1>8. InformerOk' /\ Current' = v /\ Requests \subseteq Requests' /\ Handlings \subseteq Handlings'
    BY <1>1, <1>5, <1>6, <1>7, InformerStays, VersionsMade, CallsGrow
<1>9. \A e \in {"finalizer", "pending"} : Contains(Current.fins, e) <=> Contains(v.fins, e)
    BY <1>3, <1>5 DEF Ours
<1>10. Keeps(v) /\ (Unadded => ~Contains(v.fins, "finalizer"))
    BY <1>1, <1>9 DEF Keeps, HasOurs, Unadded, Current
<1>11. PICK n : n = call["handler"]
    OBVIOUS
<1>12. n \in {Idle} \cup Handlings' /\ call' = [call EXCEPT !["handler"] = n] /\ "handler" \in Procs
    BY <1>6, <1>8, <1>11 DEF IInv, TypeInv, CallsOk, Procs
<1>13. Guarded => CallGuarded(n)'
    <2> SUFFICES ASSUME Guarded PROVE CallGuarded(n)'
        OBVIOUS
    <2>1. CallGuarded(n)
        BY <1>11, <1>12 DEF Guarded
    <2> QED
        BY <1>8, <1>10, <2>1, GuardedStays
<1>14. Unadded => n.pc # "replace"
    BY <1>11, <1>12 DEF Unadded
<1>15. retries' \subseteq Requests'
    BY <1>6, <1>8 DEF IInv, TypeInv, RetriesOk
<1>16. Moves(v, "handler", n)
    BY <1>6, <1>7, <1>8, <1>10, <1>12, <1>13, <1>14, <1>15 DEF Moves
<1>17. Step
    BY <1>5, <1>12, <1>16 DEF Step
<1> QED
    BY <1>17, StepInv

(* A call that is where it was, with another count of its tries.           *)
LEMMA RetriedIs ==
    ASSUME NEW c \in Handlings, NEW stale \in BOOLEAN, NEW tries \in Nat,
           NEW n, n = [c EXCEPT !.stale = stale, !.tries = tries]
    PROVE  /\ n \in Handlings /\ n.pc = c.pc /\ n.action = c.action
<1>1. PICK d : d = [c EXCEPT !.stale = stale]
    OBVIOUS
<1>2. d \in Handlings /\ d.pc = c.pc /\ d.action = c.action
    BY <1>1 DEF Handlings, CallsAt
<1>3. PICK e : e = [d EXCEPT !.tries = tries]
    OBVIOUS
<1>4. e \in Handlings /\ e.pc = c.pc /\ e.action = c.action
    BY <1>2, <1>3 DEF Handlings, CallsAt
<1>5. n = e
    BY <1>1, <1>3, Zenon
<1> QED
    BY <1>4, <1>5

(* GetInto after a conflict.                                               *)
LEMMA GetIntoInv ==
    ASSUME IInv, NEW p \in Procs, GetInto(p), UNCHANGED history
    PROVE  IInv'
<1>1. ObjectOk /\ InformerOk /\ CallsOk /\ RetriesOk
    BY DEF IInv, TypeInv
<1>2. PICK c \in Handlings : c = call[p]
    BY <1>1, InACall DEF GetInto
<1>3. CASE ~Current.live
    <2>1. /\ call[p].pc # "idle" /\ Fail(p, call[p]) /\ log' = log /\ mem' = mem
          /\ UNCHANGED informer
        BY <1>3 DEF GetInto, object
    <2> QED
        BY <2>1, FailInv
<1>4. CASE Current.live
    <2>1. /\ mem' = [mem EXCEPT ![c.id] = Decoded(mem[c.id], Current)] /\ log' = log /\ retries' = retries
          /\ call' = [call EXCEPT ![p].stale = FALSE, ![p].tries = @ + 1]
          /\ UNCHANGED informer /\ added' = added /\ finished' = finished
        BY <1>2, <1>4 DEF GetInto, Obj, history
    <2>2. PICK v \in Versions : v = Current
        BY <1>1, CurrentIsVersion
    <2>3. c.id \in Ids /\ c.tries + 1 \in Nat
        BY <1>2 DEF Handlings, CallsAt
    <2>4. Renewed(v)
        BY <1>1, <2>1, <2>2, <2>3, DecodedIsRenewed DEF ObjectOk
    <2>5. PICK n : n = [c EXCEPT !.stale = FALSE, !.tries = c.tries + 1]
        OBVIOUS
    <2>6. n \in Handlings /\ n.pc = c.pc /\ n.action = c.action
        <3>1. PICK tries \in Nat : tries = c.tries + 1
            BY <2>3
        <3>2. n = [c EXCEPT !.stale = FALSE, !.tries = tries]
            BY <2>5, <3>1
        <3> QED
            BY <3>2, RetriedIs
    <2>7. call' = [call EXCEPT ![p] = n]
        BY <1>1, <1>2, <2>1, <2>5 DEF CallsOk
    <2>8. InformerOk' /\ Current' = v /\ Requests \subseteq Requests' /\ Handlings \subseteq Handlings'
        BY <1>1, <2>1, <2>4, InformerStays, VersionsMade, CallsGrow
    <2>9. Keeps(v)
        BY <2>2 DEF Keeps
    <2>10. Unadded => ~Contains(v.fins, "finalizer") /\ n.pc # "replace"
        BY <1>1, <1>2, <2>2, <2>6, CurrentIsVersion DEF Unadded, Current
    <2>11. Guarded => CallGuarded(n)'
        <3> SUFFICES ASSUME Guarded PROVE CallGuarded(n)'
            OBVIOUS
        <3>1. CallGuarded(c)
            BY <1>2 DEF Guarded
        <3>2. CallGuarded(c)'
            BY <2>8, <2>9, <3>1, GuardedStays
        <3> QED
            BY <2>6, <3>2 DEF CallGuarded
    <2>12. retries' \subseteq Requests'
        BY <1>1, <2>1, <2>8 DEF RetriesOk
    <2>13. Moves(v, p, n)
        BY <2>1, <2>4, <2>7, <2>8, <2>9, <2>10, <2>11, <2>12 DEF Moves
    <2>14. Step
        BY <2>6, <2>8, <2>13 DEF Step
    <2> QED
        BY <2>14, StepInv
<1> QED
    BY <1>3, <1>4

(* The operations of finalizers.go.  A patch applies only to the version   *)
(* that the copy has, so that what the operation makes of the copy's list  *)
(* is what it makes of the object's.                                       *)
LEMMA PatchInv ==
    ASSUME IInv, NEW p \in Procs, PatchFinalizer(p)
    PROVE  IInv'
<1>1. ObjectOk /\ InformerOk /\ CallsOk /\ RetriesOk /\ CopiesOk
    BY DEF IInv, TypeInv
<1>2. PICK c : c = call[p] /\ c.pc \in FinalizerOps /\ PatchInto(p, Patched(c.pc, Obj(c).fins), GoTo(c, NextStep(c)'))
    BY DEF PatchFinalizer
<1>3. c \in Handlings /\ c.pc # "idle" /\ added' = added /\ finished' = finished /\ UNCHANGED history
    <2>1. c.pc # "idle"
        BY <1>2 DEF FinalizerOps
    <2> QED
        BY <1>1, <1>2, <2>1, InACall DEF PatchFinalizer, history
<1>4. c.id \in Ids /\ mem[c.id] \in Versions /\ Current \in Versions /\ Len(log) \in Ids
    BY <1>1, <1>3, CurrentIsVersion DEF Handlings, CallsAt
<1>5. PICK s \in Seq(Finalizers) : s = mem[c.id].fins
    BY <1>4 DEF Versions
<1>6. PICK new : new = Patched(c.pc, s)
    OBVIOUS
<1>7. /\ new \in Seq(Finalizers)
      /\ Contains(new, "finalizer") => c.pc = "replace" \/ Contains(s, "finalizer")
      /\ c.pc # "removeFinalizer" /\ Contains(s, "finalizer") => Contains(new, "finalizer")
      /\ c.pc \in {"addPending", "replace"} => HasOurs(new)
    BY <1>2, <1>6, PatchedOk
<1>8. PICK v, n : v = Version(Current.gen, Current.deleted, new) /\ n = GoTo(c, NextStep(c)')
    OBVIOUS
<1>9. v \in Versions /\ v.fins = new /\ v.rv = Len(log) + 1
    BY <1>1, <1>4, <1>7, <1>8, NewVersion DEF Versions
<1>10. PatchInto(p, new, n)
    BY <1>2, <1>5, <1>6, <1>8 DEF Obj
<1>11. UNCHANGED informer
    BY <1>10 DEF PatchInto
<1>12. \/ /\ log' = log /\ mem' = mem
          /\ \/ new = s /\ Succeed(p, n)
             \/ Fail(p, c)
             \/ call' = [call EXCEPT ![p].stale = TRUE] /\ retries' = retries
       \/ /\ mem[c.id].rv = Current.rv
          /\ log' = Append(log, v)
          /\ \/ mem' = [Append(mem, v) EXCEPT ![c.id] = Decoded(mem[c.id], v)] /\ Succeed(p, n)
             \/ mem' = Append(mem, v) /\ Fail(p, c)
    BY <1>2, <1>5, <1>8, <1>10 DEF PatchInto, object, Obj
<1>13. /\ n \in {Idle} \cup Handlings
       /\ n.pc # "replace"
       /\ /\ c.pc # "deleteFunc" /\ c.pc # "removeFinalizer"
          /\ c.pc = "syncFunc" => Contains(Current.fins, "finalizer")'
          /\ c.pc = "addPending" => HasOurs(Current.fins)'
          => CallGuarded(n)'
    <2>1. c.pc # "addFunc"
        BY <1>2 DEF FinalizerOps
    <2> QED
        BY <1>3, <1>8, <2>1, SucceededIs
<1>14. c.pc # "deleteFunc" /\ c.pc # "syncFunc"
    BY <1>2 DEF FinalizerOps
<1>15. CASE log' = log /\ mem' = mem /\ new = s /\ Succeed(p, n)
    <2>1. call' = [call EXCEPT ![p] = n] /\ retries' \subseteq Requests
        BY <1>1, <1>15 DEF Succeed, RetriesOk
    <2>2. InformerOk'
        BY <1>1, <1>11, <1>15 DEF InformerOk, informer
    <2>3. Guarded => CallGuarded(n)
        <3> SUFFICES ASSUME Guarded PROVE CallGuarded(n)
            OBVIOUS
        <3>1. c.pc # "removeFinalizer"
            BY <1>2, <1>3 DEF Guarded, CallGuarded
        <3>2. c.pc = "addPending" => HasOurs(Current.fins)
            BY <1>4, <1>5, <1>7, <1>15 DEF Guarded, Behind
        <3>3. Current' = Current
            BY <1>15 DEF Current
        <3>4. CallGuarded(n)'
            BY <1>13, <1>14, <3>1, <3>2, <3>3
        <3> QED
            BY <3>3, <3>4 DEF CallGuarded
    <2> QED
        BY <1>3, <1>13, <1>15, <2>1, <2>2, <2>3, QuietInv
<1>16. CASE log' = log /\ mem' = mem /\ Fail(p, c)
    BY <1>2, <1>3, <1>11, <1>16, FailInv
<1>17. CASE log' = log /\ mem' = mem /\ call' = [call EXCEPT ![p].stale = TRUE] /\ retries' = retries
    <2>1. PICK d : d = [c EXCEPT !.stale = TRUE]
        OBVIOUS
    <2>2. d \in Handlings /\ d.pc = c.pc /\ d.action = c.action
        BY <1>3, <2>1 DEF Handlings, CallsAt
    <2>3. call' = [call EXCEPT ![p] = d]
        BY <1>1, <1>2, <1>17, <2>1 DEF CallsOk
    <2>4. InformerOk' /\ retries' \subseteq Requests
        BY <1>1, <1>11, <1>17 DEF InformerOk, informer, RetriesOk
    <2>5. Unadded => d.pc # "replace"
        BY <1>2, <2>2 DEF Unadded
    <2>6. Guarded => CallGuarded(d)
        BY <1>2, <2>2 DEF Guarded, CallGuarded
    <2> QED
        BY <1>3, <1>17, <2>2, <2>3, <2>4, <2>5, <2>6, QuietInv
<1>18. CASE /\ mem[c.id].rv = Current.rv
            /\ log' = Append(log, v)
            /\ \/ mem' = [Append(mem, v) EXCEPT ![c.id] = Decoded(mem[c.id], v)] /\ Succeed(p, n)
               \/ mem' = Append(mem, v) /\ Fail(p, c)
    <2>1. s = Current.fins \/ Current.fins = <<>>
        <3>1. Current.rv = Len(log)
            BY <1>1, <1>4 DEF CopiesOk, Current
        <3>2. s = log[mem[c.id].rv].fins \/ log[mem[c.id].rv].fins = <<>>
            BY <1>1, <1>4, <1>5 DEF CopiesOk, Copied
        <3> QED
            BY <1>18, <3>1, <3>2 DEF Current
    <2>2. Unadded => ~Contains(v.fins, "finalizer")
        BY <1>2, <1>4, <1>5, <1>7, <1>9 DEF Unadded
    <2>3. ASSUME Guarded
          PROVE  Keeps(v) /\ c.pc # "removeFinalizer"
        <3>1. /\ c.pc # "removeFinalizer"
              /\ c.pc = "removePending" => Contains(Current.fins, "finalizer")
            BY <1>2, <1>3, <2>3 DEF Guarded, CallGuarded
        <3>2. ~Contains(<<>>, "finalizer") /\ ~Contains(<<>>, "pending")
            BY DEF Contains
        <3>3. Contains(Current.fins, "finalizer") => Contains(v.fins, "finalizer")
            BY <1>7, <1>9, <2>1, <3>1, <3>2
        <3>4. HasOurs(Current.fins) => HasOurs(v.fins)
            BY <1>2, <1>7, <1>9, <3>1, <3>3 DEF HasOurs, FinalizerOps
        <3> QED
            BY <3>1, <3>3, <3>4 DEF Keeps
    <2>4. CASE mem' = [Append(mem, v) EXCEPT ![c.id] = Decoded(mem[c.id], v)] /\ Succeed(p, n)
        <3>1. PICK m \in Seq(Versions) : m = Append(mem, v)
            BY <1>1, <1>9, AppendProperties DEF ObjectOk
        <3>2. Renewed(v)
            BY <1>1, <1>4, <1>9, <1>18, <2>4, <3>1, DecodedIsRenewed
        <3>3. InformerOk' /\ Current' = v /\ Requests \subseteq Requests' /\ Handlings \subseteq Handlings'
            BY <1>1, <1>9, <1>11, <3>2, InformerStays, VersionsMade, CallsGrow
        <3>4. call' = [call EXCEPT ![p] = n] /\ retries' \subseteq Requests' /\ n \in {Idle} \cup Handlings'
            BY <1>1, <1>13, <2>4, <3>3 DEF Succeed, RetriesOk
        <3>5. Guarded => Keeps(v) /\ CallGuarded(n)'
            <4> SUFFICES ASSUME Guarded PROVE Keeps(v) /\ CallGuarded(n)'
                OBVIOUS
            <4>1. c.pc = "addPending" => HasOurs(Current.fins)'
                BY <1>7, <1>9, <3>3 DEF HasOurs
            <4> QED
                BY <1>13, <1>14, <2>3, <4>1
        <3>6. Moves(v, p, n)
            BY <1>3, <1>13, <2>2, <3>2, <3>3, <3>4, <3>5 DEF Moves
        <3>7. Step
            BY <1>9, <3>4, <3>6 DEF Step
        <3> QED
            BY <3>7, StepInv
    <2>5. CASE mem' = Append(mem, v) /\ Fail(p, c)
        <3>1. Renewed(v)
            BY <1>1, <1>9, <1>18, <2>5, AppendedIsRenewed
        <3>2. InformerOk' /\ Current' = v /\ Requests \subseteq Requests' /\ Handlings \subseteq Handlings'
            BY <1>1, <1>9, <1>11, <3>1, InformerStays, VersionsMade, CallsGrow
        <3>3. call' = [call EXCEPT ![p] = Idle] /\ retries' \subseteq Requests
            BY <1>1, <1>3, <2>5, FailOk
        <3>4. PICK i : i = Idle
            OBVIOUS
        <3>5. i.pc # "replace" /\ CallGuarded(i)' /\ i \in {Idle} \cup Handlings'
            BY <3>4, IdleGuarded DEF CallGuarded
        <3>6. Moves(v, p, i)
            BY <1>3, <2>2, <2>3, <3>1, <3>2, <3>3, <3>4, <3>5 DEF Moves
        <3>7. Step
            BY <1>9, <3>5, <3>6 DEF Step
        <3> QED
            BY <3>7, StepInv
    <2> QED
        BY <1>18, <2>4, <2>5
<1> QED
    BY <1>12, <1>15, <1>16, <1>17, <1>18

-----------------------------------------------------------------------------
LEMMA InitInv == WatcherInit => IInv
<1> SUFFICES ASSUME WatcherInit PROVE IInv
    OBVIOUS
<1>1. PICK fins : /\ \E f \in SUBSET Foreign : fins \in SetToSeqs(f)
                  /\ log = <<[rv |-> 1, gen |-> 1, deleted |-> FALSE, fins |-> fins, live |-> TRUE]>>
    BY DEF WatcherInit, Init
<1>2. fins \in Seq(Foreign)
    <2>0. PICK f \in SUBSET Foreign : fins \in SetToSeqs(f)
        BY <1>1
    <2>1. IsFiniteSet(f)
        BY FinalizedObjectAssumption, FS_Subset
    <2>2. Cardinality(f) \in Nat
        BY <2>1, FS_CardinalityType
    <2>3. fins \in [1..Cardinality(f) -> f]
        BY <2>0 DEF SetToSeqs
    <2>4. fins \in Seq(f)
        BY <2>2, <2>3
    <2> QED
        BY <2>4, SeqMonotonic
<1>3. fins \in Seq(Finalizers) /\ ~Contains(fins, "finalizer")
    <2>1. fins \in Seq(Finalizers)
        BY <1>2, SeqMonotonic DEF Finalizers
    <2>2. \A i \in 1..Len(fins) : fins[i] \in Foreign
        BY <1>2, ElementOfSeq
    <2> QED
        BY <2>1, <2>2, FinalizedObjectAssumption DEF Contains
<1>4. PICK v \in Versions : log = <<v>> /\ v.fins = fins /\ v.rv = 1
    <2>1. PICK v : v = [rv |-> 1, gen |-> 1, deleted |-> FALSE, fins |-> fins, live |-> TRUE]
        OBVIOUS
    <2>2. v \in Versions /\ v.fins = fins /\ v.rv = 1
        BY <1>3, <2>1 DEF Versions
    <2> QED
        BY <1>1, <2>1, <2>2
<1>5. log \in Seq(Versions) /\ Len(log) = 1 /\ log[1] = v /\ mem = log
    <2>1. mem = log
        BY DEF WatcherInit, Init
    <2> QED
        BY <1>4, <2>1
<1>6. Ids = {1} /\ Current = v
    BY <1>5 DEF Ids, Current
<1>7. ObjectOk /\ CopiesOk
    BY <1>4, <1>5, <1>6 DEF ObjectOk, CopiesOk, Copied
<1>8. InformerOk
    <2>1. seen = 0 /\ listed = FALSE /\ watchList \in BOOLEAN
        BY FinalizedObjectAssumption DEF WatcherInit, Init
    <2>2. 0 \in 0..Len(log) /\ FALSE \in BOOLEAN
        BY <1>5
    <2> QED
        BY <2>1, <2>2, Zenon DEF InformerOk
<1>9. CallsOk /\ RetriesOk /\ \A p \in Procs : call[p] = Idle
    BY DEF WatcherInit, Init, CallsOk, RetriesOk
<1>10. Unadded
    BY <1>3, <1>4, <1>5, <1>6, <1>9, IdleIs DEF Unadded
<1>11. Guarded
    <2>1. \A p \in Procs : CallGuarded(call[p])
        BY <1>9, IdleIs DEF CallGuarded
    <2>2. \A i \in Ids : Behind(log[i].fins) /\ Behind(mem[i].fins)
        BY <1>5, <1>6 DEF Behind
    <2> QED
        BY <2>1, <2>2 DEF Guarded
<1> QED
    BY <1>7, <1>8, <1>9, <1>10, <1>11 DEF IInv, TypeInv

LEMMA NextInv == IInv /\ [Next]_vars => IInv'
<1> SUFFICES ASSUME IInv, [Next]_vars PROVE IInv'
    OBVIOUS
<1>1. CASE UNCHANGED vars
    <2>1. /\ log' = log /\ mem' = mem /\ seen' = seen /\ listed' = listed /\ watchList' = watchList
          /\ call' = call /\ retries' = retries /\ added' = added /\ finished' = finished
        BY <1>1 DEF vars, object, informer, history
    <2>2. ObjectOk' /\ InformerOk' /\ CallsOk' /\ RetriesOk' /\ CopiesOk'
        BY <2>1 DEF IInv, TypeInv, ObjectOk, InformerOk, CallsOk, RetriesOk, CopiesOk, Copied, Handlings,
                    CallsAt, Requests, Ids
    <2>3. Unadded => Unadded'
        BY <2>1 DEF Unadded, Ids
    <2>4. Guarded => Guarded'
        BY <2>1 DEF Guarded, Ids, Behind, CallGuarded, Current
    <2> QED
        BY <2>1, <2>2, <2>3, <2>4 DEF IInv, TypeInv
<1>2. ASSUME NEW p \in Procs, Proc(p) \/ CallFails(p) PROVE IInv'
    <2>1. CASE FuncOk(p)
        BY <2>1, FuncOkInv
    <2>2. CASE PatchFinalizer(p)
        BY <2>2, PatchInv
    <2>3. CASE GetInto(p) /\ UNCHANGED history
        BY <2>3, GetIntoInv
    <2>4. CASE CallFails(p)
        BY <2>4, CallFailsInv
    <2> QED
        BY <1>2, <2>1, <2>2, <2>3, <2>4 DEF Proc
<1>3. CASE Environment /\ UNCHANGED history
    BY <1>3, EnvironmentInv
<1>4. CASE InformerAdd \/ InformerUpdate \/ InformerRelist
    BY <1>4, InformerInv
<1>5. CASE Retry
    BY <1>5, RetryInv
<1>6. CASE Crash /\ UNCHANGED history
    BY <1>6, CrashInv
<1> QED
    BY <1>1, <1>2, <1>3, <1>4, <1>5, <1>6 DEF Next

LEMMA InvAlways == Spec => []IInv
BY InitInv, NextInv, PTL DEF Spec

(* Once the OpinionatedWatcher has put a finalizer of its own on an object *)
(* the last one comes off only after DeleteFunc has succeeded: for every   *)
(* number of retries, conflicts, faults and crashes, every set of other    *)
(* controllers' finalizers, and both ways of decoding.                     *)
THEOREM ReleasedAfterDeleteFunc == Spec => []FinalizerGuardsDelete
<1>1. IInv => FinalizerGuardsDelete
    <2> SUFFICES ASSUME IInv, Marked, ~OursOn(Current), ~finished PROVE FALSE
        BY DEF FinalizerGuardsDelete
    <2>1. Guarded /\ ObjectOk
        BY DEF IInv, TypeInv
    <2>2. PICK i \in Ids : OursOn(log[i])
        BY DEF Marked, Ids
    <2>3. PICK v \in Versions, u \in Versions : v = log[i] /\ u = Current
        BY <2>1, CurrentIsVersion
    <2>4. (OursOn(v) <=> HasOurs(v.fins)) /\ (OursOn(u) <=> HasOurs(u.fins))
        BY OursMeans DEF Versions
    <2>5. HasOurs(log[i].fins) => HasOurs(Current.fins)
        BY <2>1 DEF Guarded, Behind
    <2> QED
        BY <2>2, <2>3, <2>4, <2>5
<1> QED
    BY <1>1, InvAlways, PTL

(* The finalizer is put on no object before AddFunc has succeeded, and the *)
(* call of Add that calls AddFunc has the object held, also if it was      *)
(* repeated or began with a copy of another version.                       *)
THEOREM FinalizerMarksAdded == Spec => []AddIsGuarded
<1>1. IInv => AddIsGuarded
    <2> SUFFICES ASSUME IInv PROVE AddIsGuarded
        OBVIOUS
    <2>1. ObjectOk /\ Len(log) \in Ids /\ Current \in Versions
        BY CurrentIsVersion DEF IInv, TypeInv
    <2>2. Contains(Current.fins, "finalizer") => added
        BY <2>1 DEF IInv, Unadded, Current
    <2>3. ASSUME NEW p \in Procs, call[p].pc = "addFunc", call[p].action = "CREATE", ~finished
          PROVE  OursOn(Current)
        <3>1. HasOurs(Current.fins)
            BY <2>3 DEF IInv, Guarded, CallGuarded
        <3>2. PICK u \in Versions : u = Current
            BY <2>1
        <3>3. OursOn(u) <=> HasOurs(u.fins)
            BY OursMeans DEF Versions
        <3> QED
            BY <3>1, <3>2, <3>3
    <2> QED
        BY <2>2, <2>3 DEF AddIsGuarded
<1> QED
    BY <1>1, InvAlways, PTL

=============================================================================
