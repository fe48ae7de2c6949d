-------------------------- MODULE ControllerProofs --------------------------
(***************************************************************************)
(* InformerController and the DynamicMultiRunner it runs its informers in. *)
(* The lists of watchers and reconcilers are what their operations promise *)
(* although readers and writers share arrays, and every call that failed   *)
(* waits for its retry exactly once, for any finite sets of watchers and   *)
(* reconcilers and any number of events, attempts and changes.  No         *)
(* Runnable in the list of a running DynamicMultiRunner is forgotten.      *)
(***************************************************************************)
EXTENDS InformerController, DynamicMultiRunner, SequenceTheorems, FiniteSetTheorems,
        WellFoundedInduction, TLAPS

-----------------------------------------------------------------------------
(* The lists.                                                              *)

Values == Watchers \cup Reconcilers \cup {NoItem}

Slices == [array: Nat, off: Nat, len: Nat]

(* The array without cells is the first, and stays so.                     *)
Memory(m) == m \in Seq(Seq(Values)) /\ Len(m) >= 1 /\ m[1] = <<>>

(* s is a window of an array of m.                                         *)
Window(m, s) == s \in Slices /\ s.array \in 1..Len(m) /\ s.off + s.len <= Len(m[s.array])

Once(s) == \A i, j \in 1..Len(s) : s[i] = s[j] => i = j

(* The list l is the sequence r, through the window s.                     *)
Shows(m, s, r, l) ==
    /\ Window(m, s) /\ r \in Seq(Consumers(l)) /\ Once(r)
    /\ s.len = Len(r) /\ \A i \in 1..Len(r) : m[s.array][s.off + i] = r[i]

(* Two windows that have no cell in common, whatever happens to them.      *)
Apart(s, t) == s.array = t.array => s.array = 1

Other(l) == IF l = "watchers" THEN "reconcilers" ELSE "watchers"

(* s is a record of the lists, as in Added.                                *)
ListsOk(s) ==
    /\ s.list \in [Lists -> Slices] /\ s.registered \in [Lists -> Seq(Values)]
    /\ Memory(s.mem)
    /\ \A l \in Lists : Shows(s.mem, s.list[l], s.registered[l], l)
    /\ Apart(s.list["watchers"], s.list["reconcilers"])

Current == [mem |-> mem, list |-> list, registered |-> registered]

-----------------------------------------------------------------------------
(* The handler.                                                            *)

Actions == {"none", "CREATE", "UPDATE", "RESYNC", "DELETE"}

Handlers ==
    [pc: {"idle", "range", "dequeue", "call", "queue", "end"},
     event: [n: Nat, action: Actions, gen: Nat],
     list: Lists, slice: Slices, i: Nat, consumer: Values,
     known: SUBSET Values, present: SUBSET Values, called: SUBSET Values]

(* What h reads through its slice, whose array others write: elements that *)
(* were in the list at some time since it began.                           *)
Reading(h, m, ls, reg) ==
    /\ Window(m, h.slice) /\ h.slice.len <= Cardinality(Consumers(h.list))
    /\ \A j \in 1..h.slice.len : m[h.slice.array][h.slice.off + j] \in h.known
    /\ ToSet(reg[h.list]) \subseteq h.known
    /\ Apart(h.slice, ls[Other(h.list)])

HandlerOk(h) ==
    /\ h \in Handlers
    /\ h.pc \in {"idle", "range"} => h.i = 0
    /\ h.pc = "idle" <=> h.event.n = 0
    /\ h.pc \in {"dequeue", "call", "queue"} => h.i < h.slice.len /\ h.consumer \in h.known

ListInv ==
    /\ ListsOk(Current) /\ HandlerOk(handler)
    /\ handler.pc \notin {"idle", "range"} => Reading(handler, mem, list, registered)

-----------------------------------------------------------------------------
(* The retries.                                                            *)

Retries == [n: 1..MaxEvents, action: Actions, gen: Nat, attempt: 0..MaxAttempts]

Events(s) == {s[i].n : i \in 1..Len(s)}

(* No two elements are for the same event.                                 *)
Single(s) == \A i, j \in 1..Len(s) : s[i].n = s[j].n => i = j

Tickers ==
    [pc: {"idle", "key", "run", "add", "stopped"}, due: SUBSET (Keys \X (1..MaxEvents)),
     key: Keys \cup {NoKey}, todo: Seq(Retries), toAdd: Seq(Retries)]

RetriesOk ==
    /\ toRetry \in [Keys -> Seq(Retries)]
    /\ owed \in [Keys -> [1..MaxEvents -> BOOLEAN]]
    /\ ticker \in Tickers
    /\ events \in 0..MaxEvents /\ handler.event.n \in 0..events

(* The events whose retries the ticker has in its hands.                   *)
Held(k) == IF ticker.key = k THEN Events(ticker.todo) \cup Events(ticker.toAdd) ELSE {}

(* The events whose retries will be in the list when the ticker is done.   *)
Kept(k) == IF Locked(k) THEN {n \in Events(toRetry[k]) : <<k, n>> \notin ticker.due}
                        ELSE Events(toRetry[k])

(* A retry is in one place, and once in it.                                *)
NotDoubled ==
    /\ \A k \in Keys : Single(toRetry[k])
    /\ Single(ticker.todo) /\ Single(ticker.toAdd)
    /\ Events(ticker.todo) \cap Events(ticker.toAdd) = {}
    /\ ticker.pc = "run" => /\ ticker.key \in Keys
                            /\ \A n \in Events(ticker.todo) \cup Events(ticker.toAdd) : <<ticker.key, n>> \in ticker.due
    /\ ticker.pc = "add" => /\ ticker.key \in Keys /\ ticker.todo = <<>> /\ ticker.toAdd # <<>>
                            /\ Events(ticker.toAdd) \cap Events(toRetry[ticker.key]) = {}
    /\ ticker.pc \notin {"run", "add"} => ticker.key = NoKey /\ ticker.todo = <<>> /\ ticker.toAdd = <<>>

(* The calls for which a retry is owed are those that wait for one.        *)
Owed == \A k \in Keys, n \in 1..MaxEvents : owed[k][n] <=> n \in Kept(k) \cup Held(k)

(* No retry is owed yet to a call the handler has still to make.           *)
CallsToCome ==
    \A k \in Keys, n \in 1..MaxEvents : owed[k][n] =>
        /\ n <= events
        /\ n = handler.event.n =>
              \/ k[1] = "watchers" /\ handler.list = "reconcilers"
              \/ k[1] = handler.list /\ k[2] < handler.i

RetryInv == RetriesOk /\ NotDoubled /\ Owed /\ CallsToCome

IInv == ListInv /\ RetryInv

-----------------------------------------------------------------------------
(* Induction over the natural numbers, for sets in place of predicates.    *)

LEMMA LeastNat ==
    ASSUME NEW T, T \subseteq Nat, T # {}
    PROVE  \E n \in T : \A m \in T : n <= m
<1> DEFINE R == OpToRel(<, Nat)
<1>1. IsWellFoundedOn(R, Nat)
    BY NatLessThanWellFounded
<1>2. \A x, y \in Nat : x < y => <<x, y>> \in R
    BY DEF OpToRel
<1> HIDE DEF R
<1>3. PICK n \in T : \A m \in T : ~ (<<m, n>> \in R)
    BY <1>1, WFMin
<1>4. \A m \in T : ~(m < n) /\ m \in Nat /\ n \in Nat
    BY <1>2, <1>3
<1> QED
    BY <1>4, <1>3

LEMMA Induction ==
    ASSUME NEW T, 0 \in T, \A n \in Nat : n \in T => n + 1 \in T
    PROVE  Nat \subseteq T
<1> SUFFICES ASSUME Nat \ T # {} PROVE FALSE
    OBVIOUS
<1>1. Nat \ T \subseteq Nat
    OBVIOUS
<1>2. PICK n \in Nat \ T : \A m \in Nat \ T : n <= m
    BY <1>1, LeastNat
<1>3. n # 0 /\ n - 1 \in Nat /\ (n - 1) + 1 = n /\ ~(n <= n - 1)
    BY <1>2
<1>4. n - 1 \in T
    BY <1>2, <1>3
<1> QED
    BY <1>2, <1>3, <1>4

LEMMA SequenceOfSet ==
    ASSUME NEW S, IsFiniteSet(S)
    PROVE  SetToSeq(S) \in Seq(S) /\ Once(SetToSeq(S))
<1>1. Cardinality(S) \in Nat /\ ExistsBijection(1..Cardinality(S), S)
    BY FS_CardinalityType
<1>2. \E f \in [1..Cardinality(S) -> S] : IsInjective(f)
    BY <1>1 DEF ExistsBijection, Bijection, Injection, IsInjective
<1>3. SetToSeq(S) \in [1..Cardinality(S) -> S] /\ IsInjective(SetToSeq(S))
    BY <1>2 DEF SetToSeq
<1>4. SetToSeq(S) \in Seq(S)
    BY <1>1, <1>3
<1>5. DOMAIN SetToSeq(S) = 1..Len(SetToSeq(S))
    BY <1>4, LenProperties
<1> QED
    BY <1>3, <1>4, <1>5 DEF IsInjective, Once

-----------------------------------------------------------------------------
(* ListMap.                                                                *)

LEMMA ConsumersAreValues ==
    ASSUME NEW l \in Lists
    PROVE  /\ Consumers(l) \subseteq Values /\ IsFiniteSet(Consumers(l))
           /\ Other(l) \in Lists /\ Other(l) # l /\ Lists = {l, Other(l)}
BY ControllerAssumption DEF Lists, Consumers, Values, Other

(* A list has no more elements than there are consumers.                   *)
LEMMA ListFits ==
    ASSUME NEW l \in Lists, NEW r \in Seq(Consumers(l)), Once(r)
    PROVE  Len(r) \in Nat /\ Len(r) <= Cardinality(Consumers(l))
<1>1. IsFiniteSet(Consumers(l))
    BY ConsumersAreValues
<1>2. Len(r) \in Nat /\ r \in [1..Len(r) -> Consumers(l)] /\ DOMAIN r = 1..Len(r)
    BY LenProperties
<1>3. r \in Injection(1..Len(r), Consumers(l))
    BY <1>2 DEF Once, Injection, IsInjective
<1>4. Cardinality(1..Len(r)) <= Cardinality(Consumers(l))
    BY <1>1, <1>3, FS_Injection
<1>5. Cardinality(1..Len(r)) = Len(r)
    BY <1>2, FS_Interval
<1> QED
    BY <1>2, <1>4, <1>5

(* What a step that changes a list may do to the memory: write elements of *)
(* S into the array a of the list, and make a new array b.                 *)
Written(m, m2, a, b, S) ==
    /\ Len(m) <= Len(m2)
    /\ \A x \in 1..Len(m) :
          /\ Len(m2[x]) = Len(m[x])
          /\ \A j \in 1..Len(m[x]) : m2[x][j] = m[x][j] \/ (x = a /\ m2[x][j] \in S)
    /\ b \in {1, a} \/ b > Len(m)

LEMMA ArrayOk ==
    ASSUME NEW m, Memory(m), NEW x \in 1..Len(m)
    PROVE  m[x] \in Seq(Values) /\ Len(m[x]) \in Nat /\ DOMAIN m[x] = 1..Len(m[x]) /\ Len(m) \in Nat
<1>1. m[x] \in Seq(Values)
    BY ElementOfSeq DEF Memory
<1> QED
    BY <1>1, LenProperties DEF Memory

LEMMA InsideArray ==
    ASSUME NEW off \in Nat, NEW len \in Nat, NEW size \in Nat, off + len <= size
    PROVE  \A i \in 1..len : off + i \in 1..size
OBVIOUS

LEMMA WindowOk ==
    ASSUME NEW m, NEW a \in Nat, a \in 1..Len(m), NEW off \in Nat, NEW len \in Nat, off + len <= Len(m[a])
    PROVE  Window(m, [array |-> a, off |-> off, len |-> len])
<1>1. [array |-> a, off |-> off, len |-> len] \in Slices
    BY DEF Slices
<1> QED
    BY <1>1 DEF Window

(* The other list does not see the change.                                 *)
LEMMA OtherListKept ==
    ASSUME NEW s, ListsOk(s), NEW l \in Lists, NEW t, Memory(t.mem), NEW sl, NEW r, NEW S,
           t.list = [s.list EXCEPT ![l] = sl], t.registered = [s.registered EXCEPT ![l] = r],
           Shows(t.mem, sl, r, l), Written(s.mem, t.mem, s.list[l].array, sl.array, S)
    PROVE  ListsOk(t)
<1>1. PICK o \in Lists : o = Other(l) /\ o # l /\ Lists = {l, o}
    BY ConsumersAreValues
<1>2. /\ t.list[l] = sl /\ t.list[o] = s.list[o] /\ t.registered[l] = r /\ t.registered[o] = s.registered[o]
      /\ t.list \in [Lists -> Slices]
    <2>1. s.list \in [Lists -> Slices] /\ s.registered \in [Lists -> Seq(Values)] /\ sl \in Slices
        BY DEF ListsOk, Shows, Window
    <2>2. t.list[l] = sl /\ t.list[o] = s.list[o]
        BY <1>1, <2>1
    <2>3. t.registered[l] = r /\ t.registered[o] = s.registered[o]
        BY <1>1, <2>1
    <2>4. t.list \in [Lists -> Slices]
        BY <2>1
    <2> QED
        BY <2>2, <2>3, <2>4
<1>3. t.registered \in [Lists -> Seq(Values)]
    <2>1. r \in Seq(Values)
        BY SeqMonotonic, ConsumersAreValues DEF Shows
    <2> QED
        BY <2>1 DEF ListsOk
<1>4. /\ Window(s.mem, s.list[o]) /\ Apart(s.list[o], s.list[l]) /\ s.mem[1] = <<>> /\ Len(s.mem) \in Nat
      /\ s.list[o] \in Slices /\ s.list[l] \in Slices
    <2>1. Len(s.mem) \in Nat
        BY LenProperties DEF ListsOk, Memory
    <2> QED
        BY <1>1, <2>1 DEF ListsOk, Shows, Apart, Memory, Lists
<1>5. Shows(t.mem, t.list[o], t.registered[o], o)
    <2>1. Shows(s.mem, s.list[o], s.registered[o], o)
        BY DEF ListsOk
    <2>2. PICK x \in 1..Len(s.mem) : x = s.list[o].array
        BY <1>4 DEF Window
    <2>3. Len(t.mem[x]) = Len(s.mem[x]) /\ x \in 1..Len(t.mem)
        <3>1. Len(t.mem) \in Nat
            BY LenProperties DEF Memory
        <3> QED
            BY <1>4, <3>1 DEF Written
    <2>4. Len(s.mem[x]) \in Nat
        BY ArrayOk DEF ListsOk
    <2>5. \A j \in 1..Len(s.mem[x]) : t.mem[x][j] = s.mem[x][j]
        <3>1. CASE x = 1
            BY <1>4, <3>1
        <3>2. CASE x # 1
            BY <1>4, <2>2, <3>2 DEF Apart, Written
        <3> QED
            BY <3>1, <3>2
    <2>6. \A i \in 1..Len(s.registered[o]) : s.list[o].off + i \in 1..Len(s.mem[x])
        <3>1. Len(s.registered[o]) = s.list[o].len /\ s.list[o].off \in Nat /\ s.list[o].len \in Nat
            BY <1>4, <2>1 DEF Shows, Slices
        <3>2. s.list[o].off + s.list[o].len <= Len(s.mem[x])
            BY <1>4, <2>2 DEF Window
        <3> QED
            BY <2>4, <3>1, <3>2, InsideArray
    <2>7. Window(t.mem, s.list[o])
        BY <1>4, <2>2, <2>3 DEF Window
    <2> QED
        <3>1. /\ s.registered[o] \in Seq(Consumers(o)) /\ Once(s.registered[o])
              /\ s.list[o].len = Len(s.registered[o])
            BY <2>1 DEF Shows
        <3>2. \A i \in 1..Len(s.registered[o]) : s.mem[x][s.list[o].off + i] = s.registered[o][i]
            BY <2>1, <2>2 DEF Shows
        <3>3. \A i \in 1..Len(s.registered[o]) : t.mem[x][s.list[o].off + i] = s.registered[o][i]
            BY <2>5, <2>6, <3>2
        <3> QED
            BY <1>2, <2>2, <2>7, <3>1, <3>3 DEF Shows
<1>6. Apart(t.list[l], t.list[o])
    <2>1. sl.array \in {1, s.list[l].array} \/ sl.array > Len(s.mem)
        BY DEF Written
    <2>2. s.list[o].array \in 1..Len(s.mem)
        BY <1>4 DEF Window
    <2> QED
        BY <1>2, <1>4, <2>1, <2>2 DEF Apart
<1>7. Apart(t.list["watchers"], t.list["reconcilers"])
    BY <1>1, <1>6 DEF Apart, Lists
<1>8. \A x \in Lists : Shows(t.mem, t.list[x], t.registered[x], x)
    BY <1>1, <1>2, <1>5
<1> QED
    BY <1>2, <1>3, <1>7, <1>8 DEF ListsOk

(* The parts of Shows.                                                     *)
LEMMA ShowsOk ==
    ASSUME NEW m, Memory(m), NEW s, NEW r, NEW l \in Lists, Shows(m, s, r, l)
    PROVE  /\ s.array \in 1..Len(m) /\ s.off \in Nat /\ s.len \in Nat /\ Len(r) = s.len
           /\ m[s.array] \in Seq(Values) /\ Len(m[s.array]) \in Nat /\ Len(m) \in Nat
           /\ s.off + s.len <= Len(m[s.array])
           /\ \A i \in 1..s.len : s.off + i \in 1..Len(m[s.array]) /\ m[s.array][s.off + i] = r[i]
           /\ r \in Seq(Consumers(l)) /\ r \in Seq(Values)
<1>1. Window(m, s)
    BY DEF Shows
<1>2. s.array \in 1..Len(m) /\ s.off \in Nat /\ s.len \in Nat /\ Len(r) = s.len
    BY <1>1 DEF Window, Slices, Shows
<1>3. m[s.array] \in Seq(Values) /\ Len(m[s.array]) \in Nat /\ Len(m) \in Nat
    BY <1>2, ArrayOk
<1>4. s.off + s.len <= Len(m[s.array])
    BY <1>1 DEF Window
<1>5. \A i \in 1..s.len : s.off + i \in 1..Len(m[s.array])
    BY <1>2, <1>3, <1>4, InsideArray
<1>6. \A i \in 1..s.len : m[s.array][s.off + i] = r[i]
    BY <1>2 DEF Shows
<1>7. r \in Seq(Consumers(l)) /\ r \in Seq(Values)
    BY SeqMonotonic, ConsumersAreValues DEF Shows
<1> QED
    BY <1>2, <1>3, <1>4, <1>5, <1>6, <1>7

LEMMA ItemsOk ==
    ASSUME NEW m, Memory(m), NEW s, NEW r, NEW l \in Lists, Shows(m, s, r, l)
    PROVE  Items(m, s) = r
<1>1. /\ s.array \in 1..Len(m) /\ s.off \in Nat /\ s.len \in Nat /\ Len(r) = s.len
      /\ \A i \in 1..s.len : s.off + i \in 1..Len(m[s.array]) /\ m[s.array][s.off + i] = r[i]
      /\ r \in Seq(Values) /\ m[s.array] \in Seq(Values) /\ Len(m[s.array]) \in Nat
    BY ShowsOk
<1>2. PICK row \in Seq(Values) : row = m[s.array]
    BY <1>1
<1>3. PICK off \in Nat, len \in Nat : off = s.off /\ len = s.len
    BY <1>1
<1>4. \A i \in 1..len : off + i \in 1..Len(row) /\ row[off + i] = r[i]
    BY <1>1, <1>2, <1>3
<1>5. \A i \in (off + 1)..(off + len) : row[i] \in Values
    <2> SUFFICES ASSUME NEW i \in (off + 1)..(off + len) PROVE row[i] \in Values
        OBVIOUS
    <2>1. i - off \in 1..len /\ off + (i - off) = i
        OBVIOUS
    <2>2. i \in 1..Len(row)
        BY <1>4, <2>1
    <2> QED
        BY <2>2, ElementOfSeq
<1>6. PICK sub : sub = SubSeq(row, off + 1, off + len)
    OBVIOUS
<1>7. /\ sub \in Seq(Values) /\ off + 1 \in Int /\ off + len \in Int
      /\ Len(sub) = IF off + 1 <= off + len THEN (off + len) - (off + 1) + 1 ELSE 0
      /\ \A i \in 1..((off + len) - (off + 1) + 1) : sub[i] = row[(off + 1) + i - 1]
    <2>1. off + 1 \in Int /\ off + len \in Int
        OBVIOUS
    <2> QED
        BY <1>5, <1>6, <2>1, SubSeqProperties
<1>8. Len(sub) = len
    BY <1>7
<1>9. \A i \in 1..len : sub[i] = r[i]
    <2> SUFFICES ASSUME NEW i \in 1..len PROVE sub[i] = r[i]
        OBVIOUS
    <2>1. i \in 1..((off + len) - (off + 1) + 1) /\ (off + 1) + i - 1 = off + i
        OBVIOUS
    <2> QED
        BY <1>4, <1>7, <2>1
<1>10. sub = r
    BY <1>1, <1>3, <1>7, <1>8, <1>9, SeqEqual
<1> QED
    BY <1>2, <1>3, <1>6, <1>10 DEF Items

LEMMA AppendOnce ==
    ASSUME NEW T, NEW r \in Seq(T), Once(r), NEW c \in T, \A i \in 1..Len(r) : r[i] # c
    PROVE  Once(Append(r, c))
<1>1. /\ Len(Append(r, c)) = Len(r) + 1 /\ Append(r, c)[Len(r) + 1] = c /\ Len(r) \in Nat
      /\ \A i \in 1..Len(r) : Append(r, c)[i] = r[i]
    BY AppendProperties, LenProperties
<1> SUFFICES ASSUME NEW i \in 1..(Len(r) + 1), NEW j \in 1..(Len(r) + 1), Append(r, c)[i] = Append(r, c)[j]
             PROVE  i = j
    BY <1>1 DEF Once
<1>2. CASE i \in 1..Len(r) /\ j \in 1..Len(r)
    BY <1>1, <1>2 DEF Once
<1>3. CASE i = Len(r) + 1 \/ j = Len(r) + 1
    BY <1>1, <1>3
<1> QED
    BY <1>1, <1>2, <1>3

LEMMA NextCell ==
    ASSUME NEW off \in Nat, NEW len \in Nat, NEW size \in Nat, len < size - off
    PROVE  off + len + 1 \in 1..size
OBVIOUS

(* append in place, and in a new array.                                    *)
LEMMA AddItemOk ==
    ASSUME NEW m, Memory(m), NEW s, NEW r, NEW l \in Lists, Shows(m, s, r, l),
           NEW c \in Consumers(l), \A i \in 1..Len(r) : r[i] # c,
           NEW added, added = AddItem(m, s, c)
    PROVE  /\ Memory(added.mem) /\ Shows(added.mem, added.slice, Append(r, c), l)
           /\ Written(m, added.mem, s.array, added.slice.array, {c})
<1>1. /\ s.array \in 1..Len(m) /\ s.off \in Nat /\ s.len \in Nat /\ Len(r) = s.len
      /\ m[s.array] \in Seq(Values) /\ Len(m[s.array]) \in Nat /\ Len(m) \in Nat
      /\ s.off + s.len <= Len(m[s.array])
      /\ \A i \in 1..s.len : s.off + i \in 1..Len(m[s.array]) /\ m[s.array][s.off + i] = r[i]
      /\ r \in Seq(Consumers(l)) /\ r \in Seq(Values) /\ Once(r) /\ c \in Values
      /\ s \in Slices /\ m \in Seq(Seq(Values)) /\ m[1] = <<>> /\ Len(m) >= 1
    <2>1. Once(r) /\ s \in Slices
        BY DEF Shows, Window
    <2>2. c \in Values
        BY ConsumersAreValues
    <2>3. m \in Seq(Seq(Values)) /\ m[1] = <<>> /\ Len(m) >= 1
        BY DEF Memory
    <2> QED
        BY <2>1, <2>2, <2>3, ShowsOk
<1>2. PICK q : q = Append(r, c)
    OBVIOUS
<1>3. /\ q \in Seq(Consumers(l)) /\ q \in Seq(Values) /\ Len(q) = s.len + 1 /\ q[s.len + 1] = c
      /\ \A i \in 1..s.len : q[i] = r[i]
    <2>1. q \in Seq(Consumers(l))
        BY <1>1, <1>2, AppendProperties
    <2>2. /\ q \in Seq(Values) /\ Len(q) = Len(r) + 1 /\ q[Len(r) + 1] = c
          /\ \A i \in 1..Len(r) : q[i] = r[i]
        <3>1. r \in Seq(Values) /\ c \in Values
            BY <1>1
        <3> QED
            BY <1>2, <3>1, AppendProperties
    <2> QED
        BY <1>1, <2>1, <2>2
<1>4. Once(q)
    BY <1>1, <1>2, AppendOnce
<1>5. PICK a \in 1..Len(m), off \in Nat, len \in Nat, row \in Seq(Values) :
          a = s.array /\ off = s.off /\ len = s.len /\ row = m[a] /\ Len(row) \in Nat
    BY <1>1
<1>6. CASE len < Len(row) - off
    <2>1. added = [mem |-> [m EXCEPT ![a][off + len + 1] = c], slice |-> [s EXCEPT !.len = @ + 1]]
        BY <1>5, <1>6 DEF AddItem, Capacity
    <2>2. PICK p \in 1..Len(row) : p = off + len + 1
        <3>1. off + len + 1 \in 1..Len(row)
            BY <1>5, <1>6, NextCell
        <3> QED
            BY <3>1
    <2>3. PICK row2 : row2 = [row EXCEPT ![p] = c]
        OBVIOUS
    <2>4. /\ row2 \in Seq(Values) /\ Len(row2) = Len(row)
          /\ \A j \in 1..Len(row) : row2[j] = IF j = p THEN c ELSE row[j]
        BY <1>1, <2>3, ExceptSeq
    <2>5. PICK m2 : m2 = [m EXCEPT ![a] = row2]
        OBVIOUS
    <2>6. /\ m2 \in Seq(Seq(Values)) /\ Len(m2) = Len(m)
          /\ \A x \in 1..Len(m) : m2[x] = IF x = a THEN row2 ELSE m[x]
        BY <1>1, <2>4, <2>5, ExceptSeq
    <2>7. added.mem = m2 /\ added.slice = [array |-> a, off |-> off, len |-> len + 1]
        <3>1. added.mem = m2
            BY <1>5, <2>1, <2>2, <2>3, <2>5
        <3>2. added.slice = [s EXCEPT !.len = @ + 1]
            BY <2>1
        <3> QED
            BY <1>1, <1>5, <3>1, <3>2 DEF Slices
    <2>8. a # 1
        BY <1>1, <1>5, <2>2
    <2>9. Memory(m2)
        <3>1. 1 \in 1..Len(m)
            BY <1>1
        <3>2. m2[1] = <<>>
            BY <1>1, <2>6, <2>8, <3>1
        <3> QED
            BY <1>1, <2>6, <3>2 DEF Memory
    <2>10. Window(m2, added.slice)
        <3>1. added.slice \in Slices
            BY <2>7 DEF Slices
        <3>2. a \in 1..Len(m2) /\ off + (len + 1) <= Len(m2[a])
            <4>1. m2[a] = row2 /\ Len(m2[a]) = Len(row)
                BY <2>4, <2>6
            <4> QED
                BY <1>5, <2>2, <2>6, <4>1
        <3> QED
            BY <2>7, <3>1, <3>2 DEF Window
    <2>11. \A i \in 1..(len + 1) : m2[a][off + i] = q[i]
        <3>0. m2[a] = row2
            BY <2>6
        <3> SUFFICES ASSUME NEW i \in 1..(len + 1) PROVE row2[off + i] = q[i]
            BY <3>0
        <3>1. CASE i = len + 1
            <4>1. off + i = p /\ q[i] = c
                <5>1. off + i = p
                    BY <2>2, <3>1
                <5>2. q[i] = c
                    BY <1>3, <1>5, <3>1
                <5> QED
                    BY <5>1, <5>2
            <4> QED
                BY <2>4, <4>1
        <3>2. CASE i # len + 1
            <4>1. i \in 1..len /\ off + i # p
                BY <2>2, <3>2
            <4>2. off + i \in 1..Len(row) /\ row[off + i] = r[i] /\ q[i] = r[i]
                BY <1>1, <1>3, <1>5, <4>1
            <4> QED
                BY <2>4, <4>1, <4>2
        <3> QED
            BY <3>1, <3>2
    <2>12. Shows(m2, added.slice, q, l)
        BY <1>3, <1>4, <1>5, <2>7, <2>10, <2>11 DEF Shows
    <2>13. Written(m, m2, a, a, {c})
        <3>1. ASSUME NEW x \in 1..Len(m)
              PROVE  /\ Len(m2[x]) = Len(m[x])
                     /\ \A j \in 1..Len(m[x]) : m2[x][j] = m[x][j] \/ (x = a /\ m2[x][j] \in {c})
            <4>1. CASE x = a
                BY <1>5, <2>4, <2>6, <4>1
            <4>2. CASE x # a
                BY <2>6, <4>2
            <4> QED
                BY <4>1, <4>2
        <3>2. Len(m) <= Len(m2)
            BY <1>1, <2>6
        <3> QED
            BY <3>1, <3>2 DEF Written
    <2> QED
        BY <1>2, <1>5, <2>7, <2>9, <2>12, <2>13
<1>7. CASE ~(len < Len(row) - off)
    <2>1. PICK size : size = Max({1, 2 * len})
        OBVIOUS
    <2>2. size \in Nat /\ len + 1 <= size
        <3>1. \E x \in {1, 2 * len} : \A y \in {1, 2 * len} : x >= y
            <4>1. CASE len = 0
                BY <4>1
            <4>2. CASE len # 0
                BY <4>2
            <4> QED
                BY <4>1, <4>2
        <3>2. size \in {1, 2 * len} /\ size >= 1 /\ size >= 2 * len
            BY <2>1, <3>1 DEF Max
        <3> QED
            BY <3>2
    <2>3. PICK row2 : row2 = [j \in 1..size |-> IF j \in DOMAIN q THEN q[j] ELSE NoItem]
        OBVIOUS
    <2>4. row2 \in Seq(Values) /\ Len(row2) = size /\ \A j \in 1..(len + 1) : row2[j] = q[j]
        <3>1. DOMAIN q = 1..(len + 1) /\ \A j \in 1..(len + 1) : q[j] \in Values
            BY <1>3, <1>5, LenProperties, ElementOfSeq
        <3>2. NoItem \in Values
            BY DEF Values
        <3>3. row2 \in [1..size -> Values]
            BY <2>3, <3>1, <3>2
        <3> QED
            BY <2>2, <2>3, <3>1, <3>3
    <2>5. PICK m2 : m2 = Append(m, row2)
        OBVIOUS
    <2>6. /\ m2 \in Seq(Seq(Values)) /\ Len(m2) = Len(m) + 1 /\ m2[Len(m) + 1] = row2
          /\ \A x \in 1..Len(m) : m2[x] = m[x]
        BY <1>1, <2>4, <2>5, AppendProperties
    <2>7. added.mem = m2 /\ added.slice = [array |-> Len(m) + 1, off |-> 0, len |-> len + 1]
        <3>1. Items(m, s) = r
            BY ItemsOk
        <3>2. ~(s.len < Capacity(m, s))
            BY <1>5, <1>7 DEF Capacity
        <3>3. added = [mem |-> m2, slice |-> [array |-> Len(m) + 1, off |-> 0, len |-> s.len + 1]]
            BY <1>2, <1>5, <2>1, <2>3, <2>5, <3>1, <3>2 DEF AddItem
        <3> QED
            BY <1>5, <3>3
    <2>8. Memory(m2)
        <3>1. 1 \in 1..Len(m) /\ Len(m2) >= 1
            BY <1>1, <2>6
        <3>2. m2[1] = <<>>
            BY <1>1, <2>6, <3>1
        <3> QED
            BY <2>6, <3>1, <3>2 DEF Memory
    <2>9. Window(m2, added.slice)
        <3>1. Len(m) \in Nat
            BY <1>1
        <3>2. Len(m) + 1 \in Nat /\ 0 \in Nat /\ len + 1 \in Nat
            BY <3>1
        <3>3. Len(m) + 1 \in 1..Len(m2)
            BY <2>6, <3>1
        <3>4. 0 + (len + 1) <= Len(m2[Len(m) + 1])
            BY <2>2, <2>4, <2>6
        <3>5. Window(m2, [array |-> Len(m) + 1, off |-> 0, len |-> len + 1])
            BY <3>2, <3>3, <3>4, WindowOk
        <3> QED
            BY <2>7, <3>5
    <2>10. Shows(m2, added.slice, q, l)
        <3>1. \A i \in 1..(len + 1) : m2[Len(m) + 1][0 + i] = q[i]
            BY <2>4, <2>6
        <3> QED
            BY <1>3, <1>4, <1>5, <2>7, <2>9, <3>1 DEF Shows
    <2>11. Written(m, m2, a, Len(m) + 1, {c})
        <3>1. Len(m) <= Len(m2) /\ Len(m) + 1 > Len(m)
            <4>1. Len(m) \in Nat /\ Len(m2) = Len(m) + 1
                BY <1>1, <2>6
            <4> QED
                BY <4>1
        <3> QED
            BY <2>6, <3>1 DEF Written
    <2> QED
        BY <1>2, <1>5, <2>7, <2>8, <2>10, <2>11
<1> QED
    BY <1>6, <1>7

LEMMA RemoveAtOk ==
    ASSUME NEW T, NEW r \in Seq(T), NEW i \in 1..Len(r)
    PROVE  /\ RemoveAt(r, i) \in Seq(T) /\ Len(RemoveAt(r, i)) = Len(r) - 1
           /\ \A j \in 1..(Len(r) - 1) : RemoveAt(r, i)[j] = IF j < i THEN r[j] ELSE r[j + 1]
           /\ Once(r) => Once(RemoveAt(r, i))
<1>1. PICK len \in Nat : len = Len(r) /\ i \in 1..len
    BY LenProperties
<1>2. \A j \in 1..len : r[j] \in T
    BY <1>1, ElementOfSeq
<1>3. PICK a, b : a = SubSeq(r, 1, i - 1) /\ b = SubSeq(r, i + 1, len)
    OBVIOUS
<1>4. a \in Seq(T) /\ Len(a) = i - 1 /\ \A j \in 1..(i - 1) : a[j] = r[j]
    <2>1. 1 \in Int /\ i - 1 \in Int /\ (\A j \in 1..(i - 1) : r[j] \in T)
        BY <1>1, <1>2
    <2>2. /\ a \in Seq(T) /\ Len(a) = IF 1 <= i - 1 THEN (i - 1) - 1 + 1 ELSE 0
          /\ \A j \in 1..((i - 1) - 1 + 1) : a[j] = r[1 + j - 1]
        BY <1>3, <2>1, SubSeqProperties
    <2>3. (i - 1) - 1 + 1 = i - 1 /\ \A j \in 1..(i - 1) : 1 + j - 1 = j
        BY <1>1
    <2> QED
        BY <1>1, <2>2, <2>3
<1>5. b \in Seq(T) /\ Len(b) = len - i /\ \A j \in 1..(len - i) : b[j] = r[i + j]
    <2>1. i + 1 \in Int /\ len \in Int /\ (\A j \in (i + 1)..len : r[j] \in T)
        BY <1>1, <1>2
    <2>2. /\ b \in Seq(T) /\ Len(b) = IF i + 1 <= len THEN len - (i + 1) + 1 ELSE 0
          /\ \A j \in 1..(len - (i + 1) + 1) : b[j] = r[(i + 1) + j - 1]
        BY <1>3, <2>1, SubSeqProperties
    <2>3. len - (i + 1) + 1 = len - i /\ \A j \in 1..(len - i) : (i + 1) + j - 1 = i + j
        BY <1>1
    <2> QED
        BY <1>1, <2>2, <2>3
<1>6. PICK q : q = a \o b
    OBVIOUS
<1>7. /\ q \in Seq(T) /\ Len(q) = Len(a) + Len(b)
      /\ \A j \in 1..(Len(a) + Len(b)) : q[j] = IF j <= Len(a) THEN a[j] ELSE b[j - Len(a)]
    BY <1>4, <1>5, <1>6, ConcatProperties
<1>8. Len(q) = len - 1 /\ Len(a) + Len(b) = len - 1
    BY <1>1, <1>4, <1>5, <1>7
<1>9. \A j \in 1..(len - 1) : q[j] = IF j < i THEN r[j] ELSE r[j + 1]
    <2> SUFFICES ASSUME NEW j \in 1..(len - 1) PROVE q[j] = IF j < i THEN r[j] ELSE r[j + 1]
        OBVIOUS
    <2>1. q[j] = IF j <= i - 1 THEN a[j] ELSE b[j - (i - 1)]
        BY <1>4, <1>7, <1>8
    <2>2. CASE j < i
        <3>1. j <= i - 1 /\ j \in 1..(i - 1)
            BY <1>1, <2>2
        <3> QED
            BY <1>4, <2>1, <2>2, <3>1
    <2>3. CASE ~(j < i)
        <3>1. ~(j <= i - 1) /\ j - (i - 1) \in 1..(len - i) /\ i + (j - (i - 1)) = j + 1
            BY <1>1, <2>3
        <3> QED
            BY <1>5, <2>1, <2>3, <3>1
    <2> QED
        BY <2>2, <2>3
<1>10. ASSUME Once(r) PROVE Once(q)
    <2> SUFFICES ASSUME NEW j \in 1..(len - 1), NEW h \in 1..(len - 1), q[j] = q[h] PROVE j = h
        BY <1>8 DEF Once
    <2>1. \A x, y \in 1..len : r[x] = r[y] => x = y
        BY <1>1, <1>10 DEF Once
    <2>2. /\ j \in 1..len /\ j + 1 \in 1..len /\ h \in 1..len /\ h + 1 \in 1..len
          /\ q[j] = IF j < i THEN r[j] ELSE r[j + 1]
          /\ q[h] = IF h < i THEN r[h] ELSE r[h + 1]
        BY <1>1, <1>9
    <2>3. CASE j < i /\ h < i
        BY <2>1, <2>2, <2>3
    <2>4. CASE ~(j < i) /\ ~(h < i)
        <3>1. j + 1 = h + 1
            BY <2>1, <2>2, <2>4
        <3> QED
            BY <3>1
    <2>5. CASE j < i /\ ~(h < i)
        <3>1. j = h + 1
            BY <2>1, <2>2, <2>5
        <3> QED
            BY <1>1, <2>5, <3>1
    <2>6. CASE ~(j < i) /\ h < i
        <3>1. j + 1 = h
            BY <2>1, <2>2, <2>6
        <3> QED
            BY <1>1, <2>6, <3>1
    <2> QED
        BY <2>3, <2>4, <2>5, <2>6
<1>11. RemoveAt(r, i) = q
    BY <1>1, <1>3, <1>6 DEF RemoveAt
<1> QED
    BY <1>1, <1>7, <1>8, <1>9, <1>10, <1>11

(* remove: moving the window, shortening it, and shifting in place.        *)
LEMMA RemoveOk ==
    ASSUME NEW m, Memory(m), NEW s, NEW r, NEW l \in Lists, Shows(m, s, r, l),
           NEW i \in 1..Len(r), NEW removed, removed = remove(m, s, i - 1)
    PROVE  /\ Memory(removed.mem) /\ Shows(removed.mem, removed.slice, RemoveAt(r, i), l)
           /\ Written(m, removed.mem, s.array, removed.slice.array, ToSet(r))
<1>1. /\ s.array \in 1..Len(m) /\ s.off \in Nat /\ s.len \in Nat /\ Len(r) = s.len
      /\ m[s.array] \in Seq(Values) /\ Len(m[s.array]) \in Nat /\ Len(m) \in Nat
      /\ s.off + s.len <= Len(m[s.array])
      /\ \A j \in 1..s.len : s.off + j \in 1..Len(m[s.array]) /\ m[s.array][s.off + j] = r[j]
      /\ r \in Seq(Consumers(l)) /\ r \in Seq(Values)
    BY ShowsOk
<1>2. Once(r) /\ s \in Slices /\ m \in Seq(Seq(Values)) /\ m[1] = <<>> /\ Len(m) >= 1
    BY DEF Shows, Window, Memory
<1>3. PICK q : q = RemoveAt(r, i)
    OBVIOUS
<1>4. PICK a \in 1..Len(m), off \in Nat, len \in Nat, row \in Seq(Values) :
          a = s.array /\ off = s.off /\ len = s.len /\ row = m[a]
    BY <1>1
<1>5. /\ Len(row) \in Nat /\ off + len <= Len(row) /\ i \in 1..len /\ Len(r) = len
      /\ \A j \in 1..len : off + j \in 1..Len(row) /\ row[off + j] = r[j]
    BY <1>1, <1>4
<1>6. /\ q \in Seq(Consumers(l)) /\ Len(q) = len - 1 /\ Once(q)
      /\ \A j \in 1..(len - 1) : q[j] = IF j < i THEN r[j] ELSE r[j + 1]
    <2>1. r \in Seq(Consumers(l))
        BY <1>1
    <2> QED
        BY <1>2, <1>3, <1>5, <2>1, RemoveAtOk
<1>7. s = [array |-> a, off |-> off, len |-> len]
    BY <1>2, <1>4 DEF Slices
<1>8. Written(m, m, a, a, ToSet(r)) /\ Written(m, m, a, 1, ToSet(r))
    BY <1>1 DEF Written
<1>9. CASE len = 1
    <2>1. removed = [mem |-> m, slice |-> Empty]
        BY <1>4, <1>5, <1>9 DEF remove
    <2>2. Shows(m, Empty, q, l)
        <3>1. Window(m, Empty)
            BY <1>1, <1>2 DEF Window, Empty, Slices
        <3> QED
            BY <1>6, <1>9, <3>1 DEF Shows, Empty
    <2> QED
        BY <1>3, <1>4, <1>8, <2>1, <2>2 DEF Empty
<1>10. CASE len # 1 /\ i = 1
    <2>1. removed = [mem |-> m, slice |-> [array |-> a, off |-> off + 1, len |-> len - 1]]
        <3>1. i - 1 = 0 /\ len > 1
            BY <1>5, <1>10
        <3>2. removed = [mem |-> m, slice |-> [s EXCEPT !.off = @ + 1, !.len = @ - 1]]
            BY <1>4, <3>1 DEF remove
        <3>3. [s EXCEPT !.off = @ + 1, !.len = @ - 1] = [array |-> a, off |-> off + 1, len |-> len - 1]
            <4>1. PICK u, v : u = off + 1 /\ v = len - 1
                OBVIOUS
            <4>2. [s EXCEPT !.off = @ + 1, !.len = @ - 1] = [s EXCEPT !.off = u, !.len = v]
                BY <1>4, <4>1
            <4>3. [s EXCEPT !.off = u, !.len = v] = [array |-> a, off |-> u, len |-> v]
                <5>1. PICK x : x = [s EXCEPT !.off = u]
                    OBVIOUS
                <5>2. x = [array |-> a, off |-> u, len |-> len]
                    BY <1>7, <5>1
                <5>3. [s EXCEPT !.off = u, !.len = v] = [x EXCEPT !.len = v]
                    BY <5>1
                <5> QED
                    BY <5>2, <5>3
            <4> QED
                BY <4>1, <4>2, <4>3
        <3> QED
            BY <3>2, <3>3
    <2>2. Shows(m, [array |-> a, off |-> off + 1, len |-> len - 1], q, l)
        <3>1. Window(m, [array |-> a, off |-> off + 1, len |-> len - 1])
            <4>1. off + len <= Len(row) /\ Len(row) \in Nat /\ i \in 1..len /\ Len(m) \in Nat
                BY <1>1, <1>5
            <4>2. off + 1 \in Nat /\ len - 1 \in Nat /\ a \in Nat /\ (off + 1) + (len - 1) <= Len(row)
                BY <4>1
            <4>3. (off + 1) + (len - 1) <= Len(m[a])
                BY <1>4, <4>2
            <4> QED
                BY <4>2, <4>3, WindowOk
        <3>2. \A j \in 1..(len - 1) : m[a][(off + 1) + j] = q[j]
            <4> SUFFICES ASSUME NEW j \in 1..(len - 1) PROVE row[(off + 1) + j] = q[j]
                BY <1>4
            <4>1. j + 1 \in 1..len /\ off + (j + 1) = (off + 1) + j /\ ~(j < i)
                BY <1>10
            <4>2. row[off + (j + 1)] = r[j + 1]
                BY <1>5, <4>1
            <4>3. q[j] = r[j + 1]
                BY <1>6, <4>1
            <4> QED
                BY <4>1, <4>2, <4>3
        <3> QED
            BY <1>6, <3>1, <3>2 DEF Shows
    <2> QED
        BY <1>3, <1>4, <1>8, <2>1, <2>2
<1>11. CASE i # 1 /\ i = len
    <2>1. removed = [mem |-> m, slice |-> [array |-> a, off |-> off, len |-> len - 1]]
        <3>1. ~(i - 1 > len - 1) /\ i - 1 > 0 /\ i - 1 = len - 1
            BY <1>11
        <3>2. removed = [mem |-> m, slice |-> [s EXCEPT !.len = i - 1]]
            BY <1>4, <3>1 DEF remove
        <3>3. [s EXCEPT !.len = i - 1] = [array |-> a, off |-> off, len |-> i - 1]
            BY <1>7
        <3> QED
            BY <3>1, <3>2, <3>3
    <2>2. Shows(m, [array |-> a, off |-> off, len |-> len - 1], q, l)
        <3>1. Window(m, [array |-> a, off |-> off, len |-> len - 1])
            <4>1. len - 1 \in Nat /\ off + (len - 1) <= Len(m[a])
                <5>1. i \in 1..len /\ off + len <= Len(row) /\ Len(row) \in Nat
                    BY <1>5
                <5>2. len - 1 \in Nat /\ off + (len - 1) <= Len(row)
                    BY <5>1
                <5> QED
                    BY <1>4, <5>2
            <4>2. a \in Nat
                BY <1>1
            <4> QED
                BY <4>1, <4>2, WindowOk
        <3>2. \A j \in 1..(len - 1) : m[a][off + j] = q[j]
            <4> SUFFICES ASSUME NEW j \in 1..(len - 1) PROVE row[off + j] = q[j]
                BY <1>4
            <4>1. j \in 1..len /\ j < i
                BY <1>11
            <4> QED
                BY <1>5, <1>6, <4>1
        <3> QED
            BY <1>6, <3>1, <3>2 DEF Shows
    <2> QED
        BY <1>3, <1>4, <1>8, <2>1, <2>2
<1>12. CASE i # 1 /\ i # len
    <2> DEFINE Shift(x) == [j \in DOMAIN x |-> IF j - off - 1 \in (i - 1)..(len - 2) THEN x[j + 1] ELSE x[j]]
    <2>1. PICK row2, m2 : row2 = Shift(row) /\ m2 = [m EXCEPT ![a] = row2]
        OBVIOUS
    <2>2. removed = [mem |-> m2, slice |-> [array |-> a, off |-> off, len |-> len - 1]]
        <3>1. i - 1 > 0 /\ i - 1 < len - 1
            BY <1>5, <1>12
        <3>2. removed = [mem |-> [m EXCEPT ![a] = Shift(m[a])], slice |-> [s EXCEPT !.len = @ - 1]]
            BY <1>4, <3>1 DEF remove
        <3>3. [s EXCEPT !.len = @ - 1] = [array |-> a, off |-> off, len |-> len - 1]
            BY <1>7
        <3>4. [m EXCEPT ![a] = Shift(m[a])] = m2
            BY Zenon, <1>4, <2>1
        <3> QED
            BY <3>2, <3>3, <3>4
    <2> HIDE DEF Shift
    <2>3. /\ DOMAIN row = 1..Len(row) /\ row2 \in Seq(Values) /\ Len(row2) = Len(row)
          /\ \A j \in 1..Len(row) :
                row2[j] = IF j - off - 1 \in (i - 1)..(len - 2) THEN row[j + 1] ELSE row[j]
        <3>1. DOMAIN row = 1..Len(row) /\ \A j \in 1..Len(row) : row[j] \in Values
            BY LenProperties, ElementOfSeq
        <3>2. ASSUME NEW j \in 1..Len(row), j - off - 1 \in (i - 1)..(len - 2) PROVE j + 1 \in 1..Len(row)
            <4>1. i \in 1..len /\ off + len <= Len(row) /\ Len(row) \in Nat
                BY <1>5
            <4> QED
                BY <3>2, <4>1
        <3>3. row2 = [j \in 1..Len(row) |->
                         IF j - off - 1 \in (i - 1)..(len - 2) THEN row[j + 1] ELSE row[j]]
            BY <2>1, <3>1 DEF Shift
        <3>4. row2 \in [1..Len(row) -> Values]
            BY <3>1, <3>2, <3>3
        <3>5. row2 \in Seq(Values) /\ Len(row2) = Len(row)
            <4>1. PICK n \in Nat : n = Len(row)
                BY <1>5
            <4>2. row2 \in [1..n -> Values]
                BY <3>4, <4>1
            <4>3. row2 \in Seq(Values)
                BY <4>2, SeqDef
            <4>4. Len(row2) = n
                BY <4>2, <4>3, LenProperties
            <4> QED
                BY <4>1, <4>3, <4>4
        <3> QED
            BY <3>1, <3>3, <3>5
    <2>4. /\ m2 \in Seq(Seq(Values)) /\ Len(m2) = Len(m)
          /\ \A x \in 1..Len(m) : m2[x] = IF x = a THEN row2 ELSE m[x]
        BY <1>2, <2>1, <2>3, ExceptSeq
    <2>5. Memory(m2)
        <3>1. 1 \in 1..Len(m) /\ a # 1
            <4>1. Len(row) # 0
                BY <1>5
            <4>2. Len(m[1]) = 0
                BY <1>2, EmptySeq
            <4> QED
                BY <1>1, <1>2, <1>4, <4>1, <4>2
        <3> QED
            BY <1>2, <2>4, <3>1 DEF Memory
    <2>6. Shows(m2, [array |-> a, off |-> off, len |-> len - 1], q, l)
        <3>1. Window(m2, [array |-> a, off |-> off, len |-> len - 1])
            <4>1. m2[a] = row2 /\ Len(m2[a]) = Len(row)
                BY <2>3, <2>4
            <4> QED
                BY <1>5, <2>4, <4>1 DEF Window, Slices
        <3>2. \A j \in 1..(len - 1) : m2[a][off + j] = q[j]
            <4> SUFFICES ASSUME NEW j \in 1..(len - 1) PROVE row2[off + j] = q[j]
                BY <2>4
            <4>1. j \in 1..len /\ j + 1 \in 1..len /\ off + (j + 1) = (off + j) + 1
                OBVIOUS
            <4>2. /\ off + j \in 1..Len(row) /\ row[off + j] = r[j] /\ row[(off + j) + 1] = r[j + 1]
                BY <1>5, <4>1
            <4>3. (off + j) - off - 1 \in (i - 1)..(len - 2) <=> ~(j < i)
                BY <1>5
            <4> QED
                BY <1>6, <2>3, <4>2, <4>3
        <3> QED
            BY <1>6, <3>1, <3>2 DEF Shows
    <2>7. Written(m, m2, a, a, ToSet(r))
        <3>1. ASSUME NEW j \in 1..Len(row) PROVE row2[j] = row[j] \/ row2[j] \in ToSet(r)
            <4>1. CASE j - off - 1 \in (i - 1)..(len - 2)
                <5>1. PICK h \in 1..len : j + 1 = off + h
                    <6>1. j - off + 1 \in 1..len /\ j + 1 = off + (j - off + 1)
                        BY <1>5, <4>1
                    <6> QED
                        BY <6>1
                <5>2. row2[j] = r[h]
                    BY <1>5, <2>3, <4>1, <5>1
                <5>3. DOMAIN r = 1..len
                    BY <1>1, <1>5, LenProperties
                <5> QED
                    BY <5>1, <5>2, <5>3 DEF ToSet
            <4>2. CASE ~(j - off - 1 \in (i - 1)..(len - 2))
                BY <2>3, <4>2
            <4> QED
                BY <4>1, <4>2
        <3>2. ASSUME NEW x \in 1..Len(m)
              PROVE  /\ Len(m2[x]) = Len(m[x])
                     /\ \A j \in 1..Len(m[x]) : m2[x][j] = m[x][j] \/ (x = a /\ m2[x][j] \in ToSet(r))
            <4>1. CASE x = a
                BY <1>4, <2>3, <2>4, <3>1, <4>1
            <4>2. CASE x # a
                BY <2>4, <4>2
            <4> QED
                BY <4>1, <4>2
        <3>3. Len(m) <= Len(m2)
            BY <1>1, <2>4
        <3> QED
            BY <3>2, <3>3 DEF Written
    <2> QED
        BY <1>3, <1>4, <2>2, <2>5, <2>6, <2>7
<1> QED
    BY <1>5, <1>9, <1>10, <1>11, <1>12

LEMMA RemoveItemOk ==
    ASSUME NEW m, Memory(m), NEW s, NEW r, NEW l \in Lists, Shows(m, s, r, l),
           NEW i \in 1..Len(r), NEW removed, removed = RemoveItem(m, s, r[i])
    PROVE  /\ Memory(removed.mem) /\ Shows(removed.mem, removed.slice, RemoveAt(r, i), l)
           /\ Written(m, removed.mem, s.array, removed.slice.array, ToSet(r))
<1>1. /\ s.off \in Nat /\ s.len \in Nat /\ Len(r) = s.len
      /\ \A j \in 1..s.len : m[s.array][s.off + j] = r[j]
    BY ShowsOk
<1>2. \A j \in 1..s.len : r[j] = r[i] => j = i
    BY <1>1 DEF Shows, Once
<1>3. ASSUME NEW j \in 0..(s.len - 1) PROVE ItemAt(m, s, j) = r[i] <=> j = i - 1
    <2>1. j + 1 \in 1..s.len /\ s.off + j + 1 = s.off + (j + 1) /\ (j + 1 = i <=> j = i - 1)
        <3>1. PICK len \in Nat, off \in Nat : len = s.len /\ off = s.off /\ i \in 1..len /\ j \in 0..(len - 1)
            BY <1>1
        <3>2. j + 1 \in 1..len /\ off + j + 1 = off + (j + 1)
            BY <3>1
        <3>3. j + 1 = i <=> j = i - 1
            BY <3>1
        <3> QED
            BY <3>1, <3>2, <3>3
    <2>2. ItemAt(m, s, j) = r[j + 1]
        BY <1>1, <2>1 DEF ItemAt
    <2>3. r[j + 1] = r[i] <=> j + 1 = i
        BY <1>2, <2>1
    <2> QED
        BY <2>1, <2>2, <2>3
<1>4. i - 1 \in 0..(s.len - 1)
    BY <1>1
<1>5. {j \in 0..(s.len - 1) : ItemAt(m, s, j) = r[i]} = {i - 1}
    BY <1>3, <1>4
<1>6. Min({i - 1}) = i - 1
    BY <1>1 DEF Min
<1>7. removed = remove(m, s, i - 1)
    BY <1>5, <1>6 DEF RemoveItem
<1> QED
    BY <1>7, RemoveOk

-----------------------------------------------------------------------------
(* The lists as the controller is set up.                                  *)

NoLists == [mem |-> NoMemory, list |-> [l \in Lists |-> Empty], registered |-> [l \in Lists |-> <<>>]]

Fill(s, c) == Added(s, IF c \in Watchers THEN "watchers" ELSE "reconcilers", c)

Fills(after, order, n) == after[0] = NoLists /\ \A m \in 1..n : after[m] = Fill(after[m - 1], order[m])

(* The loop of Filled: after[n] is the result of n additions.              *)
LEMMA FilledRuns ==
    ASSUME NEW order, order = SetToSeq(Watchers \cup Reconcilers), Len(order) \in Nat
    PROVE  \E after : /\ Fills(after, order, Len(order))
                      /\ Filled = after[Len(order)]
<1> DEFINE Body(g) == [n \in 0..Len(order) |-> IF n = 0 THEN NoLists
                                              ELSE Added(g[n - 1], IF order[n] \in Watchers THEN "watchers" ELSE "reconcilers", order[n])]
           after == CHOOSE g : g = Body(g)
           T == {n \in Nat : \E g : Fills(g, order, n)}
<1>1. Filled = after[Len(order)]
    BY Zenon DEF Filled, NoLists
<1>2. 0 \in T
    <2>1. Fills([m \in {0} |-> NoLists], order, 0)
        BY DEF Fills
    <2> QED
        BY <2>1
<1>3. ASSUME NEW n \in Nat, n \in T PROVE n + 1 \in T
    <2>1. PICK g : Fills(g, order, n)
        BY <1>3
    <2>2. PICK last : last = Fill(g[n], order[n + 1])
        OBVIOUS
    <2>3. PICK h : h = [m \in 0..(n + 1) |-> IF m = n + 1 THEN last ELSE g[m]]
        OBVIOUS
    <2>4. h[0] = NoLists /\ h[n + 1] = last /\ \A m \in 0..n : h[m] = g[m]
        BY <2>1, <2>3 DEF Fills
    <2>5. ASSUME NEW m \in 1..(n + 1) PROVE h[m] = Fill(h[m - 1], order[m])
        <3>1. CASE m = n + 1
            <4>1. h[m - 1] = g[n]
                BY <2>4, <3>1
            <4> QED
                BY <2>2, <2>4, <3>1, <4>1
        <3>2. CASE m # n + 1
            <4>1. m \in 1..n /\ m \in 0..n /\ m - 1 \in 0..n
                BY <3>2
            <4> QED
                BY <2>1, <2>4, <4>1 DEF Fills
        <3> QED
            BY <3>1, <3>2
    <2>6. Fills(h, order, n + 1)
        BY <2>4, <2>5 DEF Fills
    <2> QED
        BY <2>6
<1>4. PICK g : Fills(g, order, Len(order))
    <2> HIDE DEF T
    <2>1. Len(order) \in T
        BY <1>2, <1>3, Induction
    <2> QED
        BY <2>1 DEF T
<1>5. PICK h : h = [n \in 0..Len(order) |-> g[n]]
    OBVIOUS
<1>6. h = Body(h)
    <2>1. ASSUME NEW n \in 0..Len(order)
          PROVE  h[n] = IF n = 0 THEN NoLists ELSE Fill(h[n - 1], order[n])
        <3>1. CASE n = 0
            BY <1>4, <1>5, <3>1 DEF Fills
        <3>2. CASE n # 0
            <4>1. n \in 1..Len(order) /\ n - 1 \in 0..Len(order)
                BY <3>2
            <4>2. h[n] = g[n] /\ h[n - 1] = g[n - 1]
                BY <1>5, <4>1
            <4> QED
                BY <1>4, <3>2, <4>1, <4>2 DEF Fills
        <3> QED
            BY <3>1, <3>2
    <2> QED
        BY <1>5, <2>1 DEF Fill
<1>7. after = Body(after)
    BY <1>6
<1> HIDE DEF after
<1>8. Fills(after, order, Len(order))
    <2>1. after[0] = NoLists
        BY <1>7
    <2>2. ASSUME NEW m \in 1..Len(order) PROVE after[m] = Fill(after[m - 1], order[m])
        <3>1. m \in 0..Len(order) /\ m # 0
            OBVIOUS
        <3> QED
            BY <1>7, <3>1 DEF Fill
    <2> QED
        BY <2>1, <2>2 DEF Fills
<1> QED
    BY <1>1, <1>8

LEMMA AddedOk ==
    ASSUME NEW s, ListsOk(s), NEW l \in Lists, NEW c \in Consumers(l),
           \A i \in 1..Len(s.registered[l]) : s.registered[l][i] # c, NEW t, t = Added(s, l, c)
    PROVE  /\ ListsOk(t) /\ t.registered = [s.registered EXCEPT ![l] = Append(@, c)]
           /\ \E slice : /\ t.list = [s.list EXCEPT ![l] = slice]
                         /\ Written(s.mem, t.mem, s.list[l].array, slice.array, {c})
<1>1. Memory(s.mem) /\ Shows(s.mem, s.list[l], s.registered[l], l)
    BY DEF ListsOk
<1>2. PICK added : added = AddItem(s.mem, s.list[l], c)
    OBVIOUS
<1>3. /\ Memory(added.mem) /\ Shows(added.mem, added.slice, Append(s.registered[l], c), l)
      /\ Written(s.mem, added.mem, s.list[l].array, added.slice.array, {c})
    BY <1>1, <1>2, AddItemOk
<1>4. /\ t.mem = added.mem /\ t.list = [s.list EXCEPT ![l] = added.slice]
      /\ t.registered = [s.registered EXCEPT ![l] = Append(s.registered[l], c)]
    BY <1>2 DEF Added
<1>5. ListsOk(t)
    BY <1>3, <1>4, OtherListKept
<1> QED
    BY <1>3, <1>4, <1>5

LEMMA NoListsOk == ListsOk(NoLists)
<1>1. /\ NoLists.mem = NoMemory /\ NoLists.list = [l \in Lists |-> Empty]
      /\ NoLists.registered = [l \in Lists |-> <<>>]
    BY DEF NoLists
<1>2. <<>> \in Seq(Values) /\ Len(<<>>) = 0
    BY EmptySeq
<1>3. Memory(NoMemory) /\ Len(NoMemory) = 1 /\ NoMemory[1] = <<>>
    BY <1>2 DEF Memory, NoMemory
<1>4. Window(NoMemory, Empty) /\ Empty \in Slices
    BY <1>2, <1>3 DEF Window, Empty, Slices
<1>5. ASSUME NEW l \in Lists PROVE Shows(NoMemory, Empty, <<>>, l)
    BY <1>2, <1>4, EmptySeq DEF Shows, Empty, Once
<1>6. Apart(Empty, Empty)
    BY DEF Apart, Empty
<1> QED
    BY <1>1, <1>2, <1>3, <1>4, <1>5, <1>6 DEF ListsOk, Lists

LEMMA FilledOk == ListsOk(Filled) /\ Filled = [mem |-> Filled.mem, list |-> Filled.list, registered |-> Filled.registered]
<1>1. PICK order : order = SetToSeq(Watchers \cup Reconcilers)
    OBVIOUS
<1>2. order \in Seq(Watchers \cup Reconcilers) /\ Once(order)
    <2>1. IsFiniteSet(Watchers \cup Reconcilers)
        BY ControllerAssumption, FS_Union
    <2> QED
        BY <1>1, <2>1, SequenceOfSet
<1>3. Len(order) \in Nat
    BY <1>2, LenProperties
<1>4. PICK after : Fills(after, order, Len(order)) /\ Filled = after[Len(order)]
    BY <1>1, <1>3, FilledRuns
<1> DEFINE Fresh(n) == \A l \in Lists : \A i \in 1..Len(after[n].registered[l]) :
                           \E m \in 1..n : after[n].registered[l][i] = order[m]
           Record(s) == s = [mem |-> s.mem, list |-> s.list, registered |-> s.registered]
           T == {n \in Nat : n <= Len(order) => ListsOk(after[n]) /\ Fresh(n) /\ Record(after[n])}
<1>5. 0 \in T
    <2>1. after[0] = NoLists
        BY <1>4 DEF Fills
    <2>2. Fresh(0)
        BY <2>1, EmptySeq DEF NoLists
    <2>3. Record(after[0])
        BY <2>1 DEF NoLists
    <2> QED
        BY <2>1, <2>2, <2>3, NoListsOk
<1>6. ASSUME NEW n \in Nat, n \in T PROVE n + 1 \in T
    <2> SUFFICES ASSUME n + 1 <= Len(order)
                 PROVE  ListsOk(after[n + 1]) /\ Fresh(n + 1) /\ Record(after[n + 1])
        OBVIOUS
    <2>1. n + 1 \in 1..Len(order) /\ n <= Len(order) /\ (n + 1) - 1 = n
        BY <1>3
    <2>2. ListsOk(after[n]) /\ Fresh(n)
        BY <1>6, <2>1
    <2>3. PICK c : c = order[n + 1]
        OBVIOUS
    <2>4. c \in Watchers \cup Reconcilers
        BY <1>2, <2>1, <2>3, ElementOfSeq
    <2>5. PICK l \in Lists : l = (IF c \in Watchers THEN "watchers" ELSE "reconcilers")
        BY DEF Lists
    <2>6. c \in Consumers(l) /\ after[n + 1] = Added(after[n], l, c)
        <3>1. c \in Consumers(l)
            BY <2>4, <2>5 DEF Consumers
        <3>2. after[n + 1] = Fill(after[n], c)
            BY <1>4, <2>1, <2>3 DEF Fills
        <3> QED
            BY <2>5, <3>1, <3>2 DEF Fill
    <2>7. \A i \in 1..Len(after[n].registered[l]) : after[n].registered[l][i] # c
        <3> SUFFICES ASSUME NEW i \in 1..Len(after[n].registered[l]), after[n].registered[l][i] = c PROVE FALSE
            OBVIOUS
        <3>1. PICK m \in 1..n : c = order[m]
            BY <2>2
        <3>2. m \in 1..Len(order) /\ m # n + 1
            BY <2>1, <1>3
        <3> QED
            BY <1>2, <2>1, <2>3, <3>1, <3>2 DEF Once
    <2>8. ListsOk(after[n + 1]) /\ after[n + 1].registered = [after[n].registered EXCEPT ![l] = Append(@, c)]
        <3>1. PICK s, t : s = after[n] /\ t = after[n + 1]
            OBVIOUS
        <3>2. ListsOk(s) /\ t = Added(s, l, c) /\ c \in Consumers(l)
            BY <2>2, <2>6, <3>1
        <3>3. \A i \in 1..Len(s.registered[l]) : s.registered[l][i] # c
            BY <2>7, <3>1
        <3>4. ListsOk(t) /\ t.registered = [s.registered EXCEPT ![l] = Append(@, c)]
            <4>1. ListsOk(t)
                BY <3>2, <3>3, AddedOk
            <4> QED
                BY <3>2, <4>1 DEF Added
        <3> QED
            BY <3>1, <3>4
    <2>9. Record(after[n + 1])
        BY <2>6 DEF Added
    <2>10. Fresh(n + 1)
        <3> SUFFICES ASSUME NEW x \in Lists, NEW i \in 1..Len(after[n + 1].registered[x])
                     PROVE  \E m \in 1..(n + 1) : after[n + 1].registered[x][i] = order[m]
            OBVIOUS
        <3>1. after[n].registered \in [Lists -> Seq(Values)]
            BY <2>2 DEF ListsOk
        <3>2. CASE x # l
            <4>1. after[n + 1].registered[x] = after[n].registered[x]
                BY <2>8, <3>1, <3>2
            <4> QED
                BY <2>2, <4>1
        <3>3. CASE x = l
            <4>1. PICK r \in Seq(Values) : r = after[n].registered[l]
                BY <3>1
            <4>2. after[n + 1].registered[x] = Append(r, c) /\ c \in Values
                BY <2>4, <2>8, <3>1, <3>3, <4>1 DEF Values
            <4>3. /\ Len(Append(r, c)) = Len(r) + 1 /\ Len(r) \in Nat
                  /\ \A j \in 1..Len(r) : Append(r, c)[j] = r[j]
                  /\ Append(r, c)[Len(r) + 1] = c
                BY <4>2, AppendProperties, LenProperties
            <4>4. CASE i = Len(r) + 1
                <5>1. after[n + 1].registered[x][i] = order[n + 1] /\ n + 1 \in 1..(n + 1)
                    BY <2>3, <4>2, <4>3, <4>4
                <5> QED
                    BY <5>1
            <4>5. CASE i # Len(r) + 1
                <5>1. i \in 1..Len(r)
                    BY <4>2, <4>3, <4>5
                <5>2. PICK m \in 1..n : r[i] = order[m]
                    BY <2>2, <4>1, <5>1
                <5> QED
                    BY <4>2, <4>3, <5>1, <5>2
            <4> QED
                BY <4>4, <4>5
        <3> QED
            BY <3>2, <3>3
    <2> QED
        BY <2>8, <2>9, <2>10
<1>7. Len(order) \in T
    <2> HIDE DEF T
    <2> QED
        BY <1>3, <1>5, <1>6, Induction
<1> QED
    BY <1>3, <1>4, <1>7

-----------------------------------------------------------------------------
(* Lists of retries.                                                       *)

Pass(r, x, S) == IF x \in S THEN Append(r, x) ELSE r

Passes(after, s, S, n) == after[0] = <<>> /\ \A m \in 1..n : after[m] = Pass(after[m - 1], s[m], S)

(* The loop of Selected: after[n] is what is selected of n elements.       *)
LEMMA SelectedRuns ==
    ASSUME NEW s, NEW S, Len(s) \in Nat
    PROVE  \E after : /\ Passes(after, s, S, Len(s))
                      /\ Selected(s, S) = after[Len(s)]
<1> DEFINE Body(g) == [n \in 0..Len(s) |-> IF n = 0 THEN <<>>
                                              ELSE IF s[n] \in S THEN Append(g[n - 1], s[n]) ELSE g[n - 1]]
           after == CHOOSE g : g = Body(g)
           T == {n \in Nat : \E g : Passes(g, s, S, n)}
<1>1. Selected(s, S) = after[Len(s)]
    BY Zenon DEF Selected
<1>2. 0 \in T
    <2>1. Passes([m \in {0} |-> <<>>], s, S, 0)
        BY DEF Passes
    <2> QED
        BY <2>1
<1>3. ASSUME NEW n \in Nat, n \in T PROVE n + 1 \in T
    <2>1. PICK g : Passes(g, s, S, n)
        BY <1>3
    <2>2. PICK last : last = Pass(g[n], s[n + 1], S)
        OBVIOUS
    <2>3. PICK h : h = [m \in 0..(n + 1) |-> IF m = n + 1 THEN last ELSE g[m]]
        OBVIOUS
    <2>4. h[0] = <<>> /\ h[n + 1] = last /\ \A m \in 0..n : h[m] = g[m]
        BY <2>1, <2>3 DEF Passes
    <2>5. ASSUME NEW m \in 1..(n + 1) PROVE h[m] = Pass(h[m - 1], s[m], S)
        <3>1. CASE m = n + 1
            <4>1. h[m - 1] = g[n]
                BY <2>4, <3>1
            <4> QED
                BY <2>2, <2>4, <3>1, <4>1
        <3>2. CASE m # n + 1
            <4>1. m \in 1..n /\ m \in 0..n /\ m - 1 \in 0..n
                BY <3>2
            <4> QED
                BY <2>1, <2>4, <4>1 DEF Passes
        <3> QED
            BY <3>1, <3>2
    <2>6. Passes(h, s, S, n + 1)
        BY <2>4, <2>5 DEF Passes
    <2> QED
        BY <2>6
<1>4. PICK g : Passes(g, s, S, Len(s))
    <2> HIDE DEF T
    <2>1. Len(s) \in T
        BY <1>2, <1>3, Induction
    <2> QED
        BY <2>1 DEF T
<1>5. PICK h : h = [n \in 0..Len(s) |-> g[n]]
    OBVIOUS
<1>6. h = Body(h)
    <2>1. ASSUME NEW n \in 0..Len(s)
          PROVE  h[n] = IF n = 0 THEN <<>> ELSE Pass(h[n - 1], s[n], S)
        <3>1. CASE n = 0
            BY <1>4, <1>5, <3>1 DEF Passes
        <3>2. CASE n # 0
            <4>1. n \in 1..Len(s) /\ n - 1 \in 0..Len(s)
                BY <3>2
            <4>2. h[n] = g[n] /\ h[n - 1] = g[n - 1]
                BY <1>5, <4>1
            <4> QED
                BY <1>4, <3>2, <4>1, <4>2 DEF Passes
        <3> QED
            BY <3>1, <3>2
    <2> QED
        BY <1>5, <2>1 DEF Pass
<1>7. after = Body(after)
    BY <1>6
<1> HIDE DEF after
<1>8. Passes(after, s, S, Len(s))
    <2>1. after[0] = <<>>
        BY <1>7
    <2>2. ASSUME NEW m \in 1..Len(s) PROVE after[m] = Pass(after[m - 1], s[m], S)
        <3>1. m \in 0..Len(s) /\ m # 0
            OBVIOUS
        <3> QED
            BY <1>7, <3>1 DEF Pass
    <2> QED
        BY <2>1, <2>2 DEF Passes
<1> QED
    BY <1>1, <1>8

LEMMA ToSetOk ==
    ASSUME NEW T, NEW s \in Seq(T)
    PROVE  /\ ToSet(s) = {s[i] : i \in 1..Len(s)} /\ ToSet(s) \subseteq T
           /\ Events(s) = {r.n : r \in ToSet(s)} /\ Len(s) \in Nat
<1>1. DOMAIN s = 1..Len(s) /\ Len(s) \in Nat /\ \A i \in 1..Len(s) : s[i] \in T
    BY LenProperties, ElementOfSeq
<1>2. ToSet(s) = {s[i] : i \in 1..Len(s)}
    BY <1>1 DEF ToSet
<1>3. Events(s) = {r.n : r \in ToSet(s)}
    <2>1. ASSUME NEW n \in Events(s) PROVE n \in {r.n : r \in ToSet(s)}
        <3>1. PICK i \in 1..Len(s) : n = s[i].n
            BY <2>1 DEF Events
        <3> QED
            BY <1>2, <3>1
    <2>2. ASSUME NEW r \in ToSet(s) PROVE r.n \in Events(s)
        <3>1. PICK i \in 1..Len(s) : r = s[i]
            BY <1>2, <2>2
        <3> QED
            BY <3>1 DEF Events
    <2> QED
        BY <2>1, <2>2
<1> QED
    BY <1>1, <1>2, <1>3

LEMMA AppendSingle ==
    ASSUME NEW T, NEW r \in Seq(T), NEW c \in T
    PROVE  /\ Append(r, c) \in Seq(T) /\ Append(r, c) # <<>>
           /\ Events(Append(r, c)) = Events(r) \cup {c.n}
           /\ Single(r) /\ c.n \notin Events(r) => Single(Append(r, c))
<1>1. PICK q : q = Append(r, c)
    OBVIOUS
<1>2. /\ q \in Seq(T) /\ q # <<>> /\ Len(q) = Len(r) + 1 /\ q[Len(r) + 1] = c /\ Len(r) \in Nat
      /\ \A i \in 1..Len(r) : q[i] = r[i]
    BY <1>1, AppendProperties, LenProperties
<1>3. \A i \in 1..Len(q) : i \in 1..Len(r) \/ i = Len(r) + 1
    BY <1>2
<1>4. Events(q) = Events(r) \cup {c.n}
    <2>1. ASSUME NEW n \in Events(q) PROVE n \in Events(r) \cup {c.n}
        <3>1. PICK i \in 1..Len(q) : n = q[i].n
            BY <2>1 DEF Events
        <3> QED
            BY <1>2, <1>3, <3>1 DEF Events
    <2>2. ASSUME NEW n \in Events(r) PROVE n \in Events(q)
        <3>1. PICK i \in 1..Len(r) : n = r[i].n
            BY <2>2 DEF Events
        <3>2. i \in 1..Len(q) /\ n = q[i].n
            BY <1>2, <3>1
        <3> QED
            BY <3>2 DEF Events
    <2>3. c.n \in Events(q)
        <3>1. Len(r) + 1 \in 1..Len(q) /\ c.n = q[Len(r) + 1].n
            BY <1>2
        <3> QED
            BY <3>1 DEF Events
    <2> QED
        BY <2>1, <2>2, <2>3
<1>5. ASSUME Single(r), c.n \notin Events(r) PROVE Single(q)
    <2> SUFFICES ASSUME NEW i \in 1..Len(q), NEW j \in 1..Len(q), q[i].n = q[j].n PROVE i = j
        BY DEF Single
    <2>1. CASE i \in 1..Len(r) /\ j \in 1..Len(r)
        BY <1>2, <1>5, <2>1 DEF Single
    <2>2. CASE i \in 1..Len(r) /\ j = Len(r) + 1
        <3>1. q[i].n \in Events(r)
            BY <1>2, <2>2 DEF Events
        <3> QED
            BY <1>2, <1>5, <2>2, <3>1
    <2>3. CASE j \in 1..Len(r) /\ i = Len(r) + 1
        <3>1. q[j].n \in Events(r)
            BY <1>2, <2>3 DEF Events
        <3> QED
            BY <1>2, <1>5, <2>3, <3>1
    <2> QED
        BY <1>3, <2>1, <2>2, <2>3
<1> QED
    BY <1>1, <1>2, <1>4, <1>5

(* Selected keeps the elements of S, and keeps them apart.                 *)
LEMMA SelectedOk ==
    ASSUME NEW T, NEW s \in Seq(T), NEW S
    PROVE  /\ Selected(s, S) \in Seq(T) /\ ToSet(Selected(s, S)) = ToSet(s) \cap S
           /\ Single(s) => Single(Selected(s, S))
<1>1. Len(s) \in Nat /\ \A i \in 1..Len(s) : s[i] \in T
    BY LenProperties, ElementOfSeq
<1>2. PICK after : Passes(after, s, S, Len(s)) /\ Selected(s, S) = after[Len(s)]
    BY <1>1, SelectedRuns
<1> DEFINE Part(n) == {s[i] : i \in 1..n}
           P(n) == /\ after[n] \in Seq(T) /\ ToSet(after[n]) = Part(n) \cap S
                   /\ Single(s) => Single(after[n])
           U == {n \in Nat : n <= Len(s) => P(n)}
<1>3. 0 \in U
    <2>1. after[0] = <<>>
        BY <1>2 DEF Passes
    <2>2. <<>> \in Seq(T) /\ ToSet(<<>>) = {} /\ Single(<<>>)
        BY EmptySeq DEF ToSet, Single
    <2>3. Part(0) = {}
        OBVIOUS
    <2> QED
        BY <2>1, <2>2, <2>3
<1>4. ASSUME NEW n \in Nat, n \in U PROVE n + 1 \in U
    <2> SUFFICES ASSUME n + 1 <= Len(s) PROVE P(n + 1)
        OBVIOUS
    <2>1. n + 1 \in 1..Len(s) /\ n <= Len(s) /\ (n + 1) - 1 = n
        BY <1>1
    <2>2. P(n)
        BY <1>4, <2>1
    <2>3. PICK x \in T : x = s[n + 1]
        BY <1>1, <2>1
    <2>4. after[n + 1] = Pass(after[n], x, S)
        BY <1>2, <2>1, <2>3 DEF Passes
    <2>5. Part(n + 1) = Part(n) \cup {x}
        <3>1. \A i \in 1..(n + 1) : i \in 1..n \/ i = n + 1
            OBVIOUS
        <3>2. \A i \in 1..n : i \in 1..(n + 1)
            OBVIOUS
        <3>3. n + 1 \in 1..(n + 1)
            OBVIOUS
        <3> QED
            BY <2>3, <3>1, <3>2, <3>3
    <2>6. CASE x \notin S
        BY <2>2, <2>4, <2>5, <2>6 DEF Pass
    <2>7. CASE x \in S
        <3>1. PICK r \in Seq(T) : r = after[n] /\ after[n + 1] = Append(r, x)
            BY <2>2, <2>4, <2>7 DEF Pass
        <3>2. ToSet(r) = Part(n) \cap S
            BY <2>2, <3>1
        <3>3. Append(r, x) \in Seq(T) /\ (Single(r) /\ x.n \notin Events(r) => Single(Append(r, x)))
            BY AppendSingle
        <3>4. ToSet(Append(r, x)) = ToSet(r) \cup {x}
            <4>1. /\ Len(Append(r, x)) = Len(r) + 1 /\ Len(r) \in Nat /\ Append(r, x)[Len(r) + 1] = x
                  /\ \A i \in 1..Len(r) : Append(r, x)[i] = r[i]
                BY AppendProperties, LenProperties
            <4>2. ToSet(r) = {r[i] : i \in 1..Len(r)}
                BY ToSetOk
            <4>3. ToSet(Append(r, x)) = {Append(r, x)[i] : i \in 1..(Len(r) + 1)}
                BY <3>3, <4>1, ToSetOk
            <4>4. \A i \in 1..(Len(r) + 1) : i \in 1..Len(r) \/ i = Len(r) + 1
                BY <4>1
            <4>5. (\A i \in 1..Len(r) : i \in 1..(Len(r) + 1)) /\ Len(r) + 1 \in 1..(Len(r) + 1)
                BY <4>1
            <4> QED
                BY <4>1, <4>2, <4>3, <4>4, <4>5
        <3>5. ASSUME Single(s) PROVE x.n \notin Events(r)
            <4> SUFFICES ASSUME x.n \in Events(r) PROVE FALSE
                OBVIOUS
            <4>1. Events(r) = {y.n : y \in ToSet(r)}
                BY ToSetOk
            <4>2. PICK y \in ToSet(r) : y.n = x.n
                BY <4>1
            <4>3. PICK i \in 1..n : y = s[i]
                BY <3>2, <4>2
            <4>4. i \in 1..Len(s) /\ i # n + 1
                BY <2>1
            <4> QED
                BY <2>1, <2>3, <3>5, <4>2, <4>3, <4>4 DEF Single
        <3>6. Single(s) => Single(Append(r, x))
            BY <2>2, <3>1, <3>3, <3>5
        <3>7. ToSet(Append(r, x)) = Part(n + 1) \cap S
            BY <2>5, <2>7, <3>2, <3>4
        <3> QED
            BY <3>1, <3>3, <3>6, <3>7
    <2> QED
        BY <2>6, <2>7
<1>5. Len(s) \in U
    <2> HIDE DEF U
    <2> QED
        BY <1>1, <1>3, <1>4, Induction
<1>6. P(Len(s))
    BY <1>1, <1>5
<1>7. ToSet(s) = Part(Len(s))
    BY ToSetOk
<1> QED
    BY <1>2, <1>6, <1>7

-----------------------------------------------------------------------------
(* ListInv is kept.                                                        *)

LEMMA CurrentOk ==
    Current.mem = mem /\ Current.list = list /\ Current.registered = registered
BY DEF Current

LEMMA ListsParts ==
    ASSUME ListInv
    PROVE  /\ Memory(mem) /\ Len(mem) \in Nat /\ mem[1] = <<>> /\ Len(mem) >= 1
           /\ list \in [Lists -> Slices] /\ registered \in [Lists -> Seq(Values)]
           /\ \A l \in Lists : Shows(mem, list[l], registered[l], l)
           /\ Apart(list["watchers"], list["reconcilers"])
<1>1. ListsOk(Current)
    BY DEF ListInv
<1>2. Memory(mem)
    BY <1>1, CurrentOk DEF ListsOk
<1>3. Len(mem) \in Nat
    BY <1>2, LenProperties DEF Memory
<1> QED
    BY <1>1, <1>2, <1>3, CurrentOk DEF ListsOk, Memory

(* A handler that starts on an element, or ends.                           *)
LEMMA AtIndexOk ==
    ASSUME ListInv, NEW h \in Handlers, NEW i \in Nat, Reading(h, mem, list, registered),
           h.event.n # 0, NEW g, g = AtIndex(h, i)
    PROVE  /\ HandlerOk(g) /\ Reading(g, mem, list, registered)
           /\ g.pc \in {"dequeue", "end"} /\ g.list = h.list /\ g.event = h.event /\ g.i = i
<1>1. /\ h.slice \in Slices /\ Memory(mem) /\ h.slice.array \in 1..Len(mem)
      /\ h.slice.off + h.slice.len <= Len(mem[h.slice.array])
      /\ h.slice.off \in Nat /\ h.slice.len \in Nat
      /\ \A j \in 1..h.slice.len : mem[h.slice.array][h.slice.off + j] \in h.known
    BY ListsParts DEF Reading, Window, Slices
<1>2. CASE i < h.slice.len
    <2>1. PICK c : c = ItemAt(mem, h.slice, i)
        OBVIOUS
    <2>2. g = [h EXCEPT !.pc = "dequeue", !.i = i, !.consumer = c]
        BY <1>2, <2>1 DEF AtIndex
    <2>3. c \in h.known
        <3>1. i + 1 \in 1..h.slice.len /\ h.slice.off + i + 1 = h.slice.off + (i + 1)
            <4>1. PICK off \in Nat, len \in Nat : off = h.slice.off /\ len = h.slice.len /\ i < len
                BY <1>1, <1>2
            <4> QED
                BY <4>1
        <3> QED
            BY <1>1, <2>1, <3>1 DEF ItemAt
    <2>4. c \in Values
        BY <2>3 DEF Handlers
    <2>5. g \in Handlers
        BY <2>2, <2>4 DEF Handlers
    <2>6. /\ g.pc = "dequeue" /\ g.i = i /\ g.consumer = c /\ g.list = h.list /\ g.event = h.event
          /\ g.slice = h.slice /\ g.known = h.known
        BY <2>2 DEF Handlers
    <2> QED
        BY <1>2, <2>3, <2>5, <2>6 DEF HandlerOk, Reading
<1>3. CASE ~(i < h.slice.len)
    <2>1. g = [h EXCEPT !.pc = "end", !.i = i, !.consumer = NoItem]
        BY <1>3 DEF AtIndex
    <2>2. g \in Handlers
        BY <2>1 DEF Handlers, Values
    <2>3. /\ g.pc = "end" /\ g.i = i /\ g.list = h.list /\ g.event = h.event
          /\ g.slice = h.slice /\ g.known = h.known
        BY <2>1 DEF Handlers
    <2> QED
        BY <2>2, <2>3 DEF HandlerOk, Reading
<1> QED
    BY <1>2, <1>3

(* A change of the list l, while a handler may be reading its array.       *)
LEMMA ListsChange ==
    ASSUME ListInv, NEW l \in Lists, NEW sl, NEW r, NEW S, Memory(mem'), HandlerOk(handler'),
           list' = [list EXCEPT ![l] = sl], registered' = [registered EXCEPT ![l] = r],
           Shows(mem', sl, r, l), Written(mem, mem', list[l].array, sl.array, S),
           handler'.pc = handler.pc, handler'.list = handler.list, handler'.slice = handler.slice,
           handler.known \subseteq handler'.known,
           Ranging(l) => ToSet(r) \subseteq handler'.known /\ S \subseteq handler'.known
    PROVE  ListInv'
<1>1. ListsOk(Current')
    <2>1. ListsOk(Current) /\ Current.mem = mem /\ Current.list = list /\ Current.registered = registered
        BY CurrentOk DEF ListInv
    <2>2. PICK t : t = Current'
        OBVIOUS
    <2>3. t.mem = mem' /\ t.list = list' /\ t.registered = registered'
        BY <2>2 DEF Current
    <2>4. ListsOk(t)
        <3>1. PICK s : s = Current
            OBVIOUS
        <3>2. ListsOk(s) /\ s.mem = mem /\ s.list = list /\ s.registered = registered
            BY <2>1, <3>1
        <3>3. Memory(t.mem) /\ t.list = [s.list EXCEPT ![l] = sl] /\ t.registered = [s.registered EXCEPT ![l] = r]
            BY <2>3, <3>2
        <3>4. Shows(t.mem, sl, r, l) /\ Written(s.mem, t.mem, s.list[l].array, sl.array, S)
            BY <2>3, <3>2
        <3> QED
            BY <3>2, <3>3, <3>4, OtherListKept
    <2> QED
        BY <2>2, <2>4
<1>2. ASSUME handler.pc \notin {"idle", "range"} PROVE Reading(handler', mem', list', registered')
    <2>1. Reading(handler, mem, list, registered)
        BY <1>2 DEF ListInv
    <2>2. handler.list \in Lists /\ handler.slice \in Slices
        BY DEF ListInv, HandlerOk, Handlers
    <2>3. PICK a \in 1..Len(mem), off \in Nat, len \in Nat :
              /\ a = handler.slice.array /\ off = handler.slice.off /\ len = handler.slice.len
              /\ off + len <= Len(mem[a])
        BY <2>1 DEF Reading, Window, Slices
    <2>4. Len(mem[a]) \in Nat /\ Len(mem) \in Nat /\ Len(mem') \in Nat
        <3>1. Len(mem') \in Nat
            BY LenProperties DEF Memory
        <3> QED
            BY <3>1, ArrayOk, ListsParts
    <2>5. Window(mem', handler.slice)
        <3>1. Len(mem'[a]) = Len(mem[a]) /\ a \in 1..Len(mem')
            BY <2>4 DEF Written
        <3> QED
            BY <2>2, <2>3, <3>1 DEF Window
    <2>6. \A j \in 1..len : off + j \in 1..Len(mem[a]) /\ mem[a][off + j] \in handler.known
        <3>1. \A j \in 1..len : off + j \in 1..Len(mem[a])
            BY <2>3, <2>4, InsideArray
        <3> QED
            BY <2>1, <2>3, <3>1 DEF Reading
    <2>7. PICK o \in Lists : o = Other(l) /\ o # l /\ Lists = {l, o}
        BY ConsumersAreValues
    <2>8. /\ list'[l] = sl /\ registered'[l] = r /\ list'[o] = list[o] /\ registered'[o] = registered[o]
          /\ list[l] \in Slices /\ list[o] \in Slices
        BY <2>7, ListsParts
    <2>9. handler.list = l \/ (handler.list = o /\ Other(handler.list) = l)
        BY <2>2, <2>7 DEF Other, Lists
    <2>10. \A j \in 1..len : mem'[a][off + j] \in handler'.known
        <3> SUFFICES ASSUME NEW j \in 1..len PROVE mem'[a][off + j] \in handler'.known
            OBVIOUS
        <3>1. \/ mem'[a][off + j] = mem[a][off + j]
              \/ a = list[l].array /\ mem'[a][off + j] \in S
            BY <2>6 DEF Written
        <3>2. CASE handler.list = l
            BY <1>2, <2>6, <3>1, <3>2 DEF Ranging
        <3>3. CASE handler.list = o /\ Other(handler.list) = l
            <4>1. Apart(handler.slice, list[l])
                BY <2>1, <3>3 DEF Reading
            <4>2. a # 1
                <5>1. Len(mem[1]) = 0
                    BY ListsParts, EmptySeq
                <5> QED
                    BY <2>6, <5>1
            <4> QED
                BY <2>3, <2>6, <3>1, <4>1, <4>2 DEF Apart
        <3> QED
            BY <2>9, <3>2, <3>3
    <2>11. ToSet(registered'[handler.list]) \subseteq handler'.known
        <3>1. CASE handler.list = l
            BY <1>2, <2>8, <3>1 DEF Ranging
        <3>2. CASE handler.list = o
            BY <2>1, <2>8, <3>2 DEF Reading
        <3> QED
            BY <2>9, <3>1, <3>2
    <2>12. Apart(handler.slice, list'[Other(handler.list)])
        <3>1. CASE handler.list = l
            BY <2>1, <2>7, <2>8, <3>1 DEF Reading
        <3>2. CASE handler.list = o /\ Other(handler.list) = l
            <4>1. sl.array \in {1, list[l].array} \/ sl.array > Len(mem)
                BY DEF Written
            <4>2. Apart(handler.slice, list[l])
                BY <2>1, <3>2 DEF Reading
            <4> QED
                BY <2>3, <2>4, <2>8, <3>2, <4>1, <4>2 DEF Apart
        <3> QED
            BY <2>9, <3>1, <3>2
    <2> QED
        BY <2>1, <2>3, <2>5, <2>10, <2>11, <2>12 DEF Reading
<1> QED
    BY <1>1, <1>2 DEF ListInv

LEMMA ListsSame ==
    ASSUME ListInv, UNCHANGED lists, HandlerOk(handler'),
           handler'.pc \notin {"idle", "range"} => Reading(handler', mem, list, registered)
    PROVE  ListInv'
<1>1. mem' = mem /\ list' = list /\ registered' = registered
    BY DEF lists
<1>2. ListsOk(Current')
    BY <1>1 DEF ListInv, Current
<1> QED
    BY <1>1, <1>2 DEF ListInv

LEMMA EventLists ==
    ASSUME ListInv, events \in Nat, NEW action \in Actions, NEW gen \in Nat, Event(action, gen)
    PROVE  /\ ListInv'
           /\ handler'.event.n = events + 1 /\ handler'.list = "watchers" /\ handler'.i = 0
<1>1. handler \in Handlers /\ handler.i = 0
    BY DEF ListInv, HandlerOk, Event
<1>2. handler' = [handler EXCEPT !.pc = "range", !.list = "watchers",
                      !.event = [n |-> events + 1, action |-> action, gen |-> gen]]
    BY DEF Event
<1>3. PICK e : e = [n |-> events + 1, action |-> action, gen |-> gen]
    OBVIOUS
<1>4. e \in [n: Nat, action: Actions, gen: Nat] /\ e.n = events + 1 /\ e.n # 0
    BY <1>3
<1>5. handler' = [handler EXCEPT !.pc = "range", !.list = "watchers", !.event = e]
    BY <1>2, <1>3
<1>6. /\ handler' \in Handlers /\ handler'.pc = "range" /\ handler'.list = "watchers"
      /\ handler'.event = e /\ handler'.i = 0
    BY <1>1, <1>4, <1>5 DEF Handlers, Lists
<1>7. HandlerOk(handler')
    BY <1>4, <1>6 DEF HandlerOk
<1>8. UNCHANGED lists
    BY DEF Event
<1> QED
    BY <1>4, <1>6, <1>7, <1>8, ListsSame

LEMMA RangeLoadsLists ==
    ASSUME ListInv, RangeLoads
    PROVE  /\ ListInv' /\ handler'.event = handler.event /\ handler'.list = handler.list
           /\ handler'.i = handler.i
<1>1. handler \in Handlers /\ handler.i = 0 /\ handler.event.n # 0 /\ handler.list \in Lists
    BY DEF ListInv, HandlerOk, RangeLoads, Handlers
<1>2. PICK items, slice : items = ToSet(registered[handler.list]) /\ slice = list[handler.list]
    OBVIOUS
<1>3. Shows(mem, slice, registered[handler.list], handler.list) /\ slice \in Slices
      /\ registered[handler.list] \in Seq(Values)
    BY <1>1, <1>2, ListsParts
<1>4. items \subseteq Values
    BY <1>2, <1>3, ToSetOk
<1>5. PICK h : h = [handler EXCEPT !.slice = slice, !.called = {}, !.known = items, !.present = items]
    OBVIOUS
<1>6. h \in Handlers
    BY <1>1, <1>3, <1>4, <1>5 DEF Handlers
<1>7. /\ h.list = handler.list /\ h.event = handler.event /\ h.slice = slice /\ h.known = items
    BY <1>1, <1>5 DEF Handlers
<1>8. Reading(h, mem, list, registered)
    <2>1. PICK r \in Seq(Values) : r = registered[handler.list]
        BY <1>3
    <2>2. Shows(mem, slice, r, handler.list)
        BY <1>3, <2>1
    <2>3. Window(mem, slice) /\ slice.len = Len(r) /\ Once(r) /\ r \in Seq(Consumers(handler.list))
        BY <2>2 DEF Shows
    <2>4. slice.len <= Cardinality(Consumers(handler.list))
        BY <1>1, <2>3, ListFits
    <2>5. \A j \in 1..slice.len : mem[slice.array][slice.off + j] \in items
        <3>1. items = {r[j] : j \in 1..Len(r)}
            BY <1>2, <2>1, ToSetOk
        <3> QED
            BY <2>2, <2>3, <3>1 DEF Shows
    <2>6. Apart(slice, list[Other(handler.list)])
        BY <1>1, <1>2, ListsParts DEF Apart, Other, Lists
    <2> QED
        BY <1>2, <1>7, <2>3, <2>4, <2>5, <2>6 DEF Reading
<1>9. handler' = AtIndex(h, 0)
    BY <1>2, <1>5 DEF RangeLoads
<1>10. /\ HandlerOk(handler') /\ Reading(handler', mem, list, registered)
       /\ handler'.list = h.list /\ handler'.event = h.event /\ handler'.i = 0
    <2>1. h.event.n # 0 /\ 0 \in Nat
        BY <1>1, <1>7
    <2> QED
        BY <1>6, <1>8, <1>9, <2>1, AtIndexOk
<1>11. UNCHANGED lists
    BY DEF RangeLoads
<1> QED
    BY <1>1, <1>7, <1>10, <1>11, ListsSame

LEMMA CallLists ==
    ASSUME ListInv, NEW result, dequeueIfRequired \/ Return(result) \/ queueRetry
    PROVE  /\ ListInv' /\ handler'.event = handler.event /\ handler'.list = handler.list
           /\ handler'.i \in {handler.i, handler.i + 1}
           /\ queueRetry => handler'.i = handler.i + 1
           /\ dequeueIfRequired => handler'.i = handler.i
<1>1. /\ handler \in Handlers /\ handler.event.n # 0 /\ handler.i \in Nat /\ handler.consumer \in Values
      /\ Reading(handler, mem, list, registered)
      /\ handler.i < handler.slice.len /\ handler.consumer \in handler.known
    BY DEF ListInv, HandlerOk, dequeueIfRequired, Return, queueRetry, Handlers
<1>2. UNCHANGED lists
    BY DEF dequeueIfRequired, Return, queueRetry
<1>3. ASSUME NEW pc \in {"call", "queue"}, NEW called \in SUBSET Values,
             handler' = [handler EXCEPT !.pc = pc, !.called = called]
      PROVE  /\ ListInv' /\ handler'.event = handler.event /\ handler'.list = handler.list
             /\ handler'.i = handler.i
    <2>1. /\ handler' \in Handlers /\ handler'.pc = pc /\ handler'.event = handler.event
          /\ handler'.list = handler.list /\ handler'.i = handler.i /\ handler'.slice = handler.slice
          /\ handler'.known = handler.known /\ handler'.consumer = handler.consumer
        BY <1>1, <1>3 DEF Handlers
    <2>2. HandlerOk(handler')
        BY <1>1, <2>1 DEF HandlerOk
    <2>3. Reading(handler', mem, list, registered)
        BY <1>1, <2>1 DEF Reading
    <2> QED
        BY <1>2, <2>1, <2>2, <2>3, ListsSame
<1>4. ASSUME handler' = AtIndex(handler, handler.i + 1)
      PROVE  /\ ListInv' /\ handler'.event = handler.event /\ handler'.list = handler.list
             /\ handler'.i = handler.i + 1
    <2>1. handler.i + 1 \in Nat
        BY <1>1
    <2>2. /\ HandlerOk(handler') /\ Reading(handler', mem, list, registered)
          /\ handler'.list = handler.list /\ handler'.event = handler.event /\ handler'.i = handler.i + 1
        BY <1>1, <1>4, <2>1, AtIndexOk
    <2> QED
        BY <1>2, <2>2, ListsSame
<1>5. CASE dequeueIfRequired
    <2>1. handler' = [handler EXCEPT !.pc = "call", !.called = handler.called \cup {handler.consumer}]
        BY <1>5 DEF dequeueIfRequired
    <2>2. handler.called \cup {handler.consumer} \in SUBSET Values
        BY <1>1 DEF Handlers
    <2>3. ~queueRetry
        BY <1>5 DEF dequeueIfRequired, queueRetry
    <2> QED
        BY <1>3, <2>1, <2>2, <2>3
<1>6. CASE Return(result)
    <2>1. handler' = AtIndex(handler, handler.i + 1) \/ handler' = [handler EXCEPT !.pc = "queue"]
        BY <1>6 DEF Return
    <2>2. ~queueRetry /\ ~dequeueIfRequired
        BY <1>6 DEF dequeueIfRequired, queueRetry, Return
    <2>3. CASE handler' = [handler EXCEPT !.pc = "queue"]
        <3>1. handler.called \in SUBSET Values
            BY <1>1 DEF Handlers
        <3>2. handler' = [handler EXCEPT !.pc = "queue", !.called = handler.called]
            BY <1>1, <2>3 DEF Handlers
        <3> QED
            BY <1>3, <2>2, <3>1, <3>2
    <2> QED
        BY <1>4, <2>1, <2>2, <2>3
<1>7. CASE queueRetry
    <2>1. handler' = AtIndex(handler, handler.i + 1) /\ ~dequeueIfRequired
        BY <1>7 DEF queueRetry, dequeueIfRequired
    <2> QED
        BY <1>4, <2>1
<1> QED
    BY <1>5, <1>6, <1>7

LEMMA RangeEndsLists ==
    ASSUME ListInv, RangeEnds
    PROVE  /\ ListInv'
           /\ \/ /\ handler.list = "watchers" /\ handler'.list = "reconcilers"
                 /\ handler'.event = handler.event /\ handler'.i = 0
              \/ handler'.event.n = 0
<1>1. handler \in Handlers /\ handler.event.n # 0 /\ handler.event \in [n: Nat, action: Actions, gen: Nat]
    BY DEF ListInv, HandlerOk, RangeEnds, Handlers
<1>2. Idle \in Handlers
    <2>1. Empty \in Slices /\ "watchers" \in Lists /\ NoItem \in Values
        BY DEF Empty, Slices, Lists, Values
    <2> QED
        BY <2>1 DEF Idle, Handlers, Actions
<1>3. UNCHANGED lists
    BY DEF RangeEnds
<1>4. CASE handler.list = "watchers"
    <2>1. handler' = [Idle EXCEPT !.pc = "range", !.list = "reconcilers", !.event = handler.event]
        BY <1>4 DEF RangeEnds
    <2>2. Idle.i = 0
        BY DEF Idle
    <2>3. /\ handler' \in Handlers /\ handler'.pc = "range" /\ handler'.list = "reconcilers"
          /\ handler'.event = handler.event /\ handler'.i = 0
        BY <1>1, <1>2, <2>1, <2>2 DEF Handlers, Lists
    <2>4. HandlerOk(handler')
        BY <1>1, <2>3 DEF HandlerOk
    <2> QED
        BY <1>3, <1>4, <2>3, <2>4, ListsSame
<1>5. CASE handler.list # "watchers"
    <2>1. handler' = Idle
        BY <1>5 DEF RangeEnds
    <2>2. handler'.pc = "idle" /\ handler'.event.n = 0 /\ handler'.i = 0
        BY <2>1 DEF Idle
    <2>3. HandlerOk(handler')
        BY <1>2, <2>1, <2>2 DEF HandlerOk
    <2> QED
        BY <1>3, <2>2, <2>3, ListsSame
<1> QED
    BY <1>4, <1>5

(* Users change a list: what the handler knows of it grows.                *)
LEMMA UserHandler ==
    ASSUME ListInv, NEW k \in SUBSET Values, NEW p \in SUBSET Values, handler.known \subseteq k,
           handler' \in {handler, [handler EXCEPT !.known = k, !.present = p]}
    PROVE  /\ HandlerOk(handler') /\ handler'.pc = handler.pc /\ handler'.list = handler.list
           /\ handler'.slice = handler.slice /\ handler'.event = handler.event /\ handler'.i = handler.i
           /\ handler.known \subseteq handler'.known
<1>1. HandlerOk(handler) /\ handler \in Handlers
    BY DEF ListInv, HandlerOk
<1>2. CASE handler' = handler
    BY <1>1, <1>2
<1>3. CASE handler' = [handler EXCEPT !.known = k, !.present = p]
    <2>1. /\ handler' \in Handlers /\ handler'.pc = handler.pc /\ handler'.list = handler.list
          /\ handler'.slice = handler.slice /\ handler'.event = handler.event /\ handler'.i = handler.i
          /\ handler'.consumer = handler.consumer /\ handler'.known = k
        BY <1>1, <1>3 DEF Handlers
    <2>2. HandlerOk(handler')
        BY <1>1, <2>1 DEF HandlerOk
    <2> QED
        BY <2>1, <2>2
<1> QED
    BY <1>2, <1>3

SameCall == handler'.event = handler.event /\ handler'.list = handler.list /\ handler'.i = handler.i

LEMMA AddConsumerLists ==
    ASSUME ListInv, NEW l \in Lists, NEW c \in Consumers(l), AddConsumer(l, c)
    PROVE  ListInv' /\ SameCall
<1>1. /\ handler \in Handlers /\ handler.known \in SUBSET Values /\ handler.present \in SUBSET Values
    BY DEF ListInv, HandlerOk, Handlers
<1>2. PICK r \in Seq(Values) : r = registered[l] /\ Shows(mem, list[l], r, l)
    BY ListsParts
<1>3. ToSet(r) = {r[i] : i \in 1..Len(r)} /\ Len(r) \in Nat
    BY ToSetOk
<1>4. \A i \in 1..Len(r) : r[i] # c
    BY <1>2, <1>3 DEF AddConsumer
<1>5. PICK added : added = AddItem(mem, list[l], c)
    OBVIOUS
<1>6. /\ Memory(added.mem) /\ Shows(added.mem, added.slice, Append(r, c), l)
      /\ Written(mem, added.mem, list[l].array, added.slice.array, {c})
    BY <1>2, <1>4, <1>5, ListsParts, AddItemOk
<1>7. /\ mem' = added.mem /\ list' = [list EXCEPT ![l] = added.slice]
      /\ registered' = [registered EXCEPT ![l] = Append(r, c)]
    BY <1>2, <1>5 DEF AddConsumer, Added
<1>8. c \in Values
    BY ConsumersAreValues
<1>10. PICK k \in SUBSET Values : k = handler.known \cup {c}
    BY <1>1, <1>8
<1>11. handler' = IF Ranging(l) THEN [handler EXCEPT !.known = k, !.present = handler.present] ELSE handler
    <2>1. handler' = IF Ranging(l) THEN [handler EXCEPT !.known = k] ELSE handler
        BY <1>10 DEF AddConsumer
    <2>2. [handler EXCEPT !.known = k] = [handler EXCEPT !.known = k, !.present = handler.present]
        BY <1>1 DEF Handlers
    <2> QED
        BY <2>1, <2>2
<1>12. /\ HandlerOk(handler') /\ handler'.pc = handler.pc /\ handler'.list = handler.list
       /\ handler'.slice = handler.slice /\ handler'.event = handler.event /\ handler'.i = handler.i
       /\ handler.known \subseteq handler'.known /\ (Ranging(l) => handler'.known = k)
    <2>1. handler' \in {handler, [handler EXCEPT !.known = k, !.present = handler.present]}
        BY <1>11
    <2>2. handler.known \subseteq k
        BY <1>10
    <2>3. Ranging(l) => handler'.known = k
        BY <1>1, <1>11 DEF Handlers
    <2> QED
        BY <1>1, <2>1, <2>2, <2>3, UserHandler
<1>13. ASSUME Ranging(l) PROVE ToSet(Append(r, c)) \subseteq handler'.known /\ {c} \subseteq handler'.known
    <2>1. ToSet(r) \subseteq handler.known
        BY <1>2, <1>13 DEF ListInv, Reading, Ranging
    <2>2. /\ Append(r, c) \in Seq(Values) /\ Len(Append(r, c)) = Len(r) + 1
          /\ \A i \in 1..Len(r) : Append(r, c)[i] = r[i]
          /\ Append(r, c)[Len(r) + 1] = c
        BY <1>8, AppendProperties
    <2>3. ToSet(Append(r, c)) = {Append(r, c)[i] : i \in 1..(Len(r) + 1)}
        BY <2>2, ToSetOk
    <2>4. \A i \in 1..(Len(r) + 1) : i \in 1..Len(r) \/ i = Len(r) + 1
        BY <1>3
    <2> QED
        BY <1>3, <1>10, <1>12, <1>13, <2>1, <2>2, <2>3, <2>4
<1>14. ListInv'
    <2>1. /\ Memory(mem') /\ Shows(mem', added.slice, Append(r, c), l)
          /\ Written(mem, mem', list[l].array, added.slice.array, {c})
        BY <1>6, <1>7
    <2> QED
        BY <1>7, <1>12, <1>13, <2>1, ListsChange
<1> QED
    BY <1>12, <1>14 DEF SameCall

LEMMA RemoveConsumerLists ==
    ASSUME ListInv, NEW l \in Lists, NEW c \in Consumers(l), RemoveConsumer(l, c)
    PROVE  ListInv' /\ SameCall
<1>1. /\ handler \in Handlers /\ handler.known \in SUBSET Values /\ handler.present \in SUBSET Values
    BY DEF ListInv, HandlerOk, Handlers
<1>2. PICK r \in Seq(Values) : r = registered[l] /\ Shows(mem, list[l], r, l)
    BY ListsParts
<1>3. ToSet(r) = {r[i] : i \in 1..Len(r)} /\ Len(r) \in Nat /\ DOMAIN r = 1..Len(r)
    BY ToSetOk, LenProperties
<1>4. PICK i \in 1..Len(r) : r[i] = c /\ registered' = [registered EXCEPT ![l] = RemoveAt(r, i)]
    BY <1>2, <1>3 DEF RemoveConsumer
<1>5. PICK removed : removed = RemoveItem(mem, list[l], c)
    OBVIOUS
<1>6. /\ Memory(removed.mem) /\ Shows(removed.mem, removed.slice, RemoveAt(r, i), l)
      /\ Written(mem, removed.mem, list[l].array, removed.slice.array, ToSet(r))
    BY <1>2, <1>4, <1>5, ListsParts, RemoveItemOk
<1>7. mem' = removed.mem /\ list' = [list EXCEPT ![l] = removed.slice]
    BY <1>5 DEF RemoveConsumer
<1>8. PICK p \in SUBSET Values : p = handler.present \ {c}
    BY <1>1
<1>9. handler' = IF Ranging(l) THEN [handler EXCEPT !.known = handler.known, !.present = p] ELSE handler
    <2>1. handler' = IF Ranging(l) THEN [handler EXCEPT !.present = p] ELSE handler
        BY <1>8 DEF RemoveConsumer
    <2>2. [handler EXCEPT !.present = p] = [handler EXCEPT !.known = handler.known, !.present = p]
        BY <1>1 DEF Handlers
    <2> QED
        BY <2>1, <2>2
<1>10. /\ HandlerOk(handler') /\ handler'.pc = handler.pc /\ handler'.list = handler.list
       /\ handler'.slice = handler.slice /\ handler'.event = handler.event /\ handler'.i = handler.i
       /\ handler.known \subseteq handler'.known
    <2>1. handler' \in {handler, [handler EXCEPT !.known = handler.known, !.present = p]}
        BY <1>9
    <2> QED
        BY <1>1, <2>1, UserHandler
<1>11. ASSUME Ranging(l)
       PROVE  ToSet(RemoveAt(r, i)) \subseteq handler'.known /\ ToSet(r) \subseteq handler'.known
    <2>1. ToSet(r) \subseteq handler.known
        BY <1>2, <1>11 DEF ListInv, Reading, Ranging
    <2>2. /\ RemoveAt(r, i) \in Seq(Values) /\ Len(RemoveAt(r, i)) = Len(r) - 1
          /\ \A j \in 1..(Len(r) - 1) : RemoveAt(r, i)[j] = IF j < i THEN r[j] ELSE r[j + 1]
        BY RemoveAtOk
    <2>3. ToSet(RemoveAt(r, i)) = {RemoveAt(r, i)[j] : j \in 1..(Len(r) - 1)}
        BY <2>2, ToSetOk
    <2>4. \A j \in 1..(Len(r) - 1) : j \in 1..Len(r) /\ j + 1 \in 1..Len(r)
        BY <1>3
    <2>5. ToSet(RemoveAt(r, i)) \subseteq ToSet(r)
        BY <1>3, <2>2, <2>3, <2>4
    <2> QED
        BY <1>10, <2>1, <2>5
<1>12. ListInv'
    <2>1. /\ Memory(mem') /\ Shows(mem', removed.slice, RemoveAt(r, i), l)
          /\ Written(mem, mem', list[l].array, removed.slice.array, ToSet(r))
        BY <1>6, <1>7
    <2> QED
        BY <1>4, <1>7, <1>10, <1>11, <2>1, ListsChange
<1> QED
    BY <1>10, <1>12 DEF SameCall

LEMMA RemoveAllLists ==
    ASSUME ListInv, NEW l \in Lists, RemoveAll(l)
    PROVE  ListInv' /\ SameCall
<1>1. /\ handler \in Handlers /\ handler.known \in SUBSET Values /\ {} \in SUBSET Values
    BY DEF ListInv, HandlerOk, Handlers
<1>2. handler' = IF Ranging(l) THEN [handler EXCEPT !.known = handler.known, !.present = {}] ELSE handler
    <2>1. handler' = IF Ranging(l) THEN [handler EXCEPT !.present = {}] ELSE handler
        BY DEF RemoveAll
    <2>2. [handler EXCEPT !.present = {}] = [handler EXCEPT !.known = handler.known, !.present = {}]
        BY <1>1 DEF Handlers
    <2> QED
        BY <2>1, <2>2
<1>3. /\ HandlerOk(handler') /\ handler'.pc = handler.pc /\ handler'.list = handler.list
      /\ handler'.slice = handler.slice /\ handler'.event = handler.event /\ handler'.i = handler.i
      /\ handler.known \subseteq handler'.known
    <2>1. handler' \in {handler, [handler EXCEPT !.known = handler.known, !.present = {}]}
        BY <1>2
    <2> QED
        BY <1>1, <2>1, UserHandler
<1>4. /\ mem' = mem /\ list' = [list EXCEPT ![l] = Empty] /\ registered' = [registered EXCEPT ![l] = <<>>]
    BY DEF RemoveAll
<1>5. Shows(mem, Empty, <<>>, l) /\ Memory(mem)
    <2>1. Window(mem, Empty)
        BY ListsParts, EmptySeq DEF Window, Empty, Slices
    <2> QED
        BY <2>1, ListsParts, EmptySeq DEF Shows, Once, Empty
<1>6. Written(mem, mem, list[l].array, Empty.array, {})
    BY ListsParts DEF Written, Empty
<1>7. ToSet(<<>>) = {}
    BY DEF ToSet
<1>8. ListInv'
    BY <1>3, <1>4, <1>5, <1>6, <1>7, ListsChange
<1> QED
    BY <1>3, <1>8 DEF SameCall

LEMMA InitLists == Init => ListInv
<1> SUFFICES ASSUME Init PROVE ListInv
    OBVIOUS
<1>1. ListsOk(Current)
    BY FilledOk DEF Init, Current
<1>2. Idle \in Handlers
    <2>1. Empty \in Slices /\ "watchers" \in Lists /\ NoItem \in Values
        BY DEF Empty, Slices, Lists, Values
    <2> QED
        BY <2>1 DEF Idle, Handlers, Actions
<1>3. handler = Idle /\ handler.pc = "idle" /\ handler.i = 0 /\ handler.event.n = 0
    BY DEF Init, Idle
<1>4. HandlerOk(handler)
    BY <1>2, <1>3 DEF HandlerOk
<1> QED
    BY <1>1, <1>3, <1>4 DEF ListInv

-----------------------------------------------------------------------------
(* RetryInv is kept.                                                       *)

(* What is taken out of a list, and what stays.                            *)
LEMMA SelectedEvents ==
    ASSUME NEW s \in Seq(Retries), Single(s), NEW S, NEW kept, kept = Selected(s, S)
    PROVE  /\ kept \in Seq(Retries) /\ Single(kept) /\ Events(kept) \subseteq Events(s)
           /\ \A n : n \in Events(kept) <=>
                     n \in Events(s) /\ ~\E r \in ToSet(s) \ ToSet(kept) : r.n = n
<1>1. kept \in Seq(Retries) /\ ToSet(kept) = ToSet(s) \cap S /\ Single(kept)
    BY SelectedOk
<1>2. Events(s) = {r.n : r \in ToSet(s)} /\ ToSet(s) = {s[i] : i \in 1..Len(s)}
    BY ToSetOk
<1>3. Events(kept) = {r.n : r \in ToSet(kept)}
    BY <1>1, ToSetOk
<1>4. \A x, y \in ToSet(s) : x.n = y.n => x = y
    BY <1>2 DEF Single
<1>5. Events(kept) \subseteq Events(s)
    BY <1>1, <1>2, <1>3
<1>6. ASSUME NEW n
      PROVE  n \in Events(kept) <=> n \in Events(s) /\ ~\E r \in ToSet(s) \ ToSet(kept) : r.n = n
    BY <1>1, <1>2, <1>3, <1>4
<1> QED
    BY <1>1, <1>5, <1>6

(* A selection by events.                                                  *)
LEMMA DueEvents ==
    ASSUME NEW s \in Seq(Retries), NEW S, NEW D, \A r \in ToSet(s) : r \in S <=> r.n \in D
    PROVE  Events(Selected(s, S)) = Events(s) \cap D
<1>1. Events(s) = {r.n : r \in ToSet(s)}
    BY ToSetOk
<1>2. Selected(s, S) \in Seq(Retries) /\ ToSet(Selected(s, S)) = ToSet(s) \cap S
    BY SelectedOk
<1>3. Events(Selected(s, S)) = {r.n : r \in ToSet(Selected(s, S))}
    BY <1>2, ToSetOk
<1> QED
    BY <1>1, <1>2, <1>3

LEMMA TailSingle ==
    ASSUME NEW s \in Seq(Retries), s # <<>>, Single(s)
    PROVE  /\ Head(s) \in Retries /\ Tail(s) \in Seq(Retries) /\ Single(Tail(s))
           /\ Events(s) = Events(Tail(s)) \cup {Head(s).n} /\ Head(s).n \notin Events(Tail(s))
<1>1. PICK t : t = Tail(s)
    OBVIOUS
<1>2. /\ Head(s) \in Retries /\ t \in Seq(Retries) /\ Len(t) = Len(s) - 1 /\ Len(s) \in Nat /\ Len(s) # 0
      /\ \A i \in 1..Len(t) : t[i] = s[i + 1]
    BY <1>1, HeadTailProperties, EmptySeq, LenProperties
<1>3. Head(s) = s[1]
    OBVIOUS
<1>4. \A i \in 1..Len(t) : i + 1 \in 1..Len(s)
    BY <1>2
<1>5. ASSUME NEW i \in 1..Len(s), i # 1 PROVE \E j \in 1..Len(t) : s[i] = t[j]
    <2>1. i - 1 \in 1..Len(t) /\ (i - 1) + 1 = i
        BY <1>2, <1>5
    <2> QED
        BY <1>2, <2>1
<1>6. 1 \in 1..Len(s)
    BY <1>2
<1>7. Single(t)
    <2> SUFFICES ASSUME NEW i \in 1..Len(t), NEW j \in 1..Len(t), t[i].n = t[j].n PROVE i = j
        BY DEF Single
    <2>1. i + 1 = j + 1
        BY <1>2, <1>4 DEF Single
    <2> QED
        BY <2>1
<1>8. Head(s).n \notin Events(t)
    <2> SUFFICES ASSUME NEW i \in 1..Len(t), t[i].n = Head(s).n PROVE FALSE
        BY DEF Events
    <2>1. i + 1 = 1
        BY <1>2, <1>3, <1>4, <1>6 DEF Single
    <2> QED
        BY <2>1
<1>9. Events(s) = Events(t) \cup {Head(s).n}
    <2>1. ASSUME NEW n \in Events(s) PROVE n \in Events(t) \cup {Head(s).n}
        <3>1. PICK i \in 1..Len(s) : n = s[i].n
            BY <2>1 DEF Events
        <3>2. CASE i = 1
            BY <1>3, <3>1, <3>2
        <3>3. CASE i # 1
            BY <1>5, <3>1, <3>3 DEF Events
        <3> QED
            BY <3>2, <3>3
    <2>2. ASSUME NEW n \in Events(t) PROVE n \in Events(s)
        <3>1. PICK i \in 1..Len(t) : n = t[i].n
            BY <2>2 DEF Events
        <3>2. n = s[i + 1].n /\ i + 1 \in 1..Len(s)
            BY <1>2, <1>4, <3>1
        <3> QED
            BY <3>2 DEF Events
    <2>3. Head(s).n \in Events(s)
        BY <1>3, <1>6 DEF Events
    <2> QED
        BY <2>1, <2>2, <2>3
<1> QED
    BY <1>1, <1>2, <1>7, <1>8, <1>9

LEMMA NoEvents ==
    /\ Events(<<>>) = {} /\ Single(<<>>) /\ <<>> \in Seq(Retries)
    /\ \A s \in Seq(Retries) : Events(s) \subseteq 1..MaxEvents
<1>1. Events(<<>>) = {} /\ Single(<<>>) /\ <<>> \in Seq(Retries)
    BY EmptySeq DEF Events, Single
<1>2. ASSUME NEW s \in Seq(Retries) PROVE Events(s) \subseteq 1..MaxEvents
    <2>1. \A i \in 1..Len(s) : s[i] \in Retries
        BY ElementOfSeq
    <2> QED
        BY <2>1 DEF Events, Retries
<1> QED
    BY <1>1, <1>2

(* The key of the call a handler makes.                                    *)
LEMMA RetryKeyOk ==
    ASSUME ListInv, handler.pc \in {"dequeue", "call", "queue"}
    PROVE  retryKey \in Keys /\ retryKey[1] = handler.list /\ retryKey[2] = handler.i
<1>1. /\ handler.list \in Lists /\ handler.i \in Nat /\ handler.slice.len \in Nat
      /\ handler.i < handler.slice.len /\ Reading(handler, mem, list, registered)
    BY DEF ListInv, HandlerOk, Handlers, Slices
<1>2. handler.slice.len <= Cardinality(Consumers(handler.list))
    BY <1>1 DEF Reading
<1>3. Cardinality(Consumers(handler.list)) \in Nat
    BY <1>1, ConsumersAreValues, FS_CardinalityType
<1>4. handler.i \in 0..(Cardinality(Consumers(handler.list)) - 1)
    BY <1>1, <1>2, <1>3
<1>5. <<handler.list, handler.i>> \in {handler.list} \X (0..(Cardinality(Consumers(handler.list)) - 1))
    BY <1>4
<1> QED
    BY <1>1, <1>5 DEF retryKey, Keys

LEMMA NoKeyOk == NoKey \notin Keys
<1> SUFFICES ASSUME NoKey \in Keys PROVE FALSE
    OBVIOUS
<1>1. PICK l \in Lists : NoKey \in {l} \X (0..(Cardinality(Consumers(l)) - 1))
    BY DEF Keys
<1> QED
    BY <1>1 DEF NoKey, Lists

(* The retries are left alone: what is to come may be less.                *)
LEMMA RetriesSame ==
    ASSUME RetryInv, UNCHANGED <<toRetry, ticker, owed>>,
           events' \in 0..MaxEvents, handler'.event.n \in 0..events', CallsToCome'
    PROVE  RetryInv'
<1>1. RetriesOk'
    BY DEF RetryInv, RetriesOk
<1>2. NotDoubled'
    BY DEF RetryInv, NotDoubled
<1>3. Owed'
    BY DEF RetryInv, Owed, Kept, Held, Locked
<1> QED
    BY <1>1, <1>2, <1>3 DEF RetryInv

(* The handler goes on: no call comes back.                                *)
LEMMA CallsGoOn ==
    ASSUME RetryInv, events' = events, handler'.event = handler.event, handler'.list = handler.list,
           handler.i \in Nat, handler'.i \in {handler.i, handler.i + 1}, owed' = owed
    PROVE  CallsToCome'
<1> SUFFICES ASSUME NEW k \in Keys, NEW n \in 1..MaxEvents, owed[k][n]
             PROVE  /\ n <= events
                    /\ n = handler.event.n =>
                          \/ k[1] = "watchers" /\ handler.list = "reconcilers"
                          \/ k[1] = handler.list /\ k[2] < handler'.i
    BY DEF CallsToCome
<1>1. /\ n <= events
      /\ n = handler.event.n =>
            \/ k[1] = "watchers" /\ handler.list = "reconcilers"
            \/ k[1] = handler.list /\ k[2] < handler.i
    BY DEF RetryInv, CallsToCome
<1>2. k[2] \in Nat
    BY DEF Keys
<1> QED
    BY <1>1, <1>2

LEMMA EventRetries ==
    ASSUME IInv, NEW action \in Actions, NEW gen \in Nat, Event(action, gen)
    PROVE  RetryInv'
<1>1. ListInv /\ RetryInv /\ events \in 0..MaxEvents /\ events < MaxEvents /\ events' = events + 1
    BY DEF IInv, RetryInv, RetriesOk, Event
<1>2. handler'.event.n = events + 1
    BY <1>1, EventLists, ControllerAssumption
<1>3. UNCHANGED <<toRetry, ticker, owed>>
    BY DEF Event
<1>4. events' \in 0..MaxEvents /\ handler'.event.n \in 0..events'
    BY <1>1, <1>2, ControllerAssumption
<1>5. CallsToCome'
    <2> SUFFICES ASSUME NEW k \in Keys, NEW n \in 1..MaxEvents, owed[k][n]
                 PROVE  n <= events' /\ n # handler'.event.n
        BY <1>3 DEF CallsToCome
    <2>1. n <= events
        BY <1>1 DEF RetryInv, CallsToCome
    <2> QED
        BY <1>1, <1>2, <2>1
<1> QED
    BY <1>1, <1>3, <1>4, <1>5, RetriesSame

(* Steps of the handler and of the users that leave the retries alone.     *)
LEMMA OthersRetries ==
    ASSUME IInv, ListInv', UNCHANGED <<toRetry, ticker, owed, events>>,
           handler'.event = handler.event, handler'.list = handler.list,
           handler'.i \in {handler.i, handler.i + 1}
    PROVE  RetryInv'
<1>1. RetryInv /\ handler.i \in Nat
    BY DEF IInv, ListInv, HandlerOk, Handlers
<1>2. CallsToCome'
    BY <1>1, CallsGoOn
<1>3. events' \in 0..MaxEvents /\ handler'.event.n \in 0..events'
    BY DEF IInv, RetryInv, RetriesOk
<1> QED
    BY <1>1, <1>2, <1>3, RetriesSame

LEMMA RangeEndsRetries ==
    ASSUME IInv, RangeEnds
    PROVE  RetryInv'
<1>1. ListInv /\ RetryInv /\ events \in 0..MaxEvents /\ handler.event.n \in 0..events
    BY DEF IInv, RetryInv, RetriesOk
<1>2. UNCHANGED <<toRetry, ticker, owed, events>>
    BY DEF RangeEnds
<1>3. \/ /\ handler.list = "watchers" /\ handler'.list = "reconcilers"
         /\ handler'.event = handler.event /\ handler'.i = 0
      \/ handler'.event.n = 0
    BY <1>1, RangeEndsLists
<1>4. events' \in 0..MaxEvents /\ handler'.event.n \in 0..events'
    BY <1>1, <1>2, <1>3
<1>5. CallsToCome'
    <2> SUFFICES ASSUME NEW k \in Keys, NEW n \in 1..MaxEvents, owed[k][n]
                 PROVE  /\ n <= events
                        /\ n = handler'.event.n => k[1] = "watchers" /\ handler'.list = "reconcilers"
        BY <1>2 DEF CallsToCome
    <2>1. /\ n <= events
          /\ n = handler.event.n =>
                \/ k[1] = "watchers" /\ handler.list = "reconcilers"
                \/ k[1] = handler.list /\ k[2] < handler.i
        BY <1>1 DEF RetryInv, CallsToCome
    <2> QED
        BY <1>3, <2>1
<1> QED
    BY <1>1, <1>2, <1>4, <1>5, RetriesSame

(* A key that is not locked and in the hands of the ticker: it adds back.  *)
LEMMA UnlockedHeld ==
    ASSUME RetryInv, NEW K \in Keys, ~Locked(K)
    PROVE  /\ Kept(K) = Events(toRetry[K])
           /\ ticker.key = K => ticker.pc = "add"
           /\ Held(K) \cap Events(toRetry[K]) = {}
<1>1. Kept(K) = Events(toRetry[K])
    BY DEF Kept
<1>2. ASSUME ticker.key = K PROVE ticker.pc = "add"
    BY <1>2, NoKeyOk DEF RetryInv, NotDoubled, Locked
<1>3. CASE ticker.key = K
    <2>1. ticker.todo = <<>> /\ Events(ticker.toAdd) \cap Events(toRetry[K]) = {}
        BY <1>2, <1>3 DEF RetryInv, NotDoubled
    <2> QED
        BY <1>1, <1>2, <1>3, <2>1, NoEvents DEF Held
<1>4. CASE ticker.key # K
    BY <1>1, <1>4 DEF Held
<1> QED
    BY <1>1, <1>2, <1>3, <1>4

(* The handler changes the list of a key that is not locked: the ticker    *)
(* sees the change, and what it holds for the key is not in the list.      *)
LEMMA ListOfKeyChanges ==
    ASSUME RetryInv, UNCHANGED ticker, NEW K \in Keys, ~Locked(K), NEW s \in Seq(Retries), Single(s),
           toRetry' = [toRetry EXCEPT ![K] = s], Held(K) \cap Events(s) = {},
           events' = events, handler'.event = handler.event,
           owed' \in [Keys -> [1..MaxEvents -> BOOLEAN]],
           \A k \in Keys : k # K => owed'[k] = owed[k],
           \A n \in 1..MaxEvents : owed'[K][n] <=> n \in Events(s) \cup Held(K),
           CallsToCome'
    PROVE  RetryInv'
<1>1. /\ toRetry \in [Keys -> Seq(Retries)]
      /\ toRetry'[K] = s /\ \A k \in Keys : k # K => toRetry'[k] = toRetry[k]
    BY DEF RetryInv, RetriesOk
<1>2. RetriesOk'
    BY DEF RetryInv, RetriesOk
<1>3. NotDoubled'
    <2>1. \A k \in Keys : Single(toRetry'[k])
        BY <1>1 DEF RetryInv, NotDoubled
    <2>2. ASSUME ticker.pc = "add" PROVE Events(ticker.toAdd) \cap Events(toRetry'[ticker.key]) = {}
        <3>1. /\ ticker.key \in Keys /\ ticker.todo = <<>>
              /\ Events(ticker.toAdd) \cap Events(toRetry[ticker.key]) = {}
            BY <2>2 DEF RetryInv, NotDoubled
        <3>2. CASE ticker.key = K
            BY <1>1, <3>1, <3>2 DEF Held
        <3>3. CASE ticker.key # K
            BY <1>1, <3>1, <3>3
        <3> QED
            BY <3>2, <3>3
    <2> QED
        BY <2>1, <2>2 DEF RetryInv, NotDoubled
<1>4. Owed'
    <2> SUFFICES ASSUME NEW k \in Keys, NEW n \in 1..MaxEvents
                 PROVE  (owed[k][n] <=> n \in Kept(k) \cup Held(k))'
        BY DEF Owed
    <2>1. Locked(k)' <=> Locked(k)
        BY DEF Locked
    <2>2. Held(k)' = Held(k)
        BY DEF Held
    <2>3. CASE k = K
        <3>1. Kept(k)' = Events(s)
            BY <1>1, <2>1, <2>3 DEF Kept
        <3> QED
            BY <2>2, <2>3, <3>1
    <2>4. CASE k # K
        <3>1. Kept(k)' = Kept(k)
            BY <1>1, <2>1, <2>4 DEF Kept
        <3>2. owed[k][n] <=> n \in Kept(k) \cup Held(k)
            BY DEF RetryInv, Owed
        <3> QED
            BY <2>2, <2>4, <3>1, <3>2
    <2> QED
        BY <2>3, <2>4
<1> QED
    BY <1>2, <1>3, <1>4 DEF RetryInv

LEMMA DequeueRetries ==
    ASSUME IInv, dequeueIfRequired
    PROVE  RetryInv'
<1>1. ListInv /\ RetryInv /\ toRetry \in [Keys -> Seq(Retries)]
      /\ owed \in [Keys -> [1..MaxEvents -> BOOLEAN]] /\ handler.i \in Nat
    BY DEF IInv, RetryInv, RetriesOk, ListInv, HandlerOk, Handlers
<1>2. PICK K \in Keys : K = retryKey
    BY <1>1, RetryKeyOk DEF dequeueIfRequired
<1>3. PICK s \in Seq(Retries) : s = toRetry[K]
    BY <1>1
<1>4. PICK kept : /\ \E S : kept = Selected(s, S)
                  /\ toRetry' = [toRetry EXCEPT ![K] = kept]
                  /\ owed' = [owed EXCEPT ![K] =
                         [n \in DOMAIN @ |-> @[n] /\ ~\E r \in ToSet(s) \ ToSet(kept) : r.n = n]]
    <2> DEFINE S == {r \in ToSet(s) : ~Dequeues(Action(handler.list, handler.event), handler.event.gen, r)}
    <2>1. toRetry' = [toRetry EXCEPT ![K] = Selected(s, S)]
        BY <1>2, <1>3, Zenon DEF dequeueIfRequired
    <2>2. owed' = [owed EXCEPT ![K] =
              [n \in DOMAIN @ |-> @[n] /\ ~\E r \in ToSet(s) \ ToSet(Selected(s, S)) : r.n = n]]
        BY <1>2, <1>3, Zenon DEF dequeueIfRequired
    <2> HIDE DEF S
    <2> QED
        BY <2>1, <2>2, Zenon
<1>5. ~Locked(K) /\ UNCHANGED <<ticker, events>>
    BY <1>2 DEF dequeueIfRequired
<1>6. Single(s) /\ Kept(K) = Events(s) /\ Held(K) \cap Events(s) = {}
    <2>1. Single(s)
        BY <1>1, <1>3 DEF RetryInv, NotDoubled
    <2> QED
        BY <1>1, <1>3, <1>5, <2>1, UnlockedHeld
<1>7. /\ kept \in Seq(Retries) /\ Single(kept) /\ Events(kept) \subseteq Events(s)
      /\ \A n : n \in Events(kept) <=> n \in Events(s) /\ ~\E r \in ToSet(s) \ ToSet(kept) : r.n = n
    <2>1. PICK S : kept = Selected(s, S)
        BY <1>4
    <2> QED
        BY <1>6, <2>1, SelectedEvents
<1>8. PICK gone : gone = {n \in 1..MaxEvents : \E r \in ToSet(s) \ ToSet(kept) : r.n = n}
    OBVIOUS
<1>9. /\ owed' \in [Keys -> [1..MaxEvents -> BOOLEAN]]
      /\ \A k \in Keys : k # K => owed'[k] = owed[k]
      /\ \A n \in 1..MaxEvents : owed'[K][n] <=> owed[K][n] /\ n \notin gone
    <2>1. PICK g : g = [n \in 1..MaxEvents |-> owed[K][n] /\ n \notin gone]
        OBVIOUS
    <2>2. g \in [1..MaxEvents -> BOOLEAN] /\ \A n \in 1..MaxEvents : g[n] <=> owed[K][n] /\ n \notin gone
        BY <2>1
    <2>3. owed' = [owed EXCEPT ![K] = g]
        <3>1. DOMAIN owed[K] = 1..MaxEvents
            BY <1>1
        <3>2. [n \in DOMAIN owed[K] |-> owed[K][n] /\ ~\E r \in ToSet(s) \ ToSet(kept) : r.n = n] = g
            BY <1>8, <2>1, <3>1
        <3> QED
            BY <1>4, <3>2
    <2> QED
        BY <1>1, <2>2, <2>3
<1>10. \A n \in 1..MaxEvents : owed'[K][n] <=> n \in Events(kept) \cup Held(K)
    <2> SUFFICES ASSUME NEW n \in 1..MaxEvents PROVE owed'[K][n] <=> n \in Events(kept) \cup Held(K)
        OBVIOUS
    <2>1. owed[K][n] <=> n \in Events(s) \cup Held(K)
        BY <1>1, <1>6 DEF RetryInv, Owed
    <2>2. n \in gone => n \in Events(s)
        <3>1. Events(s) = {r.n : r \in ToSet(s)}
            BY ToSetOk
        <3> QED
            BY <1>8, <3>1
    <2>3. n \in Events(kept) <=> n \in Events(s) /\ n \notin gone
        BY <1>7, <1>8
    <2>4. owed'[K][n] <=> owed[K][n] /\ n \notin gone
        BY <1>9
    <2> QED
        BY <1>6, <2>1, <2>2, <2>3, <2>4
<1>11. /\ handler'.event = handler.event /\ handler'.list = handler.list /\ handler'.i = handler.i
    BY <1>1, CallLists
<1>12. CallsToCome'
    <2> SUFFICES ASSUME NEW k \in Keys, NEW n \in 1..MaxEvents, owed'[k][n]
                 PROVE  /\ n <= events
                        /\ n = handler.event.n =>
                              \/ k[1] = "watchers" /\ handler.list = "reconcilers"
                              \/ k[1] = handler.list /\ k[2] < handler.i
        BY <1>5, <1>11 DEF CallsToCome
    <2>1. owed[k][n]
        BY <1>9
    <2> QED
        BY <1>1, <2>1 DEF RetryInv, CallsToCome
<1>13. Held(K) \cap Events(kept) = {}
    BY <1>6, <1>7
<1> QED
    BY <1>1, <1>4, <1>5, <1>7, <1>9, <1>10, <1>11, <1>12, <1>13, ListOfKeyChanges

LEMMA QueueRetries ==
    ASSUME IInv, queueRetry
    PROVE  RetryInv'
<1>1. /\ ListInv /\ RetryInv /\ toRetry \in [Keys -> Seq(Retries)]
      /\ owed \in [Keys -> [1..MaxEvents -> BOOLEAN]] /\ handler.i \in Nat
      /\ events \in 0..MaxEvents
    BY DEF IInv, RetryInv, RetriesOk, ListInv, HandlerOk, Handlers
<1>2. PICK K \in Keys : K = retryKey /\ K[1] = handler.list /\ K[2] = handler.i
    BY <1>1, RetryKeyOk DEF queueRetry
<1>3. PICK s \in Seq(Retries) : s = toRetry[K]
    BY <1>1
<1>4. PICK n0 \in 1..MaxEvents : n0 = handler.event.n /\ n0 <= events
    <2>1. handler.event.n # 0
        BY <1>1 DEF ListInv, HandlerOk, queueRetry
    <2>2. handler.event.n \in 0..events
        BY <1>1 DEF RetryInv, RetriesOk
    <2>3. handler.event.n \in 1..MaxEvents /\ handler.event.n <= events
        BY <1>1, <2>1, <2>2, ControllerAssumption
    <2> QED
        BY <2>3
<1>5. PICK retry \in Retries : /\ retry = [n |-> n0, action |-> Action(handler.list, handler.event),
                                           gen |-> handler.event.gen, attempt |-> 0]
                               /\ retry.n = n0
    <2>1. Action(handler.list, handler.event) \in Actions /\ handler.event.gen \in Nat
        BY <1>1 DEF Action, Actions, ListInv, HandlerOk, Handlers
    <2>2. 0 \in 0..MaxAttempts
        BY ControllerAssumption
    <2>3. PICK a, g : a = Action(handler.list, handler.event) /\ g = handler.event.gen /\ a \in Actions /\ g \in Nat
        BY <2>1
    <2>4. [n |-> n0, action |-> a, gen |-> g, attempt |-> 0] \in Retries
        BY <2>2, <2>3 DEF Retries
    <2>5. [n |-> n0, action |-> a, gen |-> g, attempt |-> 0].n = n0
        OBVIOUS
    <2> QED
        BY <2>3, <2>4, <2>5
<1>6. /\ toRetry' = [toRetry EXCEPT ![K] = Append(s, retry)] /\ ~Locked(K)
      /\ owed' = [owed EXCEPT ![K][n0] = TRUE] /\ UNCHANGED <<ticker, events>>
    BY <1>2, <1>3, <1>4, <1>5 DEF queueRetry
<1>7. Single(s) /\ Kept(K) = Events(s) /\ Held(K) \cap Events(s) = {}
    <2>1. Single(s)
        BY <1>1, <1>3 DEF RetryInv, NotDoubled
    <2> QED
        BY <1>1, <1>3, <1>6, <2>1, UnlockedHeld
<1>8. ~owed[K][n0]
    <2> SUFFICES ASSUME owed[K][n0] PROVE FALSE
        OBVIOUS
    <2>1. \/ K[1] = "watchers" /\ handler.list = "reconcilers"
          \/ K[1] = handler.list /\ K[2] < handler.i
        BY <1>1, <1>4 DEF RetryInv, CallsToCome
    <2> QED
        BY <1>1, <1>2, <2>1
<1>9. n0 \notin Events(s) /\ n0 \notin Held(K)
    BY <1>1, <1>7, <1>8 DEF RetryInv, Owed
<1>10. /\ Append(s, retry) \in Seq(Retries) /\ Single(Append(s, retry))
       /\ Events(Append(s, retry)) = Events(s) \cup {n0}
    BY <1>5, <1>7, <1>9, AppendSingle
<1>11. /\ owed' \in [Keys -> [1..MaxEvents -> BOOLEAN]]
       /\ \A k \in Keys : k # K => owed'[k] = owed[k]
       /\ \A n \in 1..MaxEvents : owed'[K][n] <=> owed[K][n] \/ n = n0
    <2>1. PICK g : g = [owed[K] EXCEPT ![n0] = TRUE]
        OBVIOUS
    <2>2. owed[K] \in [1..MaxEvents -> BOOLEAN]
        BY <1>1
    <2>3. g \in [1..MaxEvents -> BOOLEAN] /\ \A n \in 1..MaxEvents : g[n] <=> owed[K][n] \/ n = n0
        BY <2>1, <2>2
    <2>4. owed' = [owed EXCEPT ![K] = g]
        BY <1>6, <2>1
    <2> QED
        BY <1>1, <2>3, <2>4
<1>12. \A n \in 1..MaxEvents : owed'[K][n] <=> n \in Events(Append(s, retry)) \cup Held(K)
    <2> SUFFICES ASSUME NEW n \in 1..MaxEvents
                 PROVE  owed'[K][n] <=> n \in Events(Append(s, retry)) \cup Held(K)
        OBVIOUS
    <2>1. owed[K][n] <=> n \in Events(s) \cup Held(K)
        BY <1>1, <1>7 DEF RetryInv, Owed
    <2> QED
        BY <1>10, <1>11, <2>1
<1>13. handler'.event = handler.event /\ handler'.list = handler.list /\ handler'.i = handler.i + 1
    BY <1>1, CallLists
<1>14. CallsToCome'
    <2> SUFFICES ASSUME NEW k \in Keys, NEW n \in 1..MaxEvents, owed'[k][n]
                 PROVE  /\ n <= events
                        /\ n = handler.event.n =>
                              \/ k[1] = "watchers" /\ handler.list = "reconcilers"
                              \/ k[1] = handler.list /\ k[2] < handler.i + 1
        BY <1>6, <1>13 DEF CallsToCome
    <2>1. CASE k = K /\ n = n0
        BY <1>1, <1>2, <1>4, <2>1
    <2>2. CASE ~(k = K /\ n = n0)
        <3>1. owed[k][n]
            BY <1>11, <2>2
        <3>2. /\ n <= events
              /\ n = handler.event.n =>
                    \/ k[1] = "watchers" /\ handler.list = "reconcilers"
                    \/ k[1] = handler.list /\ k[2] < handler.i
            BY <1>1, <3>1 DEF RetryInv, CallsToCome
        <3>3. k[2] \in Nat
            BY DEF Keys
        <3> QED
            BY <1>1, <3>2, <3>3
    <2> QED
        BY <2>1, <2>2
<1>15. Held(K) \cap Events(Append(s, retry)) = {}
    BY <1>7, <1>9, <1>10
<1> QED
    BY <1>1, <1>6, <1>10, <1>11, <1>12, <1>13, <1>14, <1>15, ListOfKeyChanges

LEMMA TickerOk ==
    ASSUME RetryInv
    PROVE  /\ ticker \in Tickers /\ toRetry \in [Keys -> Seq(Retries)]
           /\ ticker.todo \in Seq(Retries) /\ ticker.toAdd \in Seq(Retries)
           /\ \A k \in Keys : Single(toRetry[k])
           /\ Single(ticker.todo) /\ Single(ticker.toAdd)
           /\ Events(ticker.todo) \cap Events(ticker.toAdd) = {}
BY DEF RetryInv, RetriesOk, NotDoubled, Tickers

(* Calls to come do not depend on the ticker.                              *)
LEMMA TickerCalls ==
    ASSUME RetryInv, UNCHANGED <<handler, events>>,
           \A k \in Keys, n \in 1..MaxEvents : owed'[k][n] => owed[k][n]
    PROVE  CallsToCome'
BY DEF RetryInv, CallsToCome

(* The ticker is between keys, before the step and after it.               *)
LEMMA IdleTicker ==
    ASSUME RetryInv, ticker.pc \in {"idle", "key"}, NEW pc \in {"idle", "key", "stopped"},
           NEW due \in SUBSET (Keys \X (1..MaxEvents)), ticker' = [ticker EXCEPT !.pc = pc, !.due = due],
           UNCHANGED <<toRetry, owed, handler, events>>
    PROVE  RetryInv'
<1>1. ticker \in Tickers
    BY TickerOk
<1>2. /\ ticker' \in Tickers /\ ticker'.pc = pc /\ ticker'.key = ticker.key /\ ticker'.todo = ticker.todo
      /\ ticker'.toAdd = ticker.toAdd
    BY <1>1 DEF Tickers
<1>3. RetriesOk'
    BY <1>2 DEF RetryInv, RetriesOk
<1>4. NotDoubled'
    BY <1>2 DEF RetryInv, NotDoubled
<1>5. Owed'
    BY <1>2 DEF RetryInv, Owed, Kept, Held, Locked
<1>6. CallsToCome'
    BY TickerCalls
<1> QED
    BY <1>3, <1>4, <1>5, <1>6 DEF RetryInv

LEMMA TickRetries == ASSUME RetryInv, NEW due \in SUBSET Queued, Tick(due) PROVE RetryInv'
<1>1. due \in SUBSET (Keys \X (1..MaxEvents))
    BY DEF Queued
<1>2. ticker' = [ticker EXCEPT !.pc = "key", !.due = due] /\ ticker.pc = "idle"
      /\ UNCHANGED <<toRetry, owed, handler, events>>
    BY DEF Tick
<1> QED
    BY <1>1, <1>2, IdleTicker

LEMMA TickerStopsRetries == ASSUME RetryInv, TickerStops PROVE RetryInv'
<1>1. ticker \in Tickers /\ ticker.due \in SUBSET (Keys \X (1..MaxEvents))
    BY TickerOk DEF Tickers
<1>2. ticker' = [ticker EXCEPT !.pc = "stopped"] /\ ticker.pc = "idle"
      /\ UNCHANGED <<toRetry, owed, handler, events>>
    BY DEF TickerStops
<1>3. [ticker EXCEPT !.pc = "stopped"] = [ticker EXCEPT !.pc = "stopped", !.due = ticker.due]
    BY <1>1 DEF Tickers
<1> QED
    BY <1>1, <1>2, <1>3, IdleTicker

(* Only what the ticker does to the key K matters.                         *)
LEMMA OneKey ==
    ASSUME RetryInv, NEW K \in Keys, NEW s \in Seq(Retries), Single(s), toRetry' = [toRetry EXCEPT ![K] = s],
           ticker.key \in {K, NoKey}, ticker'.key \in {K, NoKey}, ticker' \in Tickers,
           Single(ticker'.todo), Single(ticker'.toAdd), Events(ticker'.todo) \cap Events(ticker'.toAdd) = {},
           ticker'.pc = "run" => /\ ticker'.key = K
                                 /\ \A n \in Events(ticker'.todo) \cup Events(ticker'.toAdd) :
                                       <<K, n>> \in ticker'.due,
           ticker'.pc = "add" => /\ ticker'.key = K /\ ticker'.todo = <<>> /\ ticker'.toAdd # <<>>
                                 /\ Events(ticker'.toAdd) \cap Events(s) = {},
           ticker'.pc \notin {"run", "add"} =>
               ticker'.key = NoKey /\ ticker'.todo = <<>> /\ ticker'.toAdd = <<>>,
           UNCHANGED <<handler, events>>, owed' \in [Keys -> [1..MaxEvents -> BOOLEAN]],
           \A k \in Keys : k # K => owed'[k] = owed[k],
           \A n \in 1..MaxEvents : owed'[K][n] => owed[K][n],
           \A n \in 1..MaxEvents : owed'[K][n] <=> n \in Kept(K)' \cup Held(K)'
    PROVE  RetryInv'
<1>1. /\ toRetry \in [Keys -> Seq(Retries)]
      /\ toRetry'[K] = s /\ \A k \in Keys : k # K => toRetry'[k] = toRetry[k]
    BY DEF RetryInv, RetriesOk
<1>2. RetriesOk'
    BY DEF RetryInv, RetriesOk
<1>3. NotDoubled'
    <2>1. \A k \in Keys : Single(toRetry'[k])
        BY <1>1 DEF RetryInv, NotDoubled
    <2> QED
        BY <1>1, <2>1 DEF NotDoubled
<1>4. Owed'
    <2> SUFFICES ASSUME NEW k \in Keys, NEW n \in 1..MaxEvents
                 PROVE  (owed[k][n] <=> n \in Kept(k) \cup Held(k))'
        BY DEF Owed
    <2>1. CASE k = K
        BY <2>1
    <2>2. CASE k # K
        <3>1. k # NoKey
            BY NoKeyOk
        <3>2. Kept(k)' = Kept(k) /\ Held(k)' = Held(k)
            BY <1>1, <2>2, <3>1 DEF Kept, Held, Locked
        <3>3. owed[k][n] <=> n \in Kept(k) \cup Held(k)
            BY DEF RetryInv, Owed
        <3> QED
            BY <2>2, <3>2, <3>3
    <2> QED
        BY <2>1, <2>2
<1>5. CallsToCome'
    BY TickerCalls
<1> QED
    BY <1>2, <1>3, <1>4, <1>5 DEF RetryInv

LEMMA StartKeyRetries == ASSUME RetryInv, NEW key \in Keys, StartKey(key) PROVE RetryInv'
<1>1. ticker \in Tickers /\ toRetry \in [Keys -> Seq(Retries)] /\ \A k \in Keys : Single(toRetry[k])
    BY TickerOk
<1>2. ticker.key = NoKey /\ ticker.todo = <<>> /\ ticker.toAdd = <<>> /\ key # NoKey /\ ~Locked(key)
    BY NoKeyOk DEF StartKey, RetryInv, NotDoubled, Locked
<1>3. PICK s \in Seq(Retries) : s = toRetry[key] /\ Single(s)
    BY <1>1
<1>4. PICK due \in SUBSET (Keys \X (1..MaxEvents)) : due = ticker.due
    BY <1>1 DEF Tickers
<1>5. PICK todo : todo = Selected(s, {r \in ToSet(s) : <<key, r.n>> \in due})
    OBVIOUS
<1>6. todo \in Seq(Retries) /\ Single(todo) /\ Events(todo) = {n \in Events(s) : <<key, n>> \in due}
    <2>1. Events(todo) = {n \in Events(s) : <<key, n>> \in due}
        <3>1. PICK S : S = {r \in ToSet(s) : <<key, r.n>> \in due}
            OBVIOUS
        <3>2. PICK D : D = {n \in Events(s) : <<key, n>> \in due}
            OBVIOUS
        <3>3. \A r \in ToSet(s) : r \in S <=> r.n \in D
            BY <3>1, <3>2, ToSetOk
        <3>4. Events(Selected(s, S)) = Events(s) \cap D
            BY <3>3, DueEvents
        <3> QED
            BY <1>5, <3>1, <3>2, <3>4
    <2>2. PICK S : todo = Selected(s, S)
        BY <1>5
    <2>3. todo \in Seq(Retries) /\ Single(todo)
        BY <1>3, <2>2, SelectedOk
    <2> QED
        BY <2>1, <2>3
<1>7. ticker' = [ticker EXCEPT !.pc = "run", !.key = key, !.todo = todo]
    BY <1>3, <1>4, <1>5 DEF StartKey
<1>8. /\ ticker' \in Tickers /\ ticker'.pc = "run" /\ ticker'.key = key /\ ticker'.todo = todo
      /\ ticker'.toAdd = <<>> /\ ticker'.due = due
    BY <1>1, <1>2, <1>4, <1>6, <1>7 DEF Tickers
<1>9. UNCHANGED <<toRetry, owed, handler, events>> /\ toRetry' = [toRetry EXCEPT ![key] = s]
    BY <1>1, <1>3 DEF StartKey
<1>10. Kept(key)' \cup Held(key)' = Events(s)
    <2>1. Kept(key)' = {n \in Events(s) : <<key, n>> \notin due}
        BY <1>3, <1>8, <1>9 DEF Kept, Locked
    <2>2. Held(key)' = Events(todo)
        BY <1>8, NoEvents DEF Held
    <2> QED
        BY <1>6, <2>1, <2>2
<1>11. Kept(key) \cup Held(key) = Events(s)
    BY <1>2, <1>3 DEF Kept, Held
<1>12. \A n \in 1..MaxEvents : owed[key][n] <=> n \in Kept(key)' \cup Held(key)'
    BY <1>10, <1>11 DEF RetryInv, Owed
<1>13. owed \in [Keys -> [1..MaxEvents -> BOOLEAN]]
    BY DEF RetryInv, RetriesOk
<1>14. /\ Single(ticker'.todo) /\ Single(ticker'.toAdd) /\ Events(ticker'.todo) \cap Events(ticker'.toAdd) = {}
       /\ \A n \in Events(ticker'.todo) \cup Events(ticker'.toAdd) : <<key, n>> \in ticker'.due
    BY <1>6, <1>8, NoEvents
<1> QED
    BY <1>2, <1>3, <1>8, <1>9, <1>12, <1>13, <1>14, OneKey

LEMMA RunRetryRetries == ASSUME RetryInv, NEW result \in {"ok", "err", "requeue"}, RunRetry(result) PROVE RetryInv'
<1>1. ticker \in Tickers /\ toRetry \in [Keys -> Seq(Retries)] /\ \A k \in Keys : Single(toRetry[k])
    BY TickerOk
<1>2. PICK K \in Keys : K = ticker.key /\ Locked(K) /\ ticker.pc = "run"
    BY DEF RunRetry, RetryInv, NotDoubled, Locked
<1>3. PICK todo \in Seq(Retries), toAdd \in Seq(Retries), due \in SUBSET (Keys \X (1..MaxEvents)) :
          todo = ticker.todo /\ toAdd = ticker.toAdd /\ due = ticker.due
    BY <1>1 DEF Tickers
<1>4. /\ todo # <<>> /\ Single(todo) /\ Single(toAdd) /\ Events(todo) \cap Events(toAdd) = {}
      /\ \A n \in Events(todo) \cup Events(toAdd) : <<K, n>> \in due
    BY <1>2, <1>3 DEF RunRetry, RetryInv, NotDoubled
<1>5. PICK retry \in Retries, rest \in Seq(Retries) :
          /\ retry = Head(todo) /\ rest = Tail(todo) /\ Single(rest)
          /\ Events(todo) = Events(rest) \cup {retry.n} /\ retry.n \notin Events(rest)
    BY <1>4, TailSingle
<1>6. PICK again :
          /\ again = CASE result = "ok" -> <<>>
                       [] result = "requeue" -> <<retry>>
                       [] result = "err" -> IF RetryPolicy(retry.attempt + 1)
                                            THEN << [retry EXCEPT !.attempt = @ + 1] >>
                                            ELSE <<>>
          /\ ticker' = [ticker EXCEPT !.todo = rest, !.toAdd = toAdd \o again]
          /\ owed' = [owed EXCEPT ![K][retry.n] = again # <<>>]
    BY <1>2, <1>3, <1>5 DEF RunRetry
<1>7. again = <<>> \/ \E x \in Retries : x.n = retry.n /\ again = <<x>>
    <2>1. CASE result = "ok"
        BY <1>6, <2>1
    <2>2. CASE result = "requeue"
        BY <1>6, <2>2
    <2>3. CASE result = "err"
        <3>1. CASE RetryPolicy(retry.attempt + 1)
            <4>1. PICK x : x = [retry EXCEPT !.attempt = @ + 1]
                OBVIOUS
            <4>2. retry.attempt \in Nat /\ retry.attempt + 1 <= MaxAttempts
                BY <3>1, ControllerAssumption DEF RetryPolicy, Retries
            <4>3. retry.attempt + 1 \in 0..MaxAttempts
                BY <4>2, ControllerAssumption
            <4>4. x \in Retries /\ x.n = retry.n
                BY <4>1, <4>3 DEF Retries
            <4>5. again = <<x>>
                BY <1>6, <2>3, <3>1, <4>1
            <4> QED
                BY <4>4, <4>5
        <3>2. CASE ~RetryPolicy(retry.attempt + 1)
            BY <1>6, <2>3, <3>2
        <3> QED
            BY <3>1, <3>2
    <2> QED
        BY <2>1, <2>2, <2>3
<1>8. PICK added \in Seq(Retries) :
          /\ added = toAdd \o again /\ Single(added)
          /\ Events(added) = Events(toAdd) \cup (IF again = <<>> THEN {} ELSE {retry.n})
    <2>1. CASE again = <<>>
        <3>1. toAdd \o again = toAdd
            BY <2>1, ConcatEmptySeq
        <3> QED
            BY <1>4, <2>1, <3>1
    <2>2. ASSUME NEW x \in Retries, x.n = retry.n, again = <<x>>
          PROVE  \E a \in Seq(Retries) :
                    /\ a = toAdd \o again /\ Single(a)
                    /\ Events(a) = Events(toAdd) \cup (IF again = <<>> THEN {} ELSE {retry.n})
        <3>1. toAdd \o again = Append(toAdd, x) /\ again # <<>>
            BY <2>2, AppendIsConcat
        <3>2. x.n \notin Events(toAdd)
            BY <1>4, <1>5, <2>2
        <3>3. /\ Append(toAdd, x) \in Seq(Retries) /\ Single(Append(toAdd, x))
              /\ Events(Append(toAdd, x)) = Events(toAdd) \cup {retry.n}
            BY <1>4, <2>2, <3>2, AppendSingle
        <3> QED
            BY <3>1, <3>3
    <2> QED
        BY <1>7, <2>1, <2>2
<1>9. /\ ticker' \in Tickers /\ ticker'.pc = "run" /\ ticker'.key = K /\ ticker'.todo = rest
      /\ ticker'.toAdd = added /\ ticker'.due = due
    <2>1. ticker' = [ticker EXCEPT !.todo = rest, !.toAdd = added]
        BY <1>6, <1>8
    <2> QED
        BY <1>1, <1>2, <1>3, <2>1 DEF Tickers
<1>10. retry.n \in 1..MaxEvents
    BY DEF Retries
<1>11. PICK s \in Seq(Retries) : s = toRetry[K] /\ Single(s)
    BY <1>1
<1>12. UNCHANGED <<handler, events>> /\ toRetry' = toRetry /\ toRetry' = [toRetry EXCEPT ![K] = s]
    BY <1>1, <1>11 DEF RunRetry
<1>13. owed \in [Keys -> [1..MaxEvents -> BOOLEAN]]
    BY DEF RetryInv, RetriesOk
<1>14. /\ owed' \in [Keys -> [1..MaxEvents -> BOOLEAN]]
       /\ \A k \in Keys : k # K => owed'[k] = owed[k]
       /\ \A n \in 1..MaxEvents : owed'[K][n] <=> IF n = retry.n THEN again # <<>> ELSE owed[K][n]
    <2>1. PICK b \in BOOLEAN : b <=> again # <<>>
        OBVIOUS
    <2>2. PICK g : g = [owed[K] EXCEPT ![retry.n] = again # <<>>]
        OBVIOUS
    <2>3. /\ g \in [1..MaxEvents -> BOOLEAN]
          /\ \A n \in 1..MaxEvents : g[n] <=> IF n = retry.n THEN again # <<>> ELSE owed[K][n]
        BY <1>10, <1>13, <2>2
    <2>4. owed' = [owed EXCEPT ![K] = g]
        BY <1>6, <2>2
    <2> QED
        BY <1>13, <2>3, <2>4
<1>15. /\ Kept(K) = {n \in Events(s) : <<K, n>> \notin due} /\ Held(K) = Events(todo) \cup Events(toAdd)
       /\ Kept(K)' = {n \in Events(s) : <<K, n>> \notin due} /\ Held(K)' = Events(rest) \cup Events(added)
    <2>1. Kept(K) = {n \in Events(s) : <<K, n>> \notin due} /\ Held(K) = Events(todo) \cup Events(toAdd)
        BY <1>2, <1>3, <1>11 DEF Kept, Held
    <2>2. Kept(K)' = {n \in Events(s) : <<K, n>> \notin due} /\ Held(K)' = Events(rest) \cup Events(added)
        BY <1>9, <1>11, <1>12 DEF Kept, Held, Locked
    <2> QED
        BY <2>1, <2>2
<1>16. \A n \in 1..MaxEvents : owed[K][n] <=> n \in Kept(K) \cup Held(K)
    BY DEF RetryInv, Owed
<1>17. retry.n \notin Kept(K) /\ retry.n \in Held(K) /\ retry.n \notin Events(toAdd)
    BY <1>4, <1>5, <1>15
<1>18. \A n \in 1..MaxEvents : owed'[K][n] <=> n \in Kept(K)' \cup Held(K)'
    <2> SUFFICES ASSUME NEW n \in 1..MaxEvents PROVE owed'[K][n] <=> n \in Kept(K)' \cup Held(K)'
        OBVIOUS
    <2>1. CASE n = retry.n
        BY <1>5, <1>8, <1>14, <1>15, <1>17, <2>1
    <2>2. CASE n # retry.n
        BY <1>5, <1>8, <1>14, <1>15, <1>16, <2>2
    <2> QED
        BY <2>1, <2>2
<1>19. \A n \in 1..MaxEvents : owed'[K][n] => owed[K][n]
    BY <1>10, <1>14, <1>16, <1>17
<1>20. /\ Single(ticker'.todo) /\ Single(ticker'.toAdd) /\ Events(ticker'.todo) \cap Events(ticker'.toAdd) = {}
       /\ \A n \in Events(ticker'.todo) \cup Events(ticker'.toAdd) : <<K, n>> \in ticker'.due
    BY <1>4, <1>5, <1>8, <1>9
<1> QED
    BY <1>2, <1>9, <1>11, <1>12, <1>14, <1>18, <1>19, <1>20, OneKey

(* AfterKey: the ticker has retries to add back, or lets the key go.       *)
LEMMA AfterKeyOk ==
    ASSUME NEW t \in Tickers, t.pc \in {"run", "add"}, t.todo = <<>>, NEW u, u = AfterKey(t)
    PROVE  /\ u \in Tickers /\ u.todo = <<>> /\ u.toAdd = t.toAdd /\ u.due = t.due
           /\ t.toAdd # <<>> => u.pc = "add" /\ u.key = t.key
           /\ t.toAdd = <<>> => u.pc \in {"idle", "key"} /\ u.key = NoKey
<1>1. CASE t.toAdd # <<>>
    BY <1>1 DEF AfterKey, Tickers
<1>2. CASE t.toAdd = <<>>
    <2>1. PICK pc \in {"idle", "key"} : u = [t EXCEPT !.pc = pc, !.key = NoKey]
        BY <1>2 DEF AfterKey
    <2> QED
        BY <1>2, <2>1 DEF Tickers
<1> QED
    BY <1>1, <1>2

LEMMA RemovedRetries == ASSUME RetryInv, RetriesRemoved PROVE RetryInv'
<1>1. ticker \in Tickers /\ toRetry \in [Keys -> Seq(Retries)] /\ \A k \in Keys : Single(toRetry[k])
    BY TickerOk
<1>2. PICK K \in Keys : K = ticker.key /\ Locked(K) /\ ticker.pc = "run"
    BY DEF RetriesRemoved, RetryInv, NotDoubled, Locked
<1>3. PICK toAdd \in Seq(Retries), due \in SUBSET (Keys \X (1..MaxEvents)) :
          toAdd = ticker.toAdd /\ due = ticker.due /\ ticker.todo = <<>>
    BY <1>1 DEF Tickers, RetriesRemoved
<1>4. Single(toAdd) /\ \A n \in Events(toAdd) : <<K, n>> \in due
    BY <1>2, <1>3 DEF RetryInv, NotDoubled
<1>5. PICK s \in Seq(Retries) : s = toRetry[K] /\ Single(s)
    BY <1>1
<1>6. PICK left : left = NotRun
    OBVIOUS
<1>7. left \in Seq(Retries) /\ Single(left) /\ Events(left) = {n \in Events(s) : <<K, n>> \notin due}
    <2>1. left = Selected(s, {r \in ToSet(s) : <<K, r.n>> \notin due})
        BY <1>2, <1>3, <1>5, <1>6 DEF NotRun
    <2>2. Events(left) = {n \in Events(s) : <<K, n>> \notin due}
        <3>1. PICK S : S = {r \in ToSet(s) : <<K, r.n>> \notin due}
            OBVIOUS
        <3>2. PICK D : D = {n \in Events(s) : <<K, n>> \notin due}
            OBVIOUS
        <3>3. \A r \in ToSet(s) : r \in S <=> r.n \in D
            BY <3>1, <3>2, ToSetOk
        <3>4. Events(Selected(s, S)) = Events(s) \cap D
            BY <3>3, DueEvents
        <3> QED
            BY <2>1, <3>1, <3>2, <3>4
    <2>3. PICK S : left = Selected(s, S)
        BY <2>1
    <2>4. left \in Seq(Retries) /\ Single(left)
        BY <1>5, <2>3, SelectedOk
    <2> QED
        BY <2>2, <2>4
<1>8. PICK t : t = [ticker EXCEPT !.due = {d \in @ : d[1] # ticker.key}]
    OBVIOUS
<1>9. t \in Tickers /\ t.pc = "run" /\ t.todo = <<>> /\ t.toAdd = toAdd /\ t.key = K
    BY <1>1, <1>2, <1>3, <1>8 DEF Tickers
<1>10. /\ toRetry' = [toRetry EXCEPT ![K] = left] /\ ticker' = AfterKey(t) /\ UNCHANGED <<owed, handler, events>>
    BY <1>2, <1>6, <1>8 DEF RetriesRemoved
<1>11. /\ ticker' \in Tickers /\ ticker'.todo = <<>> /\ ticker'.toAdd = toAdd
       /\ toAdd # <<>> => ticker'.pc = "add" /\ ticker'.key = K
       /\ toAdd = <<>> => ticker'.pc \in {"idle", "key"} /\ ticker'.key = NoKey
    BY <1>9, <1>10, AfterKeyOk
<1>12. toRetry'[K] = left /\ K # NoKey
    BY <1>1, <1>10, NoKeyOk
<1>13. Kept(K) \cup Held(K) = Events(left) \cup Events(toAdd)
    BY <1>2, <1>3, <1>5, <1>7, NoEvents DEF Kept, Held
<1>14. Kept(K)' \cup Held(K)' = Events(left) \cup Events(toAdd)
    <2>1. Kept(K)' = Events(left)
        BY <1>11, <1>12 DEF Kept, Locked
    <2>2. CASE toAdd = <<>>
        BY <1>11, <1>12, <2>1, <2>2, NoEvents DEF Held
    <2>3. CASE toAdd # <<>>
        BY <1>11, <2>1, <2>3, NoEvents DEF Held
    <2> QED
        BY <2>2, <2>3
<1>15. owed \in [Keys -> [1..MaxEvents -> BOOLEAN]] /\ \A n \in 1..MaxEvents : owed[K][n] <=> n \in Kept(K) \cup Held(K)
    BY DEF RetryInv, RetriesOk, Owed
<1>16. \A n \in 1..MaxEvents : owed'[K][n] <=> n \in Kept(K)' \cup Held(K)'
    BY <1>10, <1>13, <1>14, <1>15
<1>17. /\ Single(ticker'.todo) /\ Single(ticker'.toAdd) /\ Events(ticker'.todo) \cap Events(ticker'.toAdd) = {}
       /\ Events(ticker'.toAdd) \cap Events(left) = {}
    BY <1>4, <1>7, <1>11, NoEvents
<1> QED
    BY <1>2, <1>7, <1>10, <1>11, <1>15, <1>16, <1>17, OneKey

LEMMA AddBackRetries == ASSUME RetryInv, AddBack PROVE RetryInv'
<1>1. ticker \in Tickers /\ toRetry \in [Keys -> Seq(Retries)] /\ \A k \in Keys : Single(toRetry[k])
    BY TickerOk
<1>2. PICK K \in Keys : K = ticker.key /\ ~Locked(K) /\ ticker.pc = "add"
    BY DEF AddBack, RetryInv, NotDoubled, Locked
<1>3. PICK toAdd \in Seq(Retries) : toAdd = ticker.toAdd /\ ticker.todo = <<>> /\ toAdd # <<>> /\ Single(toAdd)
    BY <1>1, <1>2 DEF Tickers, RetryInv, NotDoubled
<1>4. PICK s \in Seq(Retries) : s = toRetry[K] /\ Single(s) /\ Events(toAdd) \cap Events(s) = {}
    BY <1>1, <1>2, <1>3 DEF RetryInv, NotDoubled
<1>5. PICK retry \in Retries, rest \in Seq(Retries) :
          /\ retry = Head(toAdd) /\ rest = Tail(toAdd) /\ Single(rest)
          /\ Events(toAdd) = Events(rest) \cup {retry.n} /\ retry.n \notin Events(rest)
    BY <1>3, TailSingle
<1>6. PICK more : more = Append(s, retry)
    OBVIOUS
<1>7. more \in Seq(Retries) /\ Single(more) /\ Events(more) = Events(s) \cup {retry.n}
    <2>1. retry.n \notin Events(s)
        BY <1>4, <1>5
    <2> QED
        BY <1>4, <1>6, <2>1, AppendSingle
<1>8. PICK t : t = [ticker EXCEPT !.toAdd = rest]
    OBVIOUS
<1>9. t \in Tickers /\ t.pc = "add" /\ t.todo = <<>> /\ t.toAdd = rest /\ t.key = K
    BY <1>1, <1>2, <1>3, <1>8 DEF Tickers
<1>10. /\ toRetry' = [toRetry EXCEPT ![K] = more] /\ ticker' = AfterKey(t) /\ UNCHANGED <<owed, handler, events>>
    BY <1>2, <1>3, <1>4, <1>5, <1>6, <1>8 DEF AddBack
<1>11. /\ ticker' \in Tickers /\ ticker'.todo = <<>> /\ ticker'.toAdd = rest
       /\ rest # <<>> => ticker'.pc = "add" /\ ticker'.key = K
       /\ rest = <<>> => ticker'.pc \in {"idle", "key"} /\ ticker'.key = NoKey
    BY <1>9, <1>10, AfterKeyOk
<1>12. toRetry'[K] = more /\ K # NoKey
    BY <1>1, <1>10, NoKeyOk
<1>13. Kept(K) \cup Held(K) = Events(s) \cup Events(toAdd)
    BY <1>2, <1>3, <1>4, NoEvents DEF Kept, Held
<1>14. Kept(K)' \cup Held(K)' = Events(more) \cup Events(rest)
    <2>1. Kept(K)' = Events(more)
        BY <1>11, <1>12 DEF Kept, Locked
    <2>2. CASE rest = <<>>
        BY <1>11, <1>12, <2>1, <2>2, NoEvents DEF Held
    <2>3. CASE rest # <<>>
        BY <1>11, <2>1, <2>3, NoEvents DEF Held
    <2> QED
        BY <2>2, <2>3
<1>15. owed \in [Keys -> [1..MaxEvents -> BOOLEAN]] /\ \A n \in 1..MaxEvents : owed[K][n] <=> n \in Kept(K) \cup Held(K)
    BY DEF RetryInv, RetriesOk, Owed
<1>16. \A n \in 1..MaxEvents : owed'[K][n] <=> n \in Kept(K)' \cup Held(K)'
    BY <1>5, <1>7, <1>10, <1>13, <1>14, <1>15
<1>17. /\ Single(ticker'.todo) /\ Single(ticker'.toAdd) /\ Events(ticker'.todo) \cap Events(ticker'.toAdd) = {}
       /\ Events(ticker'.toAdd) \cap Events(more) = {}
    BY <1>4, <1>5, <1>7, <1>11, NoEvents
<1> QED
    BY <1>2, <1>7, <1>10, <1>11, <1>15, <1>16, <1>17, OneKey

-----------------------------------------------------------------------------
(* The theorems about InformerController.                                  *)

LEMMA InitRetries == Init => RetryInv
<1> SUFFICES ASSUME Init PROVE RetryInv
    OBVIOUS
<1>1. toRetry = [k \in Keys |-> <<>>] /\ owed = [k \in Keys |-> [n \in 1..MaxEvents |-> FALSE]]
      /\ events = 0 /\ handler.event.n = 0
    BY DEF Init, Idle
<1>2. /\ ticker.pc = "idle" /\ ticker.due = {} /\ ticker.key = NoKey /\ ticker.todo = <<>> /\ ticker.toAdd = <<>>
      /\ ticker \in Tickers
    BY NoEvents DEF Init, Tickers
<1>3. RetriesOk
    BY <1>1, <1>2, NoEvents, ControllerAssumption DEF RetriesOk
<1>4. NotDoubled
    BY <1>1, <1>2, NoEvents DEF NotDoubled
<1>5. Owed
    BY <1>1, <1>2, NoEvents DEF Owed, Kept, Held
<1>6. CallsToCome
    BY <1>1 DEF CallsToCome
<1> QED
    BY <1>3, <1>4, <1>5, <1>6 DEF RetryInv

LEMMA TickerLists ==
    ASSUME ListInv, UNCHANGED <<lists, handler>>
    PROVE  ListInv'
<1>1. HandlerOk(handler') /\ (handler'.pc \notin {"idle", "range"} => Reading(handler', mem, list, registered))
    BY DEF ListInv
<1> QED
    BY <1>1, ListsSame

LEMMA NextInv == IInv /\ [Next]_vars => IInv'
<1> SUFFICES ASSUME IInv, [Next]_vars PROVE ListInv' /\ RetryInv'
    BY DEF IInv
<1>1. ListInv /\ RetryInv /\ events \in Nat
    BY ControllerAssumption DEF IInv, RetryInv, RetriesOk
<1>2. ASSUME NEW action \in {"CREATE", "UPDATE", "RESYNC", "DELETE"}, NEW gen \in 1..MaxEvents, Event(action, gen)
      PROVE  ListInv' /\ RetryInv'
    <2>1. action \in Actions /\ gen \in Nat
        BY DEF Actions
    <2> QED
        BY <1>1, <1>2, <2>1, EventLists, EventRetries
<1>3. CASE RangeLoads
    <2>1. UNCHANGED <<toRetry, ticker, owed, events>>
        BY <1>3 DEF RangeLoads
    <2> QED
        BY <1>1, <1>3, <2>1, RangeLoadsLists, OthersRetries
<1>4. CASE dequeueIfRequired
    BY <1>1, <1>4, CallLists, DequeueRetries
<1>5. ASSUME NEW result \in {"ok", "err", "requeue"}, Return(result) PROVE ListInv' /\ RetryInv'
    <2>1. UNCHANGED <<toRetry, ticker, owed, events>>
        BY <1>5 DEF Return
    <2> QED
        BY <1>1, <1>5, <2>1, CallLists, OthersRetries
<1>6. CASE queueRetry
    BY <1>1, <1>6, CallLists, QueueRetries
<1>7. CASE RangeEnds
    BY <1>1, <1>7, RangeEndsLists, RangeEndsRetries
<1>8. ASSUME NEW due \in SUBSET Queued, Tick(due) PROVE ListInv' /\ RetryInv'
    <2>1. UNCHANGED <<lists, handler>>
        BY <1>8 DEF Tick
    <2> QED
        BY <1>1, <1>8, <2>1, TickerLists, TickRetries
<1>9. ASSUME NEW key \in Keys, StartKey(key) PROVE ListInv' /\ RetryInv'
    <2>1. UNCHANGED <<lists, handler>>
        BY <1>9 DEF StartKey
    <2> QED
        BY <1>1, <1>9, <2>1, TickerLists, StartKeyRetries
<1>10. ASSUME NEW result \in {"ok", "err", "requeue"}, RunRetry(result) PROVE ListInv' /\ RetryInv'
    <2>1. UNCHANGED <<lists, handler>>
        BY <1>10 DEF RunRetry
    <2> QED
        BY <1>1, <1>10, <2>1, TickerLists, RunRetryRetries
<1>11. CASE RetriesRemoved
    <2>1. UNCHANGED <<lists, handler>>
        BY <1>11 DEF RetriesRemoved
    <2> QED
        BY <1>1, <1>11, <2>1, TickerLists, RemovedRetries
<1>12. CASE AddBack
    <2>1. UNCHANGED <<lists, handler>>
        BY <1>12 DEF AddBack
    <2> QED
        BY <1>1, <1>12, <2>1, TickerLists, AddBackRetries
<1>13. CASE TickerStops
    <2>1. UNCHANGED <<lists, handler>>
        BY <1>13 DEF TickerStops
    <2> QED
        BY <1>1, <1>13, <2>1, TickerLists, TickerStopsRetries
<1>14. ASSUME NEW l \in Lists,
              RemoveAll(l) \/ \E c \in Consumers(l) : AddConsumer(l, c) \/ RemoveConsumer(l, c)
       PROVE  ListInv' /\ RetryInv'
    <2>1. ListInv' /\ SameCall
        BY <1>1, <1>14, RemoveAllLists, AddConsumerLists, RemoveConsumerLists
    <2>2. UNCHANGED <<toRetry, ticker, owed, events>>
        BY <1>14 DEF RemoveAll, AddConsumer, RemoveConsumer
    <2> QED
        BY <2>1, <2>2, OthersRetries DEF SameCall
<1>15. CASE UNCHANGED vars
    <2>1. UNCHANGED <<lists, handler>> /\ UNCHANGED <<toRetry, ticker, owed, events>>
        BY <1>15 DEF vars, lists
    <2> QED
        BY <1>1, <2>1, TickerLists, OthersRetries
<1> QED
    BY <1>2, <1>3, <1>4, <1>5, <1>6, <1>7, <1>8, <1>9, <1>10, <1>11, <1>12, <1>13, <1>14, <1>15
       DEF Next, HandlerStep, TickerStep

LEMMA InvAlways == Spec => []IInv
<1>1. Init => IInv
    BY InitLists, InitRetries DEF IInv
<1> QED
    BY <1>1, NextInv, PTL DEF Spec

(* The lists of watchers and reconcilers hold what was added and not       *)
(* removed, in order, and a handler that iterates one, whose array is      *)
(* written to meanwhile, calls nobody who was removed before it started:   *)
(* for any finite sets of them and any interleaving of AddWatcher,         *)
(* RemoveWatcher, RemoveAllWatchersForResource and the handlers.           *)
THEOREM ListsKeepTheirPromise == Spec => []ListsAsPromised
<1>1. ASSUME ListInv PROVE ListsAsPromised
    <2>1. ASSUME NEW l \in Lists PROVE Items(mem, list[l]) = registered[l]
        BY <1>1, ListsParts, ItemsOk
    <2>2. RemovedNotCalled
        BY <1>1 DEF RemovedNotCalled, ListInv, HandlerOk
    <2> QED
        BY <2>1, <2>2 DEF ListsAsPromised
<1>2. IInv => ListsAsPromised
    BY <1>1 DEF IInv
<1> QED
    BY <1>2, InvAlways, PTL

LEMMA ConcatSingle ==
    ASSUME NEW s \in Seq(Retries), NEW t \in Seq(Retries), Single(s), Single(t), Events(s) \cap Events(t) = {}
    PROVE  s \o t \in Seq(Retries) /\ Single(s \o t) /\ Events(s \o t) = Events(s) \cup Events(t)
<1>1. PICK a : a = s \o t
    OBVIOUS
<1>2. /\ a \in Seq(Retries) /\ Len(a) = Len(s) + Len(t) /\ Len(s) \in Nat /\ Len(t) \in Nat
      /\ \A i \in 1..(Len(s) + Len(t)) : a[i] = IF i <= Len(s) THEN s[i] ELSE t[i - Len(s)]
    BY <1>1, ConcatProperties, LenProperties
<1>3. ASSUME NEW i \in 1..Len(a), i <= Len(s) PROVE i \in 1..Len(s) /\ a[i] = s[i] /\ a[i].n \in Events(s)
    <2>1. i \in 1..Len(s) /\ a[i] = s[i]
        BY <1>2, <1>3
    <2> QED
        BY <2>1 DEF Events
<1>4. ASSUME NEW i \in 1..Len(a), ~(i <= Len(s))
      PROVE  i - Len(s) \in 1..Len(t) /\ a[i] = t[i - Len(s)] /\ a[i].n \in Events(t)
    <2>1. i - Len(s) \in 1..Len(t) /\ a[i] = t[i - Len(s)]
        BY <1>2, <1>4
    <2> QED
        BY <2>1 DEF Events
<1>5. Single(a)
    <2> SUFFICES ASSUME NEW i \in 1..Len(a), NEW j \in 1..Len(a), a[i].n = a[j].n PROVE i = j
        BY DEF Single
    <2>1. CASE i <= Len(s) /\ j <= Len(s)
        BY <1>3, <2>1 DEF Single
    <2>2. CASE ~(i <= Len(s)) /\ ~(j <= Len(s))
        <3>1. i - Len(s) = j - Len(s)
            BY <1>4, <2>2 DEF Single
        <3> QED
            BY <1>2, <3>1
    <2>3. CASE i <= Len(s) /\ ~(j <= Len(s))
        BY <1>3, <1>4, <2>3
    <2>4. CASE ~(i <= Len(s)) /\ j <= Len(s)
        BY <1>3, <1>4, <2>4
    <2> QED
        BY <2>1, <2>2, <2>3, <2>4
<1>6. Events(a) = Events(s) \cup Events(t)
    <2>1. Events(a) \subseteq Events(s) \cup Events(t)
        BY <1>3, <1>4 DEF Events
    <2>2. ASSUME NEW n \in Events(s) PROVE n \in Events(a)
        <3>1. PICK i \in 1..Len(s) : n = s[i].n
            BY <2>2 DEF Events
        <3>2. i \in 1..Len(a) /\ a[i] = s[i]
            BY <1>2
        <3> QED
            BY <3>1, <3>2 DEF Events
    <2>3. ASSUME NEW n \in Events(t) PROVE n \in Events(a)
        <3>1. PICK i \in 1..Len(t) : n = t[i].n
            BY <2>3 DEF Events
        <3>2. Len(s) + i \in 1..Len(a) /\ ~(Len(s) + i <= Len(s)) /\ (Len(s) + i) - Len(s) = i
            BY <1>2
        <3>3. a[Len(s) + i] = t[i]
            BY <1>2, <3>2
        <3> QED
            BY <3>1, <3>2, <3>3 DEF Events
    <2> QED
        BY <2>1, <2>2, <2>3
<1> QED
    BY <1>1, <1>2, <1>5, <1>6

LEMMA CountOne ==
    ASSUME NEW s \in Seq(Retries), Single(s), NEW n
    PROVE  Cardinality({i \in DOMAIN s : s[i].n = n}) = IF n \in Events(s) THEN 1 ELSE 0
<1>1. DOMAIN s = 1..Len(s)
    BY LenProperties
<1>2. PICK at : at = {i \in DOMAIN s : s[i].n = n}
    OBVIOUS
<1>3. CASE n \in Events(s)
    <2>1. PICK i \in 1..Len(s) : s[i].n = n
        BY <1>3 DEF Events
    <2>2. at = {i}
        BY <1>1, <1>2, <2>1 DEF Single
    <2>3. Cardinality({i}) = 1
        BY FS_Singleton
    <2> QED
        BY <1>2, <1>3, <2>2, <2>3
<1>4. CASE n \notin Events(s)
    <2>1. at = {}
        BY <1>1, <1>2, <1>4 DEF Events
    <2> QED
        BY <1>2, <1>4, <2>1, FS_EmptySet
<1> QED
    BY <1>3, <1>4

LEMMA WaitsOnce ==
    ASSUME RetryInv, NEW k \in Keys, NEW n \in 1..MaxEvents
    PROVE  Waiting(k, n) = IF owed[k][n] THEN 1 ELSE 0
<1>1. PICK kept : kept = IF Locked(k) THEN NotRun ELSE toRetry[k]
    OBVIOUS
<1>2. PICK held : held = IF ticker.key = k THEN ticker.todo \o ticker.toAdd ELSE <<>>
    OBVIOUS
<1>3. PICK s \in Seq(Retries) : s = toRetry[k] /\ Single(s)
    BY TickerOk
<1>4. kept \in Seq(Retries) /\ Single(kept) /\ Events(kept) = Kept(k)
    <2>1. CASE ~Locked(k)
        BY <1>1, <1>3, <2>1 DEF Kept
    <2>2. CASE Locked(k)
        <3>1. PICK S : S = {r \in ToSet(s) : <<k, r.n>> \notin ticker.due}
            OBVIOUS
        <3>2. PICK D : D = {x \in Events(s) : <<k, x>> \notin ticker.due}
            OBVIOUS
        <3>3. \A r \in ToSet(s) : r \in S <=> r.n \in D
            BY <3>1, <3>2, ToSetOk
        <3>4. kept = Selected(s, S)
            BY <1>1, <1>3, <2>2, <3>1 DEF NotRun, Locked
        <3>5. Events(kept) = Events(s) \cap D /\ kept \in Seq(Retries) /\ Single(kept)
            BY <1>3, <3>3, <3>4, DueEvents, SelectedOk
        <3>6. Kept(k) = D
            BY <1>3, <2>2, <3>2 DEF Kept
        <3> QED
            BY <3>2, <3>5, <3>6
    <2> QED
        BY <2>1, <2>2
<1>5. held \in Seq(Retries) /\ Single(held) /\ Events(held) = Held(k)
    <2>1. CASE ticker.key = k
        <3>1. held = ticker.todo \o ticker.toAdd /\ Held(k) = Events(ticker.todo) \cup Events(ticker.toAdd)
            BY <1>2, <2>1 DEF Held
        <3> QED
            BY <3>1, TickerOk, ConcatSingle
    <2>2. CASE ticker.key # k
        BY <1>2, <2>2, NoEvents DEF Held
    <2> QED
        BY <2>1, <2>2
<1>6. Events(kept) \cap Events(held) = {}
    <2>1. CASE Locked(k)
        <3>1. \A x \in Held(k) : <<k, x>> \in ticker.due
            BY <2>1 DEF Locked, Held, RetryInv, NotDoubled
        <3> QED
            BY <1>4, <1>5, <2>1, <3>1 DEF Kept
    <2>2. CASE ~Locked(k)
        BY <1>4, <1>5, <2>2, UnlockedHeld
    <2> QED
        BY <2>1, <2>2
<1>7. PICK all : all = kept \o held
    OBVIOUS
<1>8. all \in Seq(Retries) /\ Single(all) /\ Events(all) = Kept(k) \cup Held(k)
    BY <1>4, <1>5, <1>6, <1>7, ConcatSingle
<1>9. Waiting(k, n) = Cardinality({i \in DOMAIN all : all[i].n = n})
    BY <1>1, <1>2, <1>7 DEF Waiting
<1>10. Cardinality({i \in DOMAIN all : all[i].n = n}) = IF n \in Events(all) THEN 1 ELSE 0
    BY <1>8, CountOne
<1>11. owed[k][n] <=> n \in Events(all)
    BY <1>8 DEF RetryInv, Owed
<1> QED
    BY <1>9, <1>10, <1>11

(* A call that failed is waiting for its retry in exactly one place, and   *)
(* for no more attempts than the RetryPolicy grants, while the ticker      *)
(* removes, runs and adds back retries and handlers queue and dequeue      *)
(* them: for any number of events, keys and attempts.                      *)
THEOREM FailedCallsWaitOnce == Spec => []Accounted
<1>1. ASSUME RetryInv PROVE Accounted
    <2> SUFFICES ASSUME NEW k \in Keys
                 PROVE  /\ \A n \in 1..MaxEvents : Waiting(k, n) = IF owed[k][n] THEN 1 ELSE 0
                        /\ \A r \in ToSet(toRetry[k]) : r.attempt <= MaxAttempts
        BY DEF Accounted
    <2>1. toRetry[k] \in Seq(Retries)
        BY <1>1, TickerOk
    <2>2. ToSet(toRetry[k]) \subseteq Retries
        BY <2>1, ToSetOk
    <2>3. \A r \in ToSet(toRetry[k]) : r.attempt <= MaxAttempts
        BY <2>2, ControllerAssumption DEF Retries
    <2> QED
        BY <1>1, <2>3, WaitsOnce
<1>2. IInv => Accounted
    BY <1>1 DEF IInv
<1> QED
    BY <1>2, InvAlways, PTL

-----------------------------------------------------------------------------
(* The informers of a running controller.                                  *)

(* The inductive invariant: the list and the goroutines are those of       *)
(* Runnables, and ListedIsStarted.                                         *)
DynamicInv ==
    /\ runners \subseteq Runnables
    /\ runner \in [Runnables -> {"none", "run", "exited", "failed", "sending"}]
    /\ ListedIsStarted

LEMMA DynamicInitInv == DynamicInit => DynamicInv
BY DEF DynamicInit, DynamicInv, ListedIsStarted

(* What a step does to the list and to the goroutines; the other variables *)
(* matter to DynamicInv only as guards.                                    *)
LEMMA DynamicNextInv == DynamicInv /\ [DynamicNext]_dynamicVars => DynamicInv'
<1> SUFFICES ASSUME DynamicInv, [DynamicNext]_dynamicVars PROVE DynamicInv'
    OBVIOUS
<1> USE DEF DynamicInv, ListedIsStarted
<1>1. CASE Run
    BY <1>1 DEF Run
<1>2. CASE RunRefused \/ CtxDone \/ OnCtxDone \/ Wait \/ AllExited \/ Timeout \/ Close \/ UNCHANGED dynamicVars
    <2>1. UNCHANGED <<runners, running, runner>>
        BY <1>2 DEF RunRefused, CtxDone, OnCtxDone, Wait, AllExited, Timeout, Close, dynamicVars
    <2> QED
        BY <2>1
<1>3. ASSUME NEW r \in Runnables, AddRunnable(r) PROVE DynamicInv'
    BY <1>3 DEF AddRunnable
<1>4. ASSUME NEW r \in Runnables, RemoveRunnable(r) PROVE DynamicInv'
    BY <1>4 DEF RemoveRunnable
<1>5. ASSUME NEW r \in Runnables, RunnableReturns(r) PROVE DynamicInv'
    BY <1>5 DEF RunnableReturns
<1>6. ASSUME NEW r \in Runnables, Send(r) PROVE DynamicInv'
    BY <1>6 DEF Send
<1>7. ASSUME NEW r \in Runnables, Receive(r) PROVE DynamicInv'
    BY <1>7 DEF Receive
<1> QED
    BY <1>1, <1>2, <1>3, <1>4, <1>5, <1>6, <1>7 DEF DynamicNext

(* Whatever the order of Run, AddRunnable and RemoveRunnable, and whatever *)
(* the goroutines do meanwhile, no Runnable in the list of a running       *)
(* DynamicMultiRunner has been forgotten.                                  *)
THEOREM NoneForgotten == DynamicSpec => []ListedIsStarted
<1>1. DynamicInv => ListedIsStarted
    BY DEF DynamicInv
<1> QED
    BY <1>1, DynamicInitInv, DynamicNextInv, PTL DEF DynamicSpec

=============================================================================
