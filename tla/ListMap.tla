------------------------------- MODULE ListMap -------------------------------
(***************************************************************************)
(* operator/util.go, ListMap: a map of Go slices.  A reader that iterates  *)
(* a slice shares its array with the writers, so arrays are explicit: a    *)
(* memory is a sequence of arrays, the length of an array being its        *)
(* capacity, and a slice is a window of one of them.                       *)
(*                                                                         *)
(* A missing key and an empty list are the same to every operation used    *)
(* here; both are Empty, a window of the array without cells.              *)
(***************************************************************************)
EXTENDS Integers, Sequences, SequencesExt

NoItem == "no item"

NoMemory == << <<>> >>

Empty == [array |-> 1, off |-> 0, len |-> 0]

(* The element of slice s at index i, counted from 0 as in Go.             *)
ItemAt(mem, s, i) == mem[s.array][s.off + i + 1]

Items(mem, s) == SubSeq(mem[s.array], s.off + 1, s.off + s.len)

Capacity(mem, s) == Len(mem[s.array]) - s.off

(* append of one element: in place while there is capacity, and otherwise  *)
(* in a new array of twice the capacity.                                   *)
AddItem(mem, s, x) ==
    IF s.len < Capacity(mem, s)
    THEN [mem |-> [mem EXCEPT ![s.array][s.off + s.len + 1] = x],
          slice |-> [s EXCEPT !.len = @ + 1]]
    ELSE LET items == Append(Items(mem, s), x)
         IN  [mem |-> Append(mem, [j \in 1..Max({1, 2 * s.len}) |->
                                      IF j \in DOMAIN items THEN items[j] ELSE NoItem]),
              slice |-> [array |-> Len(mem) + 1, off |-> 0, len |-> s.len + 1]]

(* Mutant of remove: the shift leaves the length as it was.                *)
MutRemove(mem, s, i) ==
    [mem |-> [mem EXCEPT ![s.array] =
                 [j \in DOMAIN @ |-> IF j - s.off - 1 \in i..(s.len - 2) THEN @[j + 1] ELSE @[j]]],
     slice |-> s]

(* remove: the first element is cut off by moving the window, the last by  *)
(* shortening it, and any other by shifting its successors in place, which *)
(* leaves the last one in the array twice.                                 *)
remove(mem, s, i) ==
    CASE i > s.len - 1            -> [mem |-> mem, slice |-> s]
      [] i = 0 /\ s.len = 1       -> [mem |-> mem, slice |-> Empty]
      [] i = 0 /\ s.len > 1       -> [mem |-> mem, slice |-> [s EXCEPT !.off = @ + 1, !.len = @ - 1]]
      [] i > 0 /\ i = s.len - 1   -> [mem |-> mem, slice |-> [s EXCEPT !.len = i]]
      [] i > 0 /\ i < s.len - 1   ->
            [mem |-> [mem EXCEPT ![s.array] =
                         [j \in DOMAIN @ |->
                             IF j - s.off - 1 \in i..(s.len - 2) THEN @[j + 1] ELSE @[j]]],
             slice |-> [s EXCEPT !.len = @ - 1]]

(* Mutant of RemoveItem: the search stops before the last element.         *)
MutRemoveItem(mem, s, x) ==
    LET found == {i \in 0..(s.len - 2) : ItemAt(mem, s, i) = x}
    IN  IF found = {} THEN [mem |-> mem, slice |-> s]
                      ELSE remove(mem, s, Min(found))

(* RemoveItem: the first element equal to x goes, if there is one.         *)
RemoveItem(mem, s, x) ==
    LET found == {i \in 0..(s.len - 1) : ItemAt(mem, s, i) = x}
    IN  IF found = {} THEN [mem |-> mem, slice |-> s]
                      ELSE remove(mem, s, Min(found))

(* RemoveItems passes over a list once: the elements of s that are in S,   *)
(* in their order.                                                         *)
Selected(s, S) ==
    LET selected[n \in 0..Len(s)] ==
            IF n = 0 THEN <<>>
            ELSE IF s[n] \in S THEN Append(selected[n - 1], s[n]) ELSE selected[n - 1]
    IN  selected[Len(s)]
=============================================================================
