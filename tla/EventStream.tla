----------------------------- MODULE EventStream ----------------------------
(***************************************************************************)
(* What a bufferedQueue promises to its users (operator/informer_processor *)
(* .go: "a FIFO queue"): events come out in the order they went in, each   *)
(* once, until the stream is shut, when the waiting ones are dropped.      *)
(***************************************************************************)
EXTENDS Sequences

CONSTANT Events

VARIABLES pending, delivered, open

vars == <<pending, delivered, open>>

Init == pending = <<>> /\ delivered = <<>> /\ open = TRUE

Put(e) ==
    /\ open
    /\ pending' = Append(pending, e)
    /\ UNCHANGED <<delivered, open>>

Take ==
    /\ pending # <<>>
    /\ delivered' = Append(delivered, Head(pending))
    /\ pending' = Tail(pending)
    /\ UNCHANGED open

Shut ==
    /\ open
    /\ open' = FALSE
    /\ pending' = <<>>
    /\ UNCHANGED delivered

Next == Take \/ Shut \/ \E e \in Events : Put(e)

Spec == Init /\ [][Next]_vars

=============================================================================
