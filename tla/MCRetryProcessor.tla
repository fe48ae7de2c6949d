-------------------------- MODULE MCRetryProcessor --------------------------
(* Instances of RetryProcessor for TLC.                                    *)
EXTENDS RetryProcessor, TLC

CONSTANTS k1, k2, w1, w2, create, delete

MCShard == k1 :> w1 @@ k2 :> w2

\* Exponential; a tick of the clock is the delay before attempt 1.
MCBackoff == [a \in 0..MaxAttempts |-> (2 ^ a) \div 2]
=============================================================================
