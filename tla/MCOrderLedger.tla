----------------------------- MODULE MCOrderLedger -----------------------------
(* Instances of OrderLedger for TLC. *)
EXTENDS OrderLedger

\* One leg of one share: the races of two processes over several attempts.
OneShare == [l \in 1..1 |-> 1]
\* One leg of two shares: the smallest order that can be partly filled.
TwoShares == [l \in 1..1 |-> 2]
\* Two legs of one share each: batches, ordering and partial submission.
TwoLegs == [l \in 1..2 |-> 1]
================================================================================
