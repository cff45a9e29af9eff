------------------------------ MODULE MCMaster ------------------------------
(***************************************************************************)
(* Constants for model checking Master: one-shot transactions a and b, and *)
(* repeatable ones p and q.                                                *)
(***************************************************************************)
EXTENDS Master

CONSTANTS a, b, p, q, s1, s2, s3

\* One retry each, so that a request can fail, succeed late and be given up.
OneRetry == [t \in Txn |-> 1]

\* p polls after a timer, q at once; the others are not repeatable.
Intervals == [t \in Txn |-> IF t = p THEN 1 ELSE IF t = q THEN 0 ELSE -1]

\* Exchange identifiers are interchangeable.
SlotSymmetry == Permutations(Slot)

=============================================================================
