----------------------------- MODULE MCTurnQueue -----------------------------
(* Small instances of TurnQueue.                                           *)
EXTENDS TurnQueue, TLC

CONSTANTS e1, e2, e3, c1, p1, r1, k1, k2, t1, t2

\* e2 retries e1.
RetryKeys == [e \in Enqueues |-> IF e = e3 THEN k2 ELSE k1]

\* Every request has a key of its own.
DistinctKeys == [e \in Enqueues |-> e]

OneToken == [x \in Enqueues \cup Revokes |-> t1]

\* The credential that r1 ends is the one of e3, or the one of the first try.
TwoTokens == [x \in Enqueues \cup Revokes |-> IF x \in {e3, r1} THEN t2 ELSE t1]
RetryTokens == [x \in Enqueues \cup Revokes |-> IF x = e2 THEN t2 ELSE t1]

NoRows == [x \in {} |-> e1]

CancelsFirst == [x \in Cancels |-> e1]

PollsFirst == [x \in Polls |-> e1]

Symmetric == Permutations(Enqueues)
=============================================================================
