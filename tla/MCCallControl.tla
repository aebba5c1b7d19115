----------------------------- MODULE MCCallControl -----------------------------
(***************************************************************************)
(* Values for the constants of CallControl that a .cfg cannot write.       *)
(***************************************************************************)
EXTENDS CallControl, TLC

CONSTANTS q1, q2

\* Every agent serves every queue.
MCMembers == [q \in Queues |-> Agents]

\* The first queue overflows to the second, the second hangs up.
MCOverflowTo ==
  [q \in Queues |-> IF q = q1 /\ q2 \in Queues THEN q2 ELSE NoQueue]

\* The calls are interchangeable.
SymmetryOfCalls == Permutations(Calls)
===============================================================================
