--------------------------- MODULE MCWorkerLease ---------------------------
(***************************************************************************)
(* WorkerLease on small instances.  Agents are model values; the classes   *)
(* are given by name.                                                      *)
(***************************************************************************)
EXTENDS WorkerLease

CONSTANTS a1, a2

OneAgent == {a1}
TwoAgents == {a1, a2}
LargeClass == [a \in Agent |-> 1]
OneClass == [a \in Agent |-> 0]
\* a1 is the small worker, a2 the large one.
SmallAndLarge == [a \in Agent |-> IF a = a2 THEN 1 ELSE 0]

=============================================================================
