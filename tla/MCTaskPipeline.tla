--------------------------- MODULE MCTaskPipeline ---------------------------
(* Model-checking instances of TaskPipeline: which faults happen, and how often. *)
EXTENDS TaskPipeline, TLC

CONSTANTS m1, m2, h1

\* m1 and m2 are two users' copies of the same video.
SameContent == [m \in Media |-> h1]

Faults(f) == [x \in Fault |-> IF x \in DOMAIN f THEN f[x] ELSE IF x = "any" THEN 9 ELSE 0]

RebalanceBudget == [Faults([agent |-> 3, rebalance |-> 2, delete |-> 1, replay |-> 1]) EXCEPT !.any = 4]
StormBudget == [x \in Fault |-> IF x = "any" THEN 2 ELSE 1]
LiveBudget == Faults([agent |-> 2, produce |-> 1, call |-> 1])

Symmetric == Permutations(Worker) \union Permutations(Request)
=============================================================================
