---------------------------- MODULE MCAdmission ----------------------------
EXTENDS Admission, TLC

\* The buckets of the users and the global ones.
Buckets == {"ask", "route"} \X (User \cup {None})

Small == [k \in Buckets |-> IF k[1] = "ask" THEN 3 ELSE 1]
Rates == [k \in Buckets |-> IF k[1] = "ask" THEN 2 ELSE 1]

Symmetric == Permutations(Client) \cup Permutations(Task)
=============================================================================
