----------------------------- MODULE TokenBucket -----------------------------
(***************************************************************************)
(* What package ratelimit promises: a bucket that starts full, gains       *)
(* Refill tokens a tick up to its capacity, and answers each question with *)
(* yes exactly when there is a token to take.                              *)
(***************************************************************************)
EXTENDS Naturals

CONSTANTS Key, Capacity, Refill

VARIABLES level,  \* the tokens of each bucket
          asked   \* the latest question and its answer

AtMost(n, max) == IF n > max THEN max ELSE n

Init == level = Capacity /\ asked = <<>>

Grant(k) == /\ level[k] >= 1
            /\ level' = [level EXCEPT ![k] = @ - 1]
            /\ asked' = <<k, TRUE>>

Refuse(k) == level[k] = 0 /\ asked' = <<k, FALSE>> /\ UNCHANGED level

Tick == level' = [k \in Key |-> AtMost(level[k] + Refill[k], Capacity[k])] /\ UNCHANGED asked

Next == Tick \/ \E k \in Key : Grant(k) \/ Refuse(k)

Spec == Init /\ [][Next]_<<level, asked>>
=============================================================================
