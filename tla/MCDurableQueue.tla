---------------------------- MODULE MCDurableQueue ----------------------------
(* DurableQueue on a small instance: a job with one attempt, one with two  *)
(* and one with three, and two workers.                                    *)
EXTENDS DurableQueue, TLC

MCJobs == 1..3

MCLimit == [j \in MCJobs |-> j]

Symmetry == Permutations(Workers)
=============================================================================
