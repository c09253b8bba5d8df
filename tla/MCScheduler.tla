---------------------------- MODULE MCScheduler ----------------------------
(* Scheduler with a job that is due in every minute. *)
EXTENDS Scheduler, TLC

CONSTANTS i1, i2, j1

Permuted == Permutations({i1, i2})

EveryMinute == [j \in Jobs |-> 1 .. MaxMinute]

=============================================================================
