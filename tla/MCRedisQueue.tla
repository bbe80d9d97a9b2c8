---------------------------- MODULE MCRedisQueue ----------------------------
(* Symmetry for RedisQueue.                                                *)
EXTENDS RedisQueue

Symmetry == Permutations(Procs)

=============================================================================
