---------------------------- MODULE MCRedisRoutes ----------------------------
(* The scheduler of RedisRoutes with identities that TLC may permute.      *)
EXTENDS RedisRoutes, TLC

CONSTANTS c1, c2, c3, l1, l2

CommandSymmetry == Permutations(Commands) \cup Permutations(Leases)
=============================================================================
