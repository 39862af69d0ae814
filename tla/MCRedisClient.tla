---------------------------- MODULE MCRedisClient ----------------------------
(* Two pooled commands, a command of the first lease, two lease requests   *)
(* and a watcher over the connections of RedisClient.                      *)
EXTENDS RedisClient, TLC

CONSTANTS p1, p2, x1, l1, l2, w1

MCTarget == [c \in Commands |-> IF c = x1 THEN l1 ELSE Pool]
=============================================================================
