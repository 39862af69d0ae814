--------------------------- MODULE MCRedisSession ---------------------------
(* The table of recorded failures, the bytes of one connection from its    *)
(* handshake on, the parser storage that connections share, or the frames  *)
(* that requests travel in: a behaviour is about one of the four.          *)
EXTENDS RedisFailures, RespStorage, RedisWire, RedisFrames

CONSTANTS r1, r2, r3, z1

MCWeight == [f \in {r1, r2, r3, z1} |-> IF f = r1 THEN 2 ELSE 1]

(* A plan of each length, one with a gap: steps differ in their order only.*)
Plans == {{}, {2}, {1, 3}, Steps}

VARIABLE part       \* the part the behaviour is about

SessionInit ==
    /\ part \in {"failures", "wire", "storage", "frames"}
    /\ FailuresInit /\ WireInit /\ Init /\ FramesInit
    /\ IF part = "wire" THEN plan \in Plans ELSE plan = {}

FailuresStep ==
    part = "failures" /\ FailuresNext /\ UNCHANGED <<part, wireVars, vars, frameVars>>
WireStep ==
    part = "wire" /\ WireNext /\ UNCHANGED <<part, failureVars, vars, frameVars>>
StorageStep ==
    part = "storage" /\ Next /\ UNCHANGED <<part, failureVars, wireVars, frameVars>>
FramesStep ==
    part = "frames" /\ FramesNext /\ UNCHANGED <<part, failureVars, wireVars, vars>>

SessionNext == FailuresStep \/ WireStep \/ StorageStep \/ FramesStep

SessionSpec ==
    SessionInit /\ [][SessionNext]_<<part, failureVars, wireVars, vars, frameVars>>
=============================================================================
