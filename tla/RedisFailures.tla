---------------------------- MODULE RedisFailures ----------------------------
(***************************************************************************)
(* The failures a Redis client reports while no connection serves:         *)
(* port/failures.rs, which keeps the last failure of every slot and a      *)
(* cached pointer to the lowest occupied one.  RedisRoutes keeps of it     *)
(* only the set of occupied slots, fatal; the terminal stop that is        *)
(* reported when no failure is recorded is RedisClient's.                  *)
(*                                                                         *)
(* The cache points into the lane array, so a cache that is not the lowest *)
(* occupied lane, or points at an empty one, is a read of a failure that   *)
(* was moved out.                                                          *)
(***************************************************************************)
EXTENDS Integers

CONSTANTS
    Slots,      \* number of connection slots
    Failure     \* failures a connection can end with

NoFailure == "NoFailure"

ASSUME FailuresAssumption ==
    /\ Slots \in Nat \ {0}
    /\ NoFailure \notin Failure

Slot == 0 .. Slots - 1
Nowhere == -1

VARIABLES
    lanes,      \* [Slot -> Failure or NoFailure]
    first       \* slot the cached pointer designates, or Nowhere

failureVars == <<lanes, first>>

Occupied == {s \in Slot : lanes[s] # NoFailure}

FailuresInit ==
    /\ lanes = [s \in Slot |-> NoFailure]
    /\ first = Nowhere

(* The lower of the cached slot and s.  Mutant: the last one recorded.     *)
LowestLast(s) == s
Lowest(s) == IF first # Nowhere /\ first < s THEN first ELSE s

(* Failures::record: insert and lower the cache.                           *)
Record(s, f) ==
    /\ lanes' = [lanes EXCEPT ![s] = f]
    /\ first' = Lowest(s)

(* The next occupied slot after s, the earlier ones being empty.           *)
(* Mutant: the search forgets to skip s itself.                            *)
NextOccupiedAt(s) ==
    LET after == {t \in Occupied : t >= s}
    IN IF after = {} THEN Nowhere
       ELSE CHOOSE t \in after : \A u \in after : t <= u
NextOccupied(s) ==
    LET after == {t \in Occupied : t > s}
    IN IF after = {} THEN Nowhere
       ELSE CHOOSE t \in after : \A u \in after : t <= u

(* Failures::clear: a cleared lane that the cache designates moves it on.  *)
Clear(s) ==
    /\ lanes' = [lanes EXCEPT ![s] = NoFailure]
    /\ first' = IF first = s /\ lanes[s] # NoFailure THEN NextOccupied(s) ELSE first

FailuresNext ==
    \E s \in Slot : Clear(s) \/ \E f \in Failure : Record(s, f)

FailuresSpec == FailuresInit /\ [][FailuresNext]_failureVars

-----------------------------------------------------------------------------
(* The cached pointer designates an occupied lane, the lowest one, and is  *)
(* absent exactly when every lane is empty: Failures::cause never reads a  *)
(* failure that clear moved out, and misses none.                          *)
FirstLowest ==
    /\ first = Nowhere => Occupied = {}
    /\ first # Nowhere => first \in Occupied /\ \A s \in Occupied : first <= s
=============================================================================
