---------------------------- MODULE SqliteScopes ----------------------------
(***************************************************************************)
(* What the transactions and savepoints of the SQLite client promise.      *)
(*                                                                         *)
(* Scopes nest: the first is the transaction, the others savepoints, and   *)
(* only the innermost can be used.  A scope that is committed, or left     *)
(* without being dropped, hands its writes to the one around it; a scope   *)
(* that is dropped loses them; and the writes of the transaction become    *)
(* durable when it commits, all at once.  A transaction that failed        *)
(* commits nothing any more.                                               *)
(***************************************************************************)
EXTENDS Integers, SequencesExt

CONSTANT Writes     \* what queries write

VARIABLES
    scopes,     \* Seq(SUBSET Writes): writes of every open scope
    doomed,     \* has the transaction failed?
    durable     \* SUBSET Writes: writes that were committed

vars == <<scopes, doomed, durable>>

Emptied(s) == [i \in DOMAIN s |-> {}]

Init == scopes = <<>> /\ doomed = FALSE /\ durable = {}

Begin ==
    /\ scopes = <<>>
    /\ scopes' = <<{}>>
    /\ UNCHANGED <<doomed, durable>>

Open ==
    /\ scopes # <<>> /\ ~doomed
    /\ scopes' = Append(scopes, {})
    /\ UNCHANGED <<doomed, durable>>

(* A query writes for the innermost scope, or for good if there is none.   *)
Write(w) ==
    \/ /\ scopes # <<>> /\ ~doomed
       /\ scopes' = [scopes EXCEPT ![Len(scopes)] = @ \cup {w}]
       /\ UNCHANGED <<doomed, durable>>
    \/ /\ scopes = <<>>
       /\ durable' = durable \cup {w}
       /\ UNCHANGED <<scopes, doomed>>

Merge ==
    /\ Len(scopes) > 1
    /\ scopes' = [Front(scopes) EXCEPT ![Len(scopes) - 1] = @ \cup Last(scopes)]
    /\ UNCHANGED <<doomed, durable>>

Undo ==
    /\ scopes # <<>> /\ ~doomed
    /\ scopes' = [scopes EXCEPT ![Len(scopes)] = {}]
    /\ UNCHANGED <<doomed, durable>>

Discard ==
    /\ scopes # <<>>
    /\ scopes' = Front(scopes)
    /\ doomed' = (doomed /\ Len(scopes) > 1)
    /\ UNCHANGED durable

Doom ==
    /\ scopes # <<>>
    /\ doomed' = TRUE
    /\ scopes' = Emptied(scopes)
    /\ UNCHANGED durable

(* An innermost savepoint is dropped by the failure that dooms the rest.   *)
DoomDiscard ==
    /\ Len(scopes) > 1
    /\ doomed' = TRUE
    /\ scopes' = Emptied(Front(scopes))
    /\ UNCHANGED durable

Commit ==
    /\ Len(scopes) = 1 /\ ~doomed
    /\ durable' = durable \cup scopes[1]
    /\ scopes' = <<>>
    /\ UNCHANGED doomed

Next ==
    \/ Begin \/ Open \/ Merge \/ Undo \/ Discard \/ Doom \/ DoomDiscard \/ Commit
    \/ \E w \in Writes : Write(w)

Spec == Init /\ [][Next]_vars
=============================================================================
