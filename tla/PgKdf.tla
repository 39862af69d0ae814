-------------------------------- MODULE PgKdf --------------------------------
(***************************************************************************)
(* The key derivation that PostgreSQL connections share while they         *)
(* authenticate: protocol/scram/kdf.rs.  A derivation takes thousands of   *)
(* hash rounds, run a slice at a time by whichever connection is polled    *)
(* and stands first in the derivation's lane.  Connections that need the   *)
(* same keys share one entry, at most Lanes entries compute at once, the   *)
(* others wait in one queue, and the last finished entries stay cached.    *)
(*                                                                         *)
(* Nothing polls a connection again unless a wake was sent to it, so a     *)
(* wake that is not sent, when a derivation ends or its first member is    *)
(* cancelled, leaves a connection in its handshake for good.               *)
(***************************************************************************)
EXTENDS Integers, Sequences, FiniteSets

CONSTANTS
    Conns,      \* connections
    Keys,       \* salts and iteration counts: the keys to derive (KdfKey)
    Lanes,      \* KDF_LANES
    Caches,     \* CACHE_ENTRIES
    Slices,     \* polls one derivation takes
    MaxCancels  \* bound: connections that give up while they derive

ASSUME KdfAssumption ==
    /\ Lanes \in Nat \ {0} /\ Caches \in Nat \ {0}
    /\ Slices \in Nat \ {0} /\ MaxCancels \in Nat
    /\ "NoKey" \notin Keys

Entry == 0 .. Lanes + Caches - 1
Wait == Lanes + Caches      \* lane(None): connections without an entry
Nowhere == -1
NoKey == "NoKey"
Vacant == [key |-> NoKey, left |-> 0]

VARIABLES
    entries,    \* Coordinator::entries: [Entry -> key, slices left]
    cached,     \* Coordinator::cached: [0 .. Caches - 1 -> Entry or Nowhere]
    second,     \* Coordinator::second: the cache place to replace next
    lanes,      \* members in the order they joined: [Entry and Wait -> Seq(Conns)]
    job,        \* Member::job: [Conns -> Entry, Wait, or Nowhere: no ticket]
    need,       \* Deriving::key of a connection in its handshake, or NoKey
    mixed,      \* history: connections that answered with another's key
    polls,      \* connections a wake was sent to
    cancels     \* connections that gave up so far

kdfVars == <<entries, cached, second, lanes, job, need, mixed, polls, cancels>>

KdfInit ==
    /\ entries = [e \in Entry |-> Vacant]
    /\ cached = [p \in 0 .. Caches - 1 |-> Nowhere]
    /\ second = 0
    /\ lanes = [l \in Entry \cup {Wait} |-> <<>>]
    /\ job = [c \in Conns |-> Nowhere]
    /\ need = [c \in Conns |-> NoKey]
    /\ mixed = {}
    /\ polls = {}
    /\ cancels = 0

Computing(e) == entries[e].left > 0
Finished(e) == entries[e].key # NoKey /\ entries[e].left = 0
InCache == {cached[p] : p \in DOMAIN cached} \ {Nowhere}
FrontOf(queue) == IF queue = <<>> THEN {} ELSE {Head(queue)}
(* A connection is in a lane once; its link is taken out.                  *)
Without(queue, c) ==
    IF \A i \in DOMAIN queue : queue[i] # c THEN queue
    ELSE LET at == CHOOSE i \in DOMAIN queue : queue[i] = c
         IN  [i \in 1 .. Len(queue) - 1 |-> IF i < at THEN queue[i] ELSE queue[i + 1]]

-----------------------------------------------------------------------------
(* Coordinator::select: a cached entry of this key, then any other entry   *)
(* of it; otherwise, for a connection that may start a derivation, a free  *)
(* entry, or the one of the cache place to replace next, or of the other.  *)
Holding(key) == {e \in Entry : entries[e].key = key}
Free == {e \in Entry : entries[e] = Vacant}
Busy == {e \in Entry \ InCache : Computing(e)}
HighestFree == CHOOSE e \in Free : \A f \in Free : f <= e

VictimPlaces ==
    LET order == [i \in 0 .. Caches - 1 |-> (second + i) % Caches]
        taken == {i \in DOMAIN order : cached[order[i]] # Nowhere}
    IN {order[i] : i \in {j \in taken : \A k \in taken : j <= k}}

(* Mutant: an entry that is still cached is computed over in place.        *)
EvictedKept(place) == cached
Evicted(place) == [cached EXCEPT ![place] = Nowhere]

Fresh(key) == [key |-> key, left |-> Slices]

(* Ticket::poll lets a connection start a derivation only if nobody waits  *)
(* before it.                                                              *)
Admitted(c) == lanes[Wait] = <<>> \/ Head(lanes[Wait]) = c

(* The entry selected for c, Nowhere if it has to wait, with the entries   *)
(* and the cache that the selection leaves.                                *)
Select(c) ==
    LET key == need[c]
        found == IF Holding(key) \cap InCache # {} THEN Holding(key) \cap InCache ELSE Holding(key)
        Start(e, cs) == [entry |-> e, es |-> [entries EXCEPT ![e] = Fresh(key)], cs |-> cs]
    IN IF found # {} THEN [entry |-> CHOOSE e \in found : TRUE, es |-> entries, cs |-> cached]
       ELSE IF ~Admitted(c) \/ Cardinality(Busy) = Lanes \/ (Free = {} /\ VictimPlaces = {})
            THEN [entry |-> Nowhere, es |-> entries, cs |-> cached]
       ELSE IF Free # {} THEN Start(HighestFree, cached)
       ELSE LET place == CHOOSE p \in VictimPlaces : TRUE IN Start(cached[place], Evicted(place))

(* Coordinator::cache: the entry in the place to replace next is freed.    *)
Cached(e, es, cs) ==
    /\ cached' = [cs EXCEPT ![second] = e]
    /\ entries' = IF cs[second] = Nowhere THEN es ELSE [es EXCEPT ![cs[second]] = Vacant]
    /\ second' = (second + 1) % Caches

(* Who is woken when c leaves the lane at: the first connection waiting if *)
(* that frees or caches the entry, otherwise the next of a lane whose      *)
(* first member left.  Mutant: the turn of the first is not passed on.     *)
ReleaseWakesWaiting(c, at, before, after) ==
    IF at # Wait /\ after[at] = <<>> THEN FrontOf(after[Wait]) ELSE {}
ReleaseWakes(c, at, before, after) ==
    IF at # Wait /\ after[at] = <<>> THEN FrontOf(after[Wait])
    ELSE IF FrontOf(before[at]) = {c} THEN FrontOf(after[at]) ELSE {}

(* A completed derivation with others in its lane leaves a place to        *)
(* compute in, so the first connection waiting is woken too.               *)
CompletionWakes(at, after) == IF after[at] = <<>> THEN {} ELSE FrontOf(after[Wait])

(* Ticket::release, from the entries es, the cache cs and the lanes before *)
(* of the same poll, which adds the wakes.                                 *)
Release(c, at, es, cs, before, after, wakes) ==
    /\ lanes' = after
    /\ job' = [job EXCEPT ![c] = Nowhere]
    /\ IF at # Wait /\ after[at] = <<>> /\ es[at].left = 0 THEN Cached(at, es, cs)
       ELSE /\ entries' = IF at # Wait /\ after[at] = <<>> THEN [es EXCEPT ![at] = Vacant] ELSE es
            /\ cached' = cs
            /\ UNCHANGED second
    /\ polls' = (polls \ {c}) \cup ReleaseWakes(c, at, before, after) \cup wakes

Leaves(queues, at, c) == [queues EXCEPT ![at] = Without(@, c)]

-----------------------------------------------------------------------------
(* Scram::begin stores the key and the connection polls at once: the wake  *)
(* stands for that first poll.  Runtime::try_entry gave it its ticket.     *)
BeginDeriving(c, key) ==
    /\ job[c] = Nowhere /\ need[c] = NoKey
    /\ need' = [need EXCEPT ![c] = key]
    /\ job' = [job EXCEPT ![c] = Wait]
    /\ polls' = polls \cup {c}
    /\ UNCHANGED <<entries, cached, second, lanes, mixed, cancels>>

Deriving(c) == job[c] # Nowhere

(* Ticket::poll, by what the connection meets.  It finds no entry: it      *)
(* joins the waiting queue, once.                                          *)
PollWaits(c) ==
    /\ job[c] = Wait /\ Select(c).entry = Nowhere
    /\ lanes' = [lanes EXCEPT ![Wait] = IF \E i \in DOMAIN @ : @[i] = c THEN @ ELSE Append(@, c)]
    /\ polls' = polls \ {c}
    /\ UNCHANGED <<entries, cached, second, job, need, mixed, cancels>>

(* The connection takes the keys of an entry and answers the server.       *)
Answers(c, key) ==
    /\ mixed' = mixed \cup (IF key = need[c] THEN {} ELSE {c})
    /\ need' = [need EXCEPT ![c] = NoKey]

(* In the lane of an entry that computes, the first runs one slice and     *)
(* asks to be polled again, or completes it and is done; the others wait   *)
(* for their turn.  queues: the lanes once c is in that of entry e.        *)
Compute(c, e, es, cs, queues, wakes) ==
    IF Head(queues[e]) = c /\ es[e].left = 1
    THEN LET after == Leaves(queues, e, c) IN
         /\ Release(c, e, [es EXCEPT ![e].left = 0], cs, queues, after,
                    wakes \cup CompletionWakes(e, after))
         /\ Answers(c, es[e].key)
         /\ UNCHANGED cancels
    ELSE /\ entries' = IF Head(queues[e]) = c THEN [es EXCEPT ![e].left = @ - 1] ELSE es
         /\ cached' = cs
         /\ lanes' = queues
         /\ job' = [job EXCEPT ![c] = e]
         /\ polls' = (polls \ {c}) \cup wakes \cup (IF Head(queues[e]) = c THEN {c} ELSE {})
         /\ UNCHANGED <<second, need, mixed, cancels>>

PollContinues(c) ==
    /\ job[c] \in Entry /\ Computing(job[c])
    /\ Compute(c, job[c], entries, cached, lanes, {})

(* A connection that leaves the head of the waiting queue for a lane wakes *)
(* the next one there.                                                     *)
PollJoins(c) ==
    LET pick == Select(c)
        queues == [Leaves(lanes, Wait, c) EXCEPT ![pick.entry] = Append(@, c)]
    IN /\ job[c] = Wait /\ pick.entry # Nowhere /\ pick.es[pick.entry].left > 0
       /\ Compute(c, pick.entry, pick.es, pick.cs, queues,
                  IF FrontOf(lanes[Wait]) = {c} THEN FrontOf(queues[Wait]) ELSE {})

(* The entry is finished: take the keys and leave.                         *)
PollFinished(c) ==
    LET e == IF job[c] = Wait THEN Select(c).entry ELSE job[c] IN
    /\ Deriving(c) /\ e # Nowhere
    /\ (IF job[c] = Wait THEN Select(c).es ELSE entries)[e].left = 0
    /\ Release(c, job[c], entries, cached, lanes, Leaves(lanes, job[c], c), {})
    /\ Answers(c, entries[e].key)
    /\ UNCHANGED cancels

Poll(c) == PollWaits(c) \/ PollContinues(c) \/ PollJoins(c) \/ PollFinished(c)

(* A wake polls the connection, and so does any other turn of it.          *)
WokenPoll(c) == c \in polls /\ Poll(c)
StrayPoll(c) == c \notin polls /\ Poll(c)

(* State::cancel of a connection that fails or closes while it derives.    *)
CancelDeriving(c) ==
    /\ Deriving(c) /\ cancels < MaxCancels
    /\ cancels' = cancels + 1
    /\ Release(c, job[c], entries, cached, lanes, Leaves(lanes, job[c], c), {})
    /\ need' = [need EXCEPT ![c] = NoKey]
    /\ UNCHANGED mixed

KdfNext == \E c \in Conns :
    \/ \E key \in Keys : BeginDeriving(c, key)
    \/ WokenPoll(c) \/ StrayPoll(c) \/ CancelDeriving(c)

(* The executor polls every fiber that was woken.                          *)
KdfFairness == \A c \in Conns : WF_kdfVars(WokenPoll(c))

KdfSpec == KdfInit /\ [][KdfNext]_kdfVars /\ KdfFairness

-----------------------------------------------------------------------------
(* Every connection in a lane of an entry finds it there, computing or     *)
(* finished, and for its own key; nobody is in two lanes; no more than     *)
(* Lanes derivations run; the cache holds finished entries that nobody is  *)
(* waiting on, none twice.  The unreachable!("kdf") of poll rests on it.   *)
EntriesSound ==
    /\ \A c \in Conns : job[c] \in Entry =>
        /\ entries[job[c]].key = need[c]
        /\ \E i \in DOMAIN lanes[job[c]] : lanes[job[c]][i] = c
    /\ \A l \in Entry \cup {Wait} : \A i \in DOMAIN lanes[l] : job[lanes[l][i]] = l
    /\ Cardinality({e \in Entry : Computing(e)}) <= Lanes
    /\ \A e \in InCache : Finished(e) /\ lanes[e] = <<>>
    /\ \A e \in Entry : entries[e] # Vacant => e \in InCache \/ lanes[e] # <<>>
    /\ Cardinality(InCache) = Cardinality({p \in DOMAIN cached : cached[p] # Nowhere})
    /\ mixed = {}

(* No turn is lost: the first of every lane will be polled, a connection   *)
(* without a lane will be or is queued, and the first of the queue will be *)
(* unless there is no place for it, and then somebody else is at work.     *)
TurnsKept ==
    /\ \A e \in Entry : lanes[e] # <<>> => Head(lanes[e]) \in polls
    /\ \A c \in Conns : job[c] = Wait =>
          c \in polls \/ \E i \in DOMAIN lanes[Wait] : lanes[Wait][i] = c
    /\ lanes[Wait] # <<>> =>
          \/ Head(lanes[Wait]) \in polls
          \/ /\ Select(Head(lanes[Wait])).entry = Nowhere
             /\ \E e \in Entry : lanes[e] # <<>>

(* A connection that starts to derive gets its keys or is cancelled.       *)
DerivationEnds == \A c \in Conns : Deriving(c) ~> ~Deriving(c)
=============================================================================
