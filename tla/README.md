# cartel: a verification project

cartel is a set of database drivers (Redis, PostgreSQL, SQLite) for the dope
runtime, and a macro that writes their queries. This directory holds TLA+ models
of the parts of the drivers in which several actors share state (connection
scheduling, fibers and their wake-ups, pipelines and transactions, startup, shared
key derivation, reply storage, retry and deferred cleanup) and of the algorithms
that read and write what travels (RESP frames, SCRAM and diagnostic texts,
PostgreSQL frames, rows and parameters, generated SQL). TLC checks the models on
small instances; TLAPS proves, for every size, the central safety properties of the
Redis scheduler, its clients, its failure table, and the gate and the node pool of the
reply storage; of the PostgreSQL pool with its ready index and its transactions, of a
connection's startup, the shared key derivation and the fibers of transactions; and of
SQLite's scopes with their deferred cleanup, its opening, retries and retained errors.

Contents: [inventory](#inventory), [modules and code](#modules-and-code),
[runs](#runs), [bounds](#bounds), [fairness](#fairness), [proofs](#proofs),
[what is not modelled](#what-is-not-modelled), [plan](#plan).

## Inventory

The drivers run on one thread per executor. Application code is a set of fibers
that run until they yield; the driver callbacks (opened, readable, writable,
closed) and the maintenance hook (`maintain`, `park`) run between polls. There is
no preemption, so every public operation is atomic, and all difficulties come
from the order of operations: a fiber that looked at the pool before it yielded
and acts after it, a lease that outlives its connection, a notification that was
not sent, a statement that failed halfway through a scope.

| crate | lines | role |
|---|---|---|
| `core` | 0.9k | queues with per-lane shares, request/reply handoff, deadlines |
| `redis` | 12.5k | RESP client: pooled and leased connections, pipelining |
| `pg` | 21.4k | PostgreSQL client: pool, extended protocol pipelines, transactions |
| `sqlite` | 10.3k | in-process SQLite: statements, scopes, bounded work and memory |
| `gen` | 9.5k | procedural macro that turns a query DSL into SQL and Rust |

### Redis

*Scheduler* (`port/schedule`). State: a fixed array of connection slots, each
with a generation and a phase; two FIFOs threaded through the slots (idle,
deferred); a counter of serving connections and a round-robin cursor; a request
and a reply lane per slot, with shared arenas. Operations: activate, mark_ready,
fail, quarantine, reconnect, retire, try_pool, try_dispatch_lease, drain,
try_reply, clear_send, clear_recv, try_lease, release. Hard because a link in a
FIFO, a lease and a recorded failure each carry a generation that can be stale.
Correct when an idle link is a quiet shared connection, a lease excludes everyone
else, no quiet connection is lost to leases, the counter is exact and replies
meet the right request.

*Failure table* (`port/failures.rs`). One failure per slot with the first one
cached. Correct when the cache is the lowest occupied slot.

*Client fibers* (`client`). Command fibers (admission, then response), lease
fibers, `wait_active`; two bounded notifiers; request deadlines; drop as
cancellation. Hard because each wait is woken by a notification issued somewhere
else. Correct when nobody sleeps while able to run, everything ends, and a
connection with an abandoned reply serves nobody.

*Request frames* (`port/requests.rs`, bulk reservation of `client`, the queue of
`core`). Large commands take a frame from a small pool before they are admitted,
and each lane is charged the weight of its entries. A frame comes back by
completion, by a cleared lane, by an encoding error or by a drop. Correct when no
frame is lost, charges are exact and nobody waits while a frame is free.

*Session* (`client/logic`, `protocol`). One connection's handshake (a plan of up to
three steps), the receipt each read carries, the frontier of commands the staged
bytes may answer, unsolicited frames, the policy of a close, end of input.
Correct when bytes never answer what was asked after they arrived, nothing is
served before the handshake is answered, and an orderly peer is never refused.

*Parser* (`protocol/parser/state.rs`, `limit.rs`, `number.rs`). State per
connection: a mode, the position a search resumes from, the open arrays with the
elements each still misses. Operations: scan, finish, reset. Hard because a reply
may be cut anywhere, by a read or by a wait for storage, and because every limit
is checked on untrusted lengths. Correct when the cut does not matter.

*Reply storage* (`protocol/parser/storage`, `parser/mod.rs`, `capacity.rs`). All
connections build their replies from one pool of nodes, linked in rings. A gate
admits a few connections at a time (lanes); the others suspend their input and
queue. A lane is owned by a builder, by a grant that was not used yet, or by a
finished frame that waits for room in the reply queue, and is returned by a drop.
Correct when lanes are neither lost nor invented, a suspended connection is woken
when its turn comes, tapes never share nodes, and a connection with a lane always
finds a node.

### PostgreSQL

*Pool and ready index* (`port/pool`, `protocol/runtime/ready`). State per slot:
phase, access (Shared, Reserved, Held, Finalizing, Draining) with a wrapping
sequence number, receiving flag, Sync state, pending Sync count, batch number.
Shared: an index of the open slots in buckets of rising load with a cached
minimum, and counters of live and blocking slots, kept with unchecked
arithmetic. Correct when the index lists exactly the slots that may be picked, at
their load, and the counters are exact.

*Session* (`protocol/logic`). Follows one connection: startup, SASL, backend key,
eager preparation of the query set, then CommandComplete, ErrorResponse,
ReadyForQuery, settling of a turn, flushing of input. After an error the server
discards everything up to the next Sync, and the session must fail exactly the
replies of that batch. Correct when a slot serves only after everything was shown
and described, a cancel request carries the key of its own connection, and a
failure to report is never replaced.

*Key derivation* (`protocol/scram/kdf.rs`). Thousands of hash rounds, run a slice
at a time by whichever connection is first in a derivation's lane; equal keys
share one derivation, finished ones are cached. Correct when a connection gets
its own key, and the connections that wait go on when the first one is cancelled.

*Requests, replies* (`port/requests.rs`, `port/replies`, `api/task`). Boundaries
decide which command carries a Sync. Correct when a server that keeps to the
protocol is always understood.

*Command groups* (`api/task/group.rs`, `port/replies/groups.rs`, `protocol/logic`).
A group of commands shares one Sync; it collects its own diagnostics in a buffer
reserved before it is sent, and reports what became of each command. An error may
leave open which command it hit until the ReadyForQuery. Correct when a group reports
of commands, rows and diagnostics what the server did, whenever it stops listening.

*Transaction fibers* (`api/task/tx`, `api/tx`, wait tables of `protocol/runtime`).
BEGIN reserves a connection; COMMIT or ROLLBACK returns it; dropping the holder
aborts. A fiber may wait for readiness, for room, for a reply and for its slot to
change state, in different tables. Correct when nobody else's command enters a
transaction, an idle shared connection is in none, each lease has one holder, a
commit that reports success was committed, and no fiber is left waiting.

*Values, descriptions, frames* (`schema`, `protocol/value`, `protocol/encode`,
`protocol/frame`, `api/request`). A row is validated once and then read without
checks; a description decides types and formats; Bind writes each parameter in its
format; the codec cuts the server's bytes into frames. Correct when the second
reading finds what the first one accepted and exactly the frames of the protocol
are written and accepted.

*Texts* (`protocol/scram/parser.rs`, `password.rs`, `reply`). SCRAM attribute lists,
SASLprep of passwords, the fields of errors and notices.

### SQLite

*Transactions and cleanup* (`engine/api/tx`, `exec`, `work`). State: depth,
deferred cleanup (debt), mode, health, the typestate scopes the application
holds, the running call. A dropped transaction or savepoint runs no statement: it
leaves a debt that the next call, or the parked application, pays. Faults,
automatic rollbacks, cancelled calls and forgotten (leaked) scopes all have to
end in the meaning of nested scopes.

*Connection lifecycle* (`engine/conn`). Lent, returned, stopping, closing,
retired, forced.

*Opening, calls, retry, retained errors* (`engine/api/state/open`,
`engine/retry`, `engine/api/work`, `runtime/slot`). One slot of attempts, window and alarm serves the opening and then every
call; a meter charges virtual-machine work; errors nobody is there to receive are
retained and delivered by the retirement. Correct when one operation's contention
never counts against another, an error is told once and in order, a connection
serves only when every setting and command has been applied once, and the rows of a call
count against its scan through every retry.

*Memory* (`settings/memory.rs`, `runtime/raw`, `runtime/heap`). One allocation per
worker, cut into spans; in it the arenas that SQLite's memory hooks are served from, each
a buddy allocator whose links lie in the free blocks themselves and are followed
unchecked. An installation enters a scope for the time SQLite runs; an arena lives as
long as it is installed or holds a block. Correct when blocks tile their arena, a free list
names exactly its free blocks, an allocation keeps what was stored in it, and an
arena goes neither early nor never.

### Query macro

*gen* (`parse`, `shape`, `plan`, `pred`, `backend`, `emit`). A chain of method calls
becomes SQL and a list of parameters. Clauses are rendered in another order than they
are written, tables are named by the depth of their subquery, and parameters are
numbered at their first use. Correct when columns and parameters in the SQL are
those the chain names.

### Interactions

The Redis client fibers call the scheduler directly and are woken by it through
`port::Activity`. The driver side calls the same scheduler from its callbacks; the
frames it delivers come from the parser, which takes a lane and nodes from the
reply storage, and go back to that storage when the application drops the reply.
The pg session, the pool and the replies share one slot record: `poll_ready`
changes access, index and reply lane in one step, and wakes the fibers of
transactions through the wait tables. Startups of several pg connections meet in
the key derivation. The SQLite scopes, the call machine and the park hook share one
`Work` cell. The five crates otherwise only share `core`; the SQL of `gen` reaches pg and
SQLite as prepared statements.

## Modules and code

| module | models | built on |
|---|---|---|
| `RedisRoutes` | the Redis scheduler | |
| `RedisFailures` | failure table | |
| `RedisClient` | command, lease and watch fibers, notifiers, deadlines | `RedisRoutes` |
| `RedisClientProofs` | the theorems of the scheduler and of its clients, and that these refine it | `RedisClient` |
| `RedisFrames` | bulk frames, sized encoding, weights of the request lane | |
| `RedisWire` | one connection's handshake, receipts, frontier, end of input | |
| `RedisWireProofs` | the theorems of both | `RedisWire`, `RedisFrames` |
| `RespStorage` | parser lanes, node pool, tapes, delivery of frames | |
| `RedisSessionProofs` | the theorems of failures and storage | `RedisFailures`, `RespStorage` |
| `RespParser` | the resumable RESP scan, and a reference grammar | |
| `PgPool` | pool, ready index, session turns, replies, transactions | |
| `PgPoolProofs` | theorems on its index, counters and batches | `PgPool` |
| `PgPoolLeaseProofs` | theorems on its leases, requests, transactions and answers | `PgPoolProofs` |
| `PgStartup` | startup, SASL, preparation, backend keys, recorded causes | |
| `PgKdf` | the key derivations connections share | |
| `PgTx` | transaction fibers, their wait tables and deadlines | |
| `PgSessionProofs` | the theorems of all three | `PgStartup`, `PgKdf`, `PgTx` |
| `PgGroup` | groups of commands: their orders, rows and diagnostics | |
| `PgText` | SCRAM attributes, password normalisation, diagnostics | |
| `PgValues` | rows, descriptions, formats, Bind parameters | |
| `PgFrames` | catalogs, requests, startup message, receiving codec | |
| `GenQuery` | the query macro, for both dialects | |
| `SqliteScopes` | abstract: nested scopes with all-or-nothing effect | |
| `SqliteWork` | transactions, savepoints, deferred cleanup, lifecycle | refines `SqliteScopes` |
| `SqliteWorkProofs` | its theorems, and that it refines the scopes | `SqliteWork` |
| `SqliteInstall` | opening, calls, retry, quotas, retained errors | |
| `SqliteInstallProofs` | its theorem | `SqliteInstall` |
| `SqliteHeap` | spans, buddy arenas, scopes and leases of memory | |
| `MCText`, `MCQueries`, `MCValues`, `MCFrames` | inputs of the algorithms | the module each feeds |
| other `MC*` | constants for TLC, and the choice of a part | see [runs](#runs) |

**RedisRoutes.** One variable per field of `Conn`, `Routes` and the lanes; one
action per `Schedule` method. A FIFO is a rank and a linked generation per slot,
which is what the indexed FIFO of the runtime keeps; `Dense` renumbers ranks.
`TryLease` is the whole search: `refresh` around the deferred FIFO, then pops up
to the first acquirable route; `TryLeaseEmpty` is the search that finds none and
still has changed both FIFOs. `Close` is the common part of `Port::fail` (records
the failure) and `quarantine` (does not). `Rogue` lets the peer answer a command
that was not yet sent: the runs use an orderly peer, the theorems hold for both. The fair share a lane gets of the arenas is abstracted: a
lane with commands in it may be refused, an empty one is not while there is room.

**RedisFailures.** The table and the cached first entry. `Activity::terminal`, which is
reported when the table is empty, is `terminal` of `RedisClient`.

**RedisClient** extends the scheduler: each scheduler step is joined with exactly
the notifications its code issues (`Notify`), and a fiber runs only if it was
woken. Notifiers are bounded by `WaitCap`; a full one fails the fiber. A timeout
in Response gives the connection up (`reconnect`) while the reply is due. The
reply arena keeps an entry until the fiber has taken it, which is why `arena` is
separate from the reply lane.

**RedisFrames.** `place` says where a fiber's work is (waiting, holding a frame,
encoded into it, queued, handed to the transport), `free` the pool, `requests` and
`held` the lane and the weight charged to it. Every way a frame comes back
(`Sent`, `ClearSend`, `Cancel`, an encoding error) wakes the waiting fibers with it,
as its drop does. `Word` is the range of the weights.

**RedisWire.** The plan is any subset of the handshake's steps. A frame is one or
two pieces of bytes; the peer answers in order, may speak out of turn (`Stray`) and
may close; `Receive(n)` cuts reads anywhere and `Received` is the callback that
takes the receipt. `frontier` is the pair of cutoffs of the first and the last
staged bytes. The driver stages a read only when at most part of a frame is staged
(external). A closing route has no frontier, so that `NoEarlyReply` concerns
serving ones. `done` and `began` are history: the steps answered in time, and how
much was published when a reply began to arrive.

**RespStorage.** `pool` is the array of nodes (their links) with the last free
node, `gate` the counter, queue and grants, `phase` and `building` one `Access`
and `Builder` per connection, `pending` a finished frame with its lane, `kept` the
replies the application owns, `parked` the suspended inputs. A tape also carries,
as history, the nodes its values were written to. `Complete` is one decode call:
the last value, `Stored::finish` and the delivery, which stores the frame, keeps
it for lack of room or drops it. Frames are any sequence of values up to
`FrameValues`; what the bytes say is `RespParser`'s business. External: the queue
of the runtime (`Unqueue`), the waking of a connection, and the reply arena
(`Fits`), which admits what its credit covers. The `Full` answer of `try_push` is
a state without an enabled `Push`; `NeverFull` says there is none.

**RespParser.** `parser` is the state of `State` and of the builder, `buf` the input.
`Run` is `State::scan`, one operator per mode; `Decode(lane)` is `Codec::decode`,
with or without a lane to spare; a refused frame resets the parser, and ends the
connection. A byte is a token, and texts stand for their spans. `IntMax` and
`WordMax` are the ends of the number types. `Grammar` is the reference: it reads
the whole buffer recursively, with no memory, and applies the same limits; it
shares with the parser only the search for a line end and the reading of numbers.

**PgPool.** The variables are those of the slot, the index, the session, the
lanes, the server and the holders. A command is published with its boundary; the
server is external and modelled from the protocol the session expects. The
server's execution of a frame and the session's reading of the answer are one
step: the wire is FIFO, so the delay between them is folded into `wire`. A frame
that carries a Sync becomes a bare Sync frame when its command has run. Which
listed slot is picked is left open (the code's rotation is a choice among them).
`Stray` lets the text of a command open or end a transaction, which the pool
cannot see before ReadyForQuery reports it; `Rogue` lets the server send anything
at any time. A closing slot has a session that still reads until `Cut`.
Sequence numbers wrap at `Wrap` and batch numbers at `Batches`.

**PgStartup.** `phase`, `scram` and `prep` are the session's state, `slot`, `key`,
`cause` and `token` what the pool and the client keep of it. The server is
arbitrary: `Response(m)` is the turn that reads any message, well formed or not,
in any state. `proof` is the history of what the server has shown in this life of
the slot. `TakeToken` and `CancelQuery` are separate, so that a token may
outlive its connection.

**PgKdf.** Entries (computing or cached), the lane of members of each entry, the
queue without an entry, and a ticket per connection. A poll is the whole of
`Coordinator::poll`: one slice by the first member, the end of the derivation with
its wakes, eviction. A connection is polled when it was woken, or for another
reason (`StrayPoll`, on which nothing relies). Cancels are bounded: cancels of others without end could
starve a waiter.

**PgTx.** A fiber is a program counter with what it holds; `txWaits` says in
which table its waiter is registered, `txTable` and `txQueue` are
`waiters::Table`, `txRun` the runnable fibers. `Park` is the end of a turn and
flushes the wait tables. The reply of a success is delivered when ReadyForQuery
settles it, a failure before. A queued wake is replaced when its slot is woken for
its next transaction (`waiters.rs`), so that a fiber which has not been flushed
until then is ended by its deadline; `Overtaken` names this case. A slot is
abstracted to what fibers see of it; the bookkeeping is `PgPool`'s.

**PgGroup.** `grFiber` is where a group is, `grBuffer` and `grStore` the collector it has
reserved and what is in it (`Owner`, `Active`, `Records`), `grReply` the state of each
order's reply and whether a row is kept, `grResult` what the fiber returned, `grLane` the
orders of the connection, `grSession` and `grSlot` the session's and the pool's part.
`grTruth` is history: what the server did with each command, which errors it sent for
which, and which Syncs it answered. The severity of an error may be unknown
(`localized`), an error may come at the Sync or while the batch is rolled back, and a
fatal one ends the connection. A result keeps its buffer until the application drops
it. Rows that wait for the response arena, the failure of a row that cannot be retained,
the answers an orderly server does not give, and COPY are left out.

**PgText**, **PgValues**, **PgFrames** have no state: each algorithm is an operator on
a sequence of pieces, and beside it stands what it has to compute, defined without
the order of steps. In `PgValues` and `PgFrames` each word of a message is one cell,
and fixed widths are scaled, keeping different widths different. The unchecked
second reading of a row (`decode/checked`) is an operator of its own. Of the arrays
that can be written, four kinds are modelled.

**GenQuery.** A chain is a sequence of calls with closures as small expression
trees. `Plan` and the operators around it follow `plan/` and `pred/`; a clause is a
list of parts, captured parameters become placeholders when rendered, and the SQL
is assembled from rendered clauses. The reference walks the chain and resolves
each variable to its source. The attributes, arity errors, the declared return
type and the matching of row projections are abstracted; insert values that read
their own columns inside a subquery are excluded; a bare CTE name stands for the CTE filtered on
true. It is recursive and stays with TLC.

**SqliteWork.** `work` holds depth, debt, mode and health; `scope` the typestate
objects the application holds; `call` the statement machine; `conn` the
lifecycle. `frames` (one set of writes per open SQLite frame) and `durable` are
SQLite itself, external. All savepoints share one name, so RELEASE and ROLLBACK TO
act on the innermost frame; this is why a scope with a forgotten inner savepoint
must issue several of them. A statement may succeed, be busy, fail, or fail with an
automatic rollback; ROLLBACK is never busy. The progress budget and interrupts are
statement errors, and the retry budget is a choice between waiting and giving
up. The statements of a retiring connection are finalized in one step. The errors
that `Health` retains are reduced to the class. After a forgotten transaction is
rolled back automatically the code's depth stays above the real number of frames
(capacity is then refused early); the refinement mapping accounts for it
(`FrameOf`).

**SqliteInstall.** The steps of opening and verifying, the initial commands, the
preparation of the statements, then calls: each native call succeeds, is busy or
fails, and may cost a quantum. Times are distances from now, so the clock needs no
bound. `slot` and `alarm` are the retry state all operations share; the opening has
one budget for all its steps. `health` retains a native and a cleanup error;
`report`, `kept` and `told` follow the errors to the one who receives them. `scan` is
what a call has read: its place in the statement, every row its policy was given with
the attempt that read it, and how many more the scan admits (`remaining` of `Rows`). Any
step may be busy, also one after rows: an autocommit INSERT ... RETURNING returns its
rows before it commits. SQLite then resets the statement, and `Rewound` moves `scan` to
its start with the rows and the charge kept, as the code does, which only forgets the
row's shape. Debts and transactions are `SqliteWork`'s.

**SqliteHeap.** `plan` is the memory settings of each installation, from which the spans
are cut; `arena` the units of each arena as cells of memory: the heads of the free lists,
a control byte per unit, the links inside free blocks and the header before a live one;
`lease` an installation's scope (idle, entered, left, dropped); `current` the scope that
allocations come from; `block` the blocks SQLite holds. `Malloc`, `Realloc` and `Free` are
the hooks with splitting, merging and growth in place. What SQLite stores is external: it
fills every cell it got, so that a link or a header written over it shows.

**SqliteScopes** is what an application expects: a stack of scopes, each with
the writes made in it; release merges the innermost scope into the next, drop
discards it, commit makes the outermost durable; a doomed transaction can only
be discarded.

## Runs

Distinct states are those of one TLC run with symmetry where the .cfg names it.
Some runs hold several modules that do not share state: a behaviour of such a run is
about one of them, chosen in the initial state by the variable `part`, and the
others stand still.

| run | states | what it shows |
|---|---|---|
| `redis_routes` | 669,853 | two slots, two generations each, two leases, three commands: counter, FIFOs, leases, lane order and failure records stay consistent over every order of dispatch, reply, failure, reconnect and stale lease drop |
| `redis_client` | 29,190 | if the peer answers, every command, lease request and watcher ends, with one connection that fails once and a reply arena of one |
| `redis_client_pool` | 1,465,214 | two connections, two faults, a drop, deadlines, notifiers of one place: a registered fiber is one that could not run; an abandoned reply's connection serves nobody |
| `redis_deadlines` | 30,251 | with a silent peer, deadlines end every command and lease request, and each given up connection becomes vacant; or: two bulk frames for four large commands and a connection that is lost: reservations end without their deadlines |
| `redis_session` | 1,064,527 | the failure table over five slots: the cached first failure is the lowest; or: one connection from a handshake of any length on, reads and sends cut anywhere, a peer that speaks out of turn or closes: bytes never answer what was asked after they came; or: three connections, two parser lanes, frames of up to two values: lane counter and grants are exact over every order of frames, waits, rejections, closes and drops, the rings of nodes never mix and are read in the order of appending, and a connection with a lane never finds the pool of nodes empty; or: two bulk frames for four large commands and a connection that is lost: frames and charges are exact |
| `algorithms` | 1,415,634 | every short input of the pure algorithms against their references: RESP streams cut anywhere, SCRAM attributes, passwords, diagnostics, method chains for both dialects, and what is exchanged with a server (rows, descriptions, parameters, frames) |
| `pg_pool` | 1,210,281 | pipelines, COPY, errors, transactions and wrapping numbers against a correct server: never a protocol failure, and Syncs counted are the Syncs due; or: two slots in one index, whose cached minimum is exact |
| `pg_pool_stray` | 1,511,584 | commands that change the transaction state themselves, two generations: isolation, agreement of status and access, backed leases; or: a server that sends anything to one connection: index, counters, ranks and the Sync counter stay exact |
| `pg_session` | 178,157 | three connections deriving three keys with one lane and one cache place; or: the startup of a slot over two lives against any server; or: two transaction fibers on one connection with savepoints, other requests, pauses, failures, deadlines and drops |
| `pg_group` | 1,117,974 | two groups that contend for collectors and for the response arena, one group beside a plain request on a connection that is opened twice, or one group with more diagnostics than its buffer has records; errors in a command, at the Sync, in a rollback and at the end, deadlines and drops at every point: commands, rows and diagnostics are reported as they were, also where a position is settled only after a later record, and an admitted group ends without its deadline |
| `sqlite` | 137,798 | three nested savepoints, two writes, every fault, drop and leak: `SqliteWork` implements `SqliteScopes`; a dropped scope is discarded, a released or forgotten one is kept; a parked application settles its debt and a closing connection retires; or: an opening and three calls with contention before and after their rows, cancellation and errors nobody receives; or: the memory of two arenas, whose blocks tile them and keep what is stored |
| `sqlite_rows` | violation | a call whose statement is found busy after a row starts over and answers with the row of the attempt that was undone (see [findings](#findings)) |

Properties by hazard (PROJECT.json lists each hazard with its line):

- *Stale generations*: `FifoSound`, `LeaseSafe`, `NoResurrection`,
  `FatalFresh` (Redis); `HoldersAgree`, and of `StartupSound` that a cancel request
  carries its own connection's key (pg).
- *Sharing a connection*: `LeaseSafe`, `TxIsolation`, `HoldersAgree`, `TxSound`.
- *Loss of a resource or a wake-up*: `Accounted`, `NoLostWakeup`, `FramesExact`,
  `NoLostGrant`, `TurnsKept`, `NodesExact`, and the liveness properties `FibersEnd`, `WaitingEnds`,
  `WaitsEnd`, `WorkEnds`.
- *Unchecked or wrapping arithmetic*: `Accounted`, `PoolExact`, `PairExact`, `UnaskedExact`,
  `SyncsCounted`, `LanesExact`, `FramesExact`.
- *Unchecked links and unchecked second readings*: `NodesExact`, `HeapSound`,
  `ExchangeExact`.
- *Input cut anywhere, limits*: `ScanExact`, `WireSound`, `ExchangeExact`.
- *Order and partial failure of pipelines*: `SuffixOrder`, `Understood`,
  `RepliesSound`, `WireSound`, `GroupSound`.
- *A server that says anything*: `StartupSound`, `TextsExact`, `ExchangeExact`.
- *The first failure wins*: `FirstLowest`, `CauseKept`.
- *Shared derivation*: `EntriesSound`, `TurnsKept`, `WaitsEnd`.
- *Partial failure of scopes, retry*: `WorkSound`, `InstallSound`, `Refines`,
  `Fates`; `AnswersOnce`, which the code does not have.
- *Names and numbers in generated SQL*: `QueriesExact`.

A property of a run with several parts is the conjunction of what its modules state:
`WireSound` is `NoEarlyReply`, `HandshakeFirst`, `OrderlyAccepted` and
`ServedRetries`; `StartupSound` is `ServesProved` and `CancelsOwn`; `TxSound` is
`TxBacked` and `CommitTruth`; `InstallSound` is `BudgetOwn`, `ErrorsOnce`,
`ServesConfigured` and `RowsCredited`; `PoolExact` is the types of `PgPool`, `IndexExact`, `CountersExact` and
`SyncsBounded`; `PairExact` is `IndexExact`, `CountersExact` and `MinimumExact` of two
connections; `UnaskedExact` is `PoolExact` of one whose server sends anything; `ExchangeExact` is `RowsExact`, `ParametersExact` and `MessagesExact`;
`Accounted` is the types of `RedisRoutes`, `ActiveCount` and
`NoIdleLeak`; `NodesExact` is `TapesExact` and `NeverFull`; `WaitingEnds` is `ClientEnds`
and `ReservationEnds`; `GroupSound` is `OutcomesExact`, `LedgerExact` and `GroupEnds`. Each part is commented where it is defined.

One run is expected to fail; every other one passes.

Deadlock checking is off in the runs in which the system really stops: all fibers
are done or all generations are used up (Redis client, pg), the connection of the
wire part was closed, the connection is retired (SQLite), or the input has its full
length (algorithms). `redis_routes` never stops and is checked for deadlock.

## Findings

`sqlite_rows` (`AnswersOnce`). `call/state.rs:49` retries a step that is busy, whatever the
call has read before. A statement outside a transaction that returns the rows it wrote
hands them out before it commits, and with a rollback journal that commit is busy while a
reader holds its lock. SQLite undoes the statement, its next step runs it again from
its first row, and its rows are handed to the policy that still has those of the first
attempt: `run_all` returns each row twice, `run_one` the row of the attempt that was
undone. `tests/query_mutation.rs:174` expects of such a call the rows of the one
statement that took effect. What does hold, and is proved, is `RowsCredited`: all
attempts of a call together read no more than `scan_rows`, and each hands over its rows
once and in order.

## Bounds

- `MaxGen` bounds the generations of a slot, `MaxLives` the connections of one
  slot. Two are enough for every hazard of a
  stale generation: one older token and one current. `RedisWire` has one life: its
  state is reset when the connection is gone.
- `Conns` is 2 where slots interact (FIFO order, cursor, index) and 1 where a
  run is about one connection's protocol.
- `Inflight`, `Queued`, `WaitCap`, `Room` are 1 to 3, so that arenas, queues and
  notifiers are met both full and with room.
- `Wrap` (sequence numbers; 2 or 3) is small, so that a slot reaches the
  exhaustion that makes it Draining. `Batches` is 3: a session is never more than
  one batch behind the pool, so 3 numbers tell all distances apart.
- A server that sends anything has one connection with two commands and one
  transaction; that `PoolExact` does not depend on their number is proved.
- `Buckets` is 2 or 3: the last bucket takes all higher loads, and must be reached.
- `MaxFaults`, `MaxDrops`, `MaxDowns`, `MaxCancels`, `TxEvents` bound failures,
  cancellations and what happens beside the fibers.
- `RedisWire`: one plan of each length, since steps differ by their order only, and one
  of them with a gap; two commands, one stray frame; a frame of two pieces can be cut, and
  one read may hold up to three pieces. Two commands tell an early answer from a
  late one.
- `RedisFrames`: two frames for three reservations and one sized command, one of
  them of weight two; `Word` 3 makes the charge reach the end of its range.
- `PgKdf`: three connections and three keys with one lane and one cache place, so that
  there is a computing, a cached and a waiting key, and the cache is replaced; two
  slices let a member be cancelled in the middle.
- `PgTx`: two fibers on one connection, so that one waits for the other's
  transaction, with two further events.
- `PgStartup`: one statement with rows and one without, and the probe for the dynamic type.
- `PgGroup`: two groups of two commands with two collectors, but an arena that covers the
  one diagnostic of one: they contend for the arena, and a kept result keeps the other out.
  One group beside a plain request, with one collector of two records and three bytes and
  two errors of one or two bytes: a buffer holds two records, an open position is followed
  by another record before it is settled, two errors of two bytes meet a buffer without
  room for the second, and a second life of the connection meets what the first left.
  One group with three errors for two records and four bytes: the third meets a
  buffer that has no record left, with bytes left and without.
- `SqliteInstall`: two attempts and a window of two ticks, so that both limits are
  met; the opening pauses between attempts and a call does not; three calls let a retained
  error and a used slot meet the next owner. Three statements let an
  opening that fails retire more than one. `ScanRows` is 2: a call is busy before, between and
  after its rows, and the second attempt meets a scan that admits fewer rows than it
  has.
- `RespStorage`: `Lanes` is 2 of 3 connections, so that there is a holder, a
  waiter and a connection that comes between them; `FrameValues` and `Retained` are
  2, so that the arena is met full and a tape is a ring of more than one node; the
  order inside a frame of three values is beyond the bound.
- `Pieces` and `MaxPieces`: the server's stream is made of four pieces out of
  fifteen, among them nested and empty arrays, nil, bulks, integers at both ends of
  their range, and single bytes that end up anywhere. `MaxFrame`, `MaxValues` and
  `MaxDepth` are small enough for each limit to be met inside arrays and at the
  marker, in lines and in bodies. The server sends at most one byte behind the one
  that settles a frame (`Ahead`), which is enough to leave bytes of a next frame.
- The other algorithms get every input up to a length over a vocabulary of pieces:
  five SCRAM attributes, four password characters, five diagnostic pieces, chains of
  five calls with at most two qualifiers and one CTE, rows of five pieces,
  descriptions and parameter lists of three, frames of five or six cells. `MCText`, `MCQueries`,
  `MCValues` and `MCFrames` hold the vocabularies; a text stops growing where no
  reader would read on.
- `SqliteHeap`: arenas of five and of two units with three blocks, requests of one, two
  and seven cells, the largest order 2 of 4 lists: a request that fits no block, one that
  splits twice, and one arena that is full while the other is not.
- `MaxSave` 3 allows a forgotten savepoint between two others; two `Writes` tell
  any two levels of the stack apart.

## Fairness

- `RedisClient!Fairness`: weak fairness of polls of woken fibers (the executor runs
  its ready queue), of `maintain`, of the driver's opening, handshake, send,
  completion, clearing and disconnect, and of an application that eventually drops
  the lease it holds. None assumes that the peer answers.
- `ResponsiveSpec` adds weak fairness of `Reply`: the peer answers what it was sent.
- `DeadlineFairness` adds weak fairness of `Expire` instead: time passes. The peer
  may stay silent.
- `FramesFairness`: woken fibers are polled, an application uses what it reserved, the
  driver drains, completes, clears and reconnects. No deadline is assumed to elapse.
- `KdfFairness`: a connection that was woken is polled.
- `TxFairness`: runnable fibers are polled, the driver parks, the server answers, reads
  resume, a closing connection is retired and opened again; a deadline elapses for an
  overtaken fiber, and for no other.
- `GroupFairness`: the server answers what it was sent and closes a connection it has
  ended, the session's turns go on, a closing connection is cleared, and a fiber whose
  reply has come is polled. No deadline is assumed to elapse.
- `ParkFairness` of `SqliteWork`: weak fairness of `Park`. `progress()` reports
  Runnable while a debt or a closing connection is left, and the executor parks such
  an application again.
- `InstallFairness`: the owner of an operation is polled when it was woken, and the
  clock ticks.

In the runs with several parts the fairness of a module is the premise of its
liveness property (`KdfFairness => DerivationEnds`), since a behaviour is about one
part only. Fairness of a failure, a drop, a leak or a shutdown is assumed nowhere.

## Proofs

The theorems of `RedisClientProofs` on the scheduler hold for every number of slots,
generations, arena entries and leases, and every finite set of commands
(`RoutesAssumption`: at least one slot and one entry), and for peers of both
kinds.

- `TypeCorrect`: `TypeOK` is inductive. The work is in the FIFO operators:
  `DenseRange` bounds the renumbered ranks by a cardinality argument, and
  `ScheduleIdleLinks`, `UnlinkIdleLinks`, `RefreshLinks` and their deferred twins
  say for each FIFO operation which slots are linked after it.
- `FifoSoundCorrect`: from `FifoInv == TypeOK /\ IdleSound /\ DeferSound`. Both
  parts are needed together: the
  search for a lease moves entries of the deferred FIFO to the idle one, and is
  sound only if those are shared.
- `LeaseSafeCorrect`, from `LeaseUniqueCorrect` and `LeaseIsolationCorrect`: from
  `LeaseInv`, which adds
  `LeaseFresh` (nobody holds the current generation of a connection that is being
  opened or is open to the pool) and `LeasePast` (a token is never of a generation
  its slot has not had). Uniqueness alone is not inductive: a vacant slot could
  reach the generation of a token that was already handed out. Isolation rests on
  `IdleSound`, since a lease starts on a quiet connection.
- `ActiveCountCorrect`: `TypeOK /\ ActiveCount` is inductive; `CountMoves` says by
  how much a change of phase moves the number of serving slots.
- `SuffixOrderCorrect`: from `SuffixInv == LanesFresh /\ SuffixOrder`. That the replies due
  are the commands sent, in their order, needs to know that a connection that does not
  serve yet has nothing in its lanes (`LanesFresh`). Stated, as the next, for an orderly
  peer.
- `NoIdleLeakCorrect`: from `FifoInv` and `SuffixOrder`. A quiet shared connection that is
  in no FIFO would be lost; a connection gets quiet when its last reply is taken, and that
  this is seen rests on the order of the lanes. `AccountedCorrect` is this with the counter.
- `FatalFreshCorrect`: `TypeOK /\ FatalFresh` is inductive.
- `NoResurrectionCorrect`: an action property, from `WithdrawnStep`.

Those on its clients hold for every number of fibers and connections, every capacity of the
notifiers and of the arena, and any faults, drops and deadlines; `FibersAssumption` only tells
commands, leases and watchers apart.

- `ClientRefinesRoutes`: every step of the client is a step of the scheduler or leaves it
  alone (`ClientStepRoutes`, one step per action), so all of the above holds of the
  client too. The invariants below use it.
- `RepliesSoundCorrect`, for any peer: from `FiberInv`. That the arena does not overflow needs
  to know that every reply due has an entry (`EntriesKept`), and that a late reply is not
  on a serving connection needs the stages of the fibers (`StagesKept`).
- `NoLostWakeupCorrect`, for an orderly peer: from `RoutesInv /\ FiberInv /\ BlockedInv`.
  `SleepersKnown` says that a fiber that sleeps is where somebody will find it,
  the other parts that what it waits for has not happened yet. `BlockedKept` is the argument
  for every step that notifies nobody: it may not make room, add an acquirable
  connection or bring a cause. With a peer that answers a command before it is sent, `Drain`
  could make a deferred connection quiet with nobody told; an orderly peer answers later, and
  the reply notifies. `AnswerAhead` covers the window between an answer and the poll
  that takes it.

`RedisWireProofs` holds for every number of commands, strays and lives of a connection, every
plan of its handshake and every cut of its bytes; and for every finite set of fibers, every
number of frames, every weight and every range of the counter.

- `WireSoundCorrect`: from `WireKept`, whose parts are the types and
  - for early replies, `Cuts`: every staged byte that would be taken for the reply of a
    command arrived after that command was published. The frontier has only two cutoffs, of
    the first and of the last staged bytes; `Lined` (the lane is the commands published last,
    in order) and `Stamped` (bytes carry what was awaited when they arrived) tell that two
    are enough;
  - for the handshake, `Hand`: the steps done are those before the one awaited, and staged
    bytes belong to it;
  - for orderly peers, `Orderly`: as long as nothing was said unasked, what is staged, read
    and under way is one chain of frames (`Chain`) that are the answers to what was asked,
    in order (`Pipe`). Every cut of a read and every frame taken out of the middle of a piece
    keeps the chain (`PipedReceive`, `PipedDeliver`), and `Covered` says that the receipts of
    a chain never put a reply before its command. Without it a piece that holds
    the end of one frame and the beginning of the next could not be told from an unasked one.
- `FramesExactCorrect`: from `FramesInv`. `Weighed` is that the running totals of the lane's
  weights exist below `Word` and only grow, which is how the wrapping subtraction of a release
  is exact; `Queued`, that a fiber is in the lane once, is what makes a frame come back once.

`RedisSessionProofs`, failures: for every number of slots. `FirstLowestCorrect` comes from
`FailuresInv == FailuresType /\ FirstLowest`; clearing the first entry searches upwards
only, which is enough exactly because nothing lower is occupied.

`RedisSessionProofs`, storage: for every finite set of connections and every number of
lanes, frame values and retained values (`StorageAssumption`).

- `LanesExactCorrect`, `NoLostGrantCorrect`: from one inductive invariant, `IInv`,
  that relates the counter, the queue, the grants, the phases and the suspended
  inputs. Neither property is inductive alone: returning a lane decrements the
  counter or grants it to the first waiter, so exactness needs to know that
  whoever queues has no grant, and the queue's property needs to know that the
  counter is at the limit only because lanes are owned. `Fit` states the
  invariant with a number of lanes in passing (taken from their owner and not yet
  handed on), which lets `ReturnFits` treat every return of a lane once: of a
  finished frame, of a held builder, and of an unused grant. `LeastNat` and
  `FirstExists` give the first waiter; the counting lemmas
  (`OwnerLeaves`, `WaiterLeaves`) rest on the cardinality theorems.
- `NodesExactCorrect`: from `IInv /\ StoreInv`. `Laid` is the layout of the pool: the free
  nodes are one ring, the tape of every owner (a builder, a finished frame, a reply the
  application keeps) is a ring whose nodes are the ones its values were written to,
  these rings are disjoint, and together they are all nodes. An append takes the node
  after the last free one, a release splices a whole tape behind it; both change two
  links only, and `RingTaken`, `RingAppended` and `RingJoined` say what that does to the
  two rings involved, `GrownLaid`, `ReleasedLaid` and `MovedLaid` to the layout. The property
  speaks of the walk that follows the links, so `WalkExists` and `WalksUnique` tie
  it to the rings. That a builder never meets the empty pool (`NeverFull`) is a count:
  were no node free, every node would be on the tape of a lane, and those are at most as
  many as lanes times the values of a frame (`Filled`), with room left for the builder
  that asks (`RoomLeft`), or charged to the reply arena, which admits at most `Retained`
  (`Charge`); the pool is larger than both together (`NodesUsed`). The count
  needs `IInv`: lanes are owned once, and a finished frame has given up its builder.

`PgPoolProofs` holds for every number of slots, lives, buckets, commands and
transactions, every range of sequence and batch numbers `PoolAssumption` admits, and every
server (`Rogue`, `Stray`). One inductive invariant, `PoolInv`, carries `PoolExactCorrect` and
`MinimumExactCorrect`.

- The index: `AttachIndex`, `DetachIndex` and `ReprioritizeIndex` say what an operation leaves
  in the buckets and that the cached minimum stays the least load (`MinOf`). The
  code finds the next minimum by a search from the old one (`FindFromFirst`), which is right
  only because nothing lies below the old one.
- A slot: `SlotInv` relates its phase and access to its place in the index, its Sync state
  and its lanes. Every action touches one slot; `OneSlot` carries the others over, and
  `CountMoves` moves the two counters by what the slot did. That they never go below zero,
  which the unchecked arithmetic needs, is this count.
- The batches: `PoolExact` contains the bound of the pending Syncs, which no
  argument about the counter alone gives. `Chain` says of the replies due that they go
  through the batches in order, that from the batch the server has answered to the one
  commands are put into there are as many as Syncs due, and that no batch between them is
  without a reply. `ChainBound` is the counting that yields the bound; the lemmas from
  `ChainAppend` to `ChainTurn` are the moves of the lanes.

`PgPoolLeaseProofs` goes on from `PoolInv`, for the same constants; commands and transactions
are told apart (`NamesAssumption`).

- `LeaseBackedCorrect`, whatever the server answers: from `LeaseInv`. A slot that is owned has
  a holder in a stage that fits, no two transactions have the same lease, and no lease is of
  a sequence number its connection has not reached (`Past`): without this a BEGIN could be
  given a lease somebody still holds. The number itself may not wrap (`SequenceAhead`): a
  connection whose numbers are used up drains instead.
- `SyncsCountedCorrect`, `TxIsolationCorrect` and `HoldersAgreeCorrect`, of a server that answers
  what it was sent (`~Rogue`), whatever the text of the commands does to its transaction
  (`Stray` or not): from `RequestsInv`. It says of the requests on their way, queued and sent,
  how many Syncs they hold, where a BEGIN may stand among them, whose they are for each access
  of the slot (`Free`, `Taken`), and of the status being settled, whose it is (`Settling`,
  `Entering`). None of the three is inductive alone. The step that needs most is the end of a
  batch while a BEGIN is under way: the status may be of the batch before the BEGIN, which
  the text of a command may have left in a transaction, or of the BEGIN itself. They are told
  apart by the reply in front, and `BeginInFront` shows that this is right: if the
  BEGIN's reply is of the batch being answered, its Sync is the only one due, and nothing
  is in front of it. The batch numbers wrap, and `BatchAhead` and `BatchBehind` carry the
  distance between those of the slot and of its session through every wrap.
  The pure lemmas say what adding, running and answering a request does to each part
  (`TakenServed`, `TakenAnswered`, `TakenGained` and their like); the lemmas named `...Wire` apply
  them, one action each.
- `UnderstoodCorrect`, of such a server when no text of a command opens or ends a transaction
  (`~Rogue /\ ~Stray`): a session never takes it for a failure of the protocol. From
  `FollowsInv`, on top of the three invariants before. The property speaks of the reply in
  front and of one request, which no step preserves by itself: the next request meets the
  next reply. The invariant therefore matches all of them (`Matched`): along the requests on
  their way runs the number of the batch each is of, and a count of the replies before it,
  so that every command finds the reply of its caller, its kind and its batch, and nothing
  is left over; in front may be replies of requests the server has run already. How many, by
  what the session has made of the answers so far, is `Reading`: none while it is running,
  the one it retained when it is complete, any number that it will fail when it is skipping
  to the Sync. `Shaped` and `Open` exclude a Sync of its own behind a closed batch,
  which would be a batch without a reply, and `Inside` says in which transaction the
  server is for each access, which the status is compared with. The `Sync` being settled counts
  as due until its batch is closed (`Due`). `MatchedGains`, `MatchedRan`, `MatchedPopped` and
  `MatchedTurned` are the moves of the matching: a request is added with its reply, the
  server runs the first one, a reply is taken, a batch is closed. That the reply in front,
  if it is not of this batch, is of the next and never stale (`FrontBehind`), holds
  through every wrap because a batch is never empty. The lemmas named `...Follows` go
  through the actions.

`PgSessionProofs`, startup: for every list of statements to prepare, any number of lives and any
server (`StartupAssumption`). `StartupSoundCorrect` comes from `StartInv`: what the server has
shown so far, by how far the connection is (`Authenticated` for SASL and acceptance, `Prepared`
for the statements described up to the cursor, `KeyOwn` for the key of this life). Neither
conjunct of the property is inductive: that a serving slot was shown everything is
known only step by step. `CauseKeptCorrect` is an action property; it needs
`FateCaused`, that a fate was decided together with a cause.

`PgSessionProofs`, key derivation: for every set of connections and keys and every number of
lanes, cache places, slices and cancellations (`KdfAssumption`: at least one of each of the
first three). One poll of a ticket goes through several states of the coordinator (it joins a
lane, computes, leaves, and an entry is cached over another), so the invariants are
predicates of the coordinator's parts, and `Joins`, `Ticks` and `LeaveSound` say what each of
these does to them.

- `EntriesSoundCorrect`: from `KdfInv`. `Placed` adds that a connection is in a lane once, and
  `Shelved` that a place of the cache is nobody else's; without them a release could free an
  entry that is still cached. `Selection` lists the three outcomes of `select`.
- `TurnsKeptCorrect`: from `KdfInv /\ TurnsInv`. The property speaks of what `select` would
  answer the first connection waiting; `Stuck` says the same of the entries and the cache
  alone (`StuckSelects`), and no step that wakes nobody can end it. That who is stuck waits for
  a lane with somebody in it (`StuckWaits`) is what excludes everyone waiting on everyone.
  `ReleaseTurns` is the heart: the one wake of a release goes to the queue or to the lane,
  never to both, and that is enough.

`PgSessionProofs`, transactions: for every set of fibers and connections, any room of a lane
and any number of events (`TxAssumption`). `TxSoundCorrect`, that an owned slot is backed by
the fiber that will give it back and that a commit reported as done was done, comes
from `TxInv`. Neither part is inductive. What a fiber was told is true only because the order
that will be answered is the one its fiber waits for, and the end of a transaction is an
order the server has not executed yet (`OrdersFit`, `OneAwaited`); that an answer is not
given to a later transaction of the slot rests on the end being alone in its lane
(`LanesFit`), and this on COMMIT having waited until the lane was empty (`OwnersBack`).
`FibersFit` adds that the server commits nothing but the end of a transaction that lost no
savepoint.

`SqliteWorkProofs` holds for every number of savepoints and every set of writes
(`WorkAssumption`: at least one savepoint). `WorkSoundCorrect` comes from `WorkInv`. While the
connection lives, `Sound` relates the stack of SQLite frames to depth, debt, mode and the
scopes the application holds, at every step of a call that is under way; when it is
retired no scope is left. The property alone is not inductive: between the statements of
one cleanup the stack agrees with neither the old nor the new depth, and the
invariant says how far the cleanup is.

- `ScopesRefined`: `SqliteWork` implements `SqliteScopes`, with `Scoped` and `Doomed` for its
  variables. In a transaction that has not failed, the frames of SQLite that are not owed to
  rollback split into intervals, one for each live scope and none empty, and what the abstract
  scope holds is the writes of its interval (`Intervals`, `ScopedParts`). Dropping a scope
  moves the end of what is kept, forgetting one joins two intervals, a release or a
  savepoint moves depths and frames together (`Aligned`), and any failure empties all of
  them at once. `WorkInv` does not suffice: a cleanup that releases the frame of a dropped
  savepoint folds it into a frame that is still owned, and nothing is resurrected only because
  it was rolled back first. `UndoneEmpty` adds that: a debt that is due for its release has
  an empty last frame. `ViewStep` takes every action to the step of `SqliteScopes` it is.
- `FatesCorrect`: from the same invariant, that it is the step the owner asked for.

`SqliteInstallProofs` holds for every limit of attempts, time, quanta and rows, and every number of
commands, controls, statements and calls (`InstallAssumption`: natural numbers).
`InstallSoundCorrect` comes from `InstallInv` and `RowsFits`. The parts of `InstallInv` are the
types and:

- `ConfiguredFits`: an opening has applied exactly the steps before the one it is at
  (`OpeningFits`), is guarded after all of them, and has run the commands before the next
  one. That a connection serves only when it is configured shows at the end, but is known
  only step by step, across pauses.
- `HealthFits`: errors are retained only outside openings and calls, and a ready
  connection that has retained an error of its own is spent. `LedgerFits`: what was told and
  what is still owed are, in this order, what was retained; so no error is told twice, lost or
  overtaken.
- `BudgetFits`: attempts made and left add up (`Counted`), as do the age of the window and
  what remains of it, and between operations the slot is idle, unless the connection is
  spent. Without the last, one operation's contention could count against the next.

`RowsFits` is what is kept of a call's rows through its retries: rows and credit
add up, every row is of an attempt that has begun, and the call's place is that of the
row it read last, or the start after a busy result.

Only model-checked:

- `GroupSound` of `PgGroup` and `HeapSound` of `SqliteHeap`.
- `PairExact` and `UnaskedExact`: further instances of `PgPool`; what they say is `PoolExactCorrect` and
  `MinimumExactCorrect` for any number of connections.
- The parser, the query macro and the readers of values: they are recursive or
  compared with references that are, and what recursive definitions compute for every input
  is out of the prover's reach.
- Liveness under fairness, which is too.

## What is not modelled

- *Redis*: requests, values and typed operations (one short conversion each, no
  state), pipelines and batches of several replies (modelled as their commands),
  the readers of a finished frame.
- *pg*: the backpressure of the response arena on rows, the payloads of replies,
  COPY data, notifications (a ring of payloads with a drop counter), conversions of
  dates, times and numerics, the cryptographic functions, formatting of errors.
- *SQLite*: the values of rows, the permissions of the authorizer, the generated bindings.
- *gen*: attributes, arity errors, declared return types, the generated Rust.
- *core*: helpers over memory and bytes.
- *The runtime* (dope) and the database servers: external, modelled by how the code
  uses them.

## Plan

The models are written: the scheduler, its failures and clients, the storage, the
parser, the pool and SQLite scopes first, then the session, the frames, startup, key
derivation, transaction fibers, opening and retry, the pure algorithms, and last the
groups of commands. What is left:

1. `GroupSound` without its liveness.
2. `HeapSound` stays with TLC: that blocks tile an arena is an argument over powers of two
   and their divisibility, which the provers do not do.
