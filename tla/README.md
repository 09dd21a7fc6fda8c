# Pineapple: a TLA+ development of the C++ engine

Pineapple runs recommendation pipelines. A pipeline is a JSON file of operators
that declare the fields they read and write; an engine turns the declarations into
a dependency graph and runs the operators of a request concurrently along it,
over a frame of one row of common fields and many rows of item fields. The
repository holds three engines with the same semantics (Go, Java, C++), the
compiler of the Python DSL that produces the files, and cross-engine fixtures.

This directory specifies the C++ engine (`pine-cpp/`): its concurrent parts, the
construction of the graph, and the data of a request from the configuration through
the operators to the answer on the connection. Every
definition is written from the code; PROJECT.json's `map` names the lines
each one stands for.

    Config ---- operators ----> DagBuild ---- graph ----> DagScheduler -- implements --> DagRun
                                   |                          |
                     order of nodes|            one operator  v
                                   v                    ShardExecutor     RequestContext
    RowFrame, ColumnFrame -> Frame -> Operators -> Pipeline                     ^  (done? cancel)
    OperatorIO --^                       (LuaPool, RedisPool: what two          |
                                          of the operators borrow)              |
    Exchange (one connection) -- Server ---- execute / close, cancel -----------+
                                   '------- start / stop ----> ResourceManager
    SharedMutex     (the lock offered for frames and engines)

The modules are joined by what they assume of one another, stated at the place:
DagScheduler takes any acyclic forward graph, which is what DagBuild is proved to
produce; DagScheduler, ShardExecutor and Server take a context as something that
may become done at any time and then reaches the contexts derived from it, which
is what RequestContext is about; Server calls `start` before it serves a manager and
`stop` after nobody executes, each once, and ResourceManager lets its owner do so
again and again; DagScheduler is composed with DagRun by a
refinement mapping. Pipeline is composed with DagBuild, from which it takes what makes
two operators conflict, and with the frames and the operators; it lets a node begin
when its predecessors have ended, which is what DagRun promises, and runs the shards of
a node one after another, which ShardExecutor shows cannot be told from running them
at once. Exchange serves one connection with an engine that is always there; Server has
the engine's life around it.


## 1. Inventory

| Component | State | Operations | Interaction | What is hard | What makes it correct |
|---|---|---|---|---|---|
| DAG builder (`src/dag`) | a tracker per field, edges | two scans, sources, cycle check, reduction | reads the expanded operators; the scheduler reads the graph | forgotten accesses, edges dropped by reduction | a path exactly where a chain of conflicts demands one; no redundant edge |
| Scheduler (`runtime/engine.cpp`: `run_dag`) | in-degrees, latch, `done`, `fatal_err`, `not_run`, `active_ops`, all on the caller's stack | seed, node body, propagate, count down, signal, wait | submits to `dag_pool`; derives `run_ctx` from the caller's context | wake-ups, failing submits, two failures at once, return while a worker still signals | returns, once, after every worker's last access; says what happened; nothing starts downstream of a failure |
| Thread pools (`runtime/thread_pool.cpp`) | a queue, a stop flag | submit, worker loop, destructor | closures of the scheduler and of the shards | submit that throws | first in first out, every task run |
| Shard executor (`engine.cpp`: `parallel_execute`) | shard outputs, `first_err`, `skipped` | windows, dispatch, merge | the shard pool; a context derived from the node's | a failure that cancels the others, windows at the edges | cannot be told from one run on the whole frame |
| Request contexts (`runtime/request_context.cpp`) | per context: cause, stop source, link to the parent, timer entry; the timer's entries | link, arm_deadline, cancel, release_link, destruction; the timer thread | callbacks of children run inside the parent's cancel | every pair of these at once | first cause stays; a cancel reaches the descendants; nothing dangles; nothing deadlocks |
| HTTP server (`src/server`) | engine and manager in use, in-flight count, watcher's last time | accept, handle, execute, watch, reload, drain, teardown | `execute` and `close` of the engine, `start` and `stop` of the manager, `cancel` of contexts | reload under traffic, signal during a reload, requests that do not end | requests run on a live pair; teardown is quiet and happens; edits are served, or reported as failed |
| SharedMutex (`pine/shared_mutex.hpp`) | two counters, two semaphores, a mutex | lock, unlock, try and shared forms | offered to frames and the server | tokens that are anonymous, counters that dip below zero | exclusion; nobody starves; nothing is left over |
| Resource manager (`src/resource`) | values, refresh threads, `started_`, `stopping_` | register, start, stop, refresh_loop, snapshot, borrow | built and retired with an engine | stop racing a refresh, a start that fails half way | complete while started; one refresh thread per resource; never an older value; stop returns |
| Frames (`src/dataframe`) | common fields, and rows or typed columns with a presence bit per slot; a row count | construct, windows, `apply_output`, `to_result`, strict checks | written and read by the nodes of one run concurrently | two implementations of one contract; an apply that throws half way; promotion of column types | any schedule equals a serial run; the layouts agree |
| Operators and their buffers (`operators/`, `OperatorOutput`) | per-thread output buffers | execute, reset, merge of shards, validation of the output | read the frame through views, write through the buffer | buffers that outlive a node; undeclared writes | only what was declared is written; what sort, truncate and dedup promise |
| Lua pool and bridge (`src/lua`) | free list, all states, the states' globals | borrow, release, close | the Lua operator | snapshots and resets that fail | every state is free, lent or retired; nothing of one call is seen by the next |
| Redis pool and client (`src/redis`) | idle list, `in_use_`, sockets, probe thread | acquire, release, commands, transactions, close | the Redis operators; an external server | exchanges that stop in the middle, answers that come late | a connection carries nothing over; `in_use_` counts the borrowed; the destructor returns |
| Configuration (`src/config`, `src/registry`) | none | merge of traits, validation, flattening of sub-flows | feeds the builder and the shards | order of merge and checks; sub-flows used twice or in themselves | what is accepted is safe to build and to shard; the sequence is the tree's |
| Connections (`server.cpp`: `read_http_request`, the keep-alive loop, `routes.cpp`) | bytes read so far, the request | read head, read body, dispatch, respond | client, engine, custom routes | requests cut anywhere; what is left of one in the next | each request is answered, in order, with its own body |
| Engine front | graph, pools, operators | build, execute, close | the server | execute while being closed | parts of Config, Pipeline and Server |
| Metrics, errors, renderer, arena, HTTP client, operators, command line | none, or write-only counters, or tables fixed at start | | | sequential | |
| Apple, Pine-Go, Pine-Java, fixtures, scripts | | | other programs | | |

PROJECT.json's `components` says of each whether it is modelled and, if not,
why; its `hazards` lists what in this code a test would hardly reach, with the
property that covers it or the reason why none does yet.


## 2. The modules and the code

### DagBuild: `build_dag`

`ops[i]` is the operator at position i of the expanded sequence, chosen at the
start from OpShapes. `ScanOp` is one iteration of the loop of `scan_fields`
(`dag.cpp` 30-105); all fields of the operator are looked up in one step, because
the trackers of different fields do not meet. `ScanDone` is the switch from the
common scan to the item scan, which begins with fresh trackers. `LinkSources`
holds the two errors of explicit `sources`; `TopologicalCheck` is Kahn's algorithm
by what it leaves over (the largest set in which everybody has a predecessor);
`Reduce` drops every edge for which `reachable_without` finds another path in the
*unreduced* graph. Reachability is a least closed set instead of a queue: the
search visits exactly that.

The specification it is compared with is `Required`: all pairs in order that
conflict on a field, or that `sources` names. It mentions no tracker.

An additive writer that also reads item fields does not read `_row_set_`
(`dag.cpp` 44): modelled as it is, in `ReadsRowSet`.

### DagRun and DagScheduler: `run_dag`

DagRun is the promise: operators, a status for each, nothing else. Its actions are
the events a user can tell apart. DagScheduler is the code: one program counter
per node body (`pc`), because a node runs once, on one thread; the queue of the
pool; the calling thread (`mainPc`). Steps are cut where another thread may come
between: the test of `run_ctx` and the operator, the decrement of each successor's
in-degree, the decrement of the latch, the lock of `done_mu`, the store, the
notification, the unlock, the wait. `Submit` may throw, in which case the body runs
on the submitting thread (`calls`), which is blocked meanwhile; this is why a worker
can be in the middle of its successors and of another node body.
`SpuriousWake` and the caller's cancellation (`CallerCancels`, then
`CancelReachesRun`) happen at any time.

The refinement mapping reads DagRun's `status` from the recorded `status` and, for
a node inside its operator, from `pc`; `stopped` is `runDone`.

### ShardExecutor: `parallel_execute`

`acts` says what the operator does when it comes to each item: write it, remove it,
warn, add a row (which breaks the contract of sharded operators) or fail; `column`
says that it also writes a whole column. Everything an operator does to a window
is `OpOut(lo, size)`, so that running on the whole frame is `OpOut(0, total)`.
A shard that was taken either bails out (its context is done), or runs and then
finishes or fails; failing records `first_err` and cancels under one lock.
`Join` is what the caller does with the outcomes, in the order of the code. The pool may refuse any shard
(`SubmitThrows`); nothing in `parallel_execute` catches that, so the call is over at once, without a look at the shards
already submitted. They go on with locals that are gone, and from there on the model shows of them only that they still run.

### RequestContext: `ContextSignal` and `DeadlineTimer`

A signal has an owner thread (`life`), the winner of the exchange on `cause_`
(`by`, `cpc`), a callback in its parent's stop source (`cb`) and an entry in the
timer (`timerId`, `entries`). The thread that cancels runs the callbacks of the
children on its own stack, each of which may be the start of another cancel; one
program counter per signal is enough, since at most one thread gets past the
exchange, and `CallOver` says when the call it runs in may return. `std::stop_source` is
external: it takes callbacks off its list one by one (`RunCallback`), and the
destructor of a callback waits while the callback runs (`Unlink`).

`arm_deadline` stores `timer_id_` and then looks at `cause_`; `cancel` writes
`cause_` and then looks at `timer_id_`. The code uses release and acquire, which
do not order a store before a later load of something else; `CheckBeforeStore` is
the execution in which the load comes first.

### Server: `Server::run`, the watcher, the handlers

`mainPc`, `watchPc` and `pc[c]` are the places of the main thread, of the watcher
and of the handler of connection c. Engine and manager carry the number of the load
that built them, so that "belongs together", "closed" and "every one ever built" can be said.
`engine_mu_` is not a variable: a handler holds it shared while it executes, and
`Swap` and `Teardown`, which take it exclusively, need `Executing = {}`. The
accept loop polls; `stop()` only clears `running_`. A "long" request ends when its
context is done: by the shutdown (`CancelAll`), or because its client went away.
`~InFlightGuard` is three steps: the decrement, the lock, the notification.

The file has a version, a validity and a modification time in whole seconds; the
watcher compares times only. A valid file may fail to load too, at the start and in a reload: the resources it names
are fetched before the engine is built, and a fetch may throw. The watcher has recorded the file's time by then, so it does not try again;
`refused` has the versions whose reload was reported as failed. `FindNoEngine` is the test of `engine_` that the
handlers make without the lock (`server.cpp` 422), in the instant at which a reload moves it.

### SharedMutex

One step per atomic and per semaphore operation, readers and writers alike, with
`try_lock` and `try_lock_shared`. A semaphore's `acquire` is a step that is enabled
while it has a token. The tokens name nobody: a reader that arrives after the next
writer announced itself may take the one meant for an earlier reader, which then
waits one writer longer. The model allows this and the properties hold.

### ResourceManager: `Manager`

One owner registers, starts and stops (`phase`), as the server does; a refresh thread
is named by its resource and the call of `start` that made it, so that a thread that
outlives its `stop` can be told from its successor. A value is the number of the fetch
that produced it, 0 the default one. `wait_for` is four steps: the predicate
(`Test`), the sleep (`Sleep`), and a wake-up by timeout, by notification or for no
reason. `stop` sets `stopping_` (`BeginStop`) and notifies (`NotifyAll`) without
`stop_mu_`, so a thread that stands between `Test` and `Sleep` misses it. Every fetch
may fail: in `start` this throws and leaves what was loaded so far (`broken`), in
`refresh_loop` it keeps the value. A `start` that is tried again after that, registration
between a stop and a start, and the release of handles at `stop` are included. It is one of the
parts of Parts, which calls its `phase` `manager`.

### OperatorIO, RowFrame, ColumnFrame, Frame: `pine.hpp`, `src/dataframe`

OperatorIO has the values (a `Variant` is a kind and a number that counts halves; NaN,
the infinities and whatever holds one are NotFinite), the log an operator
writes (`OperatorOutput`), what `reset`, `merge_shard_output`, `snapshot_output` do
to it, and the two validations. Frame items are numbered from 1.

RowFrame and ColumnFrame are the two layouts. `Parts` is the order in which
`apply_output` takes the lists of an output, which is the same in both; `RowPart` and
`ColumnPart` apply one element, and `ApplyOutput` goes through them until one throws, keeping
what was written by then. The row layout checks a row as a whole before it moves it in; the
column layout extends all columns first and then writes field by field. A column has a type,
data and presence bits, is made for its first value and is promoted to `json` by a
null or a value it cannot hold; `CompactSeq` and `ReorderSeq` are the in-place
algorithms, with their cursors and cycles (`WalkCycle` follows one cycle, as a recursive function of
the steps taken). Frame has `make_frame`, the views, `OperatorInput` with
skipped fields and defaults, the three windows of `build_operator_input`,
`should_skip` and template parameters.

### Operators and Pipeline: `operators/`, the node body of `run_dag`

Fifteen operators (`transform_copy` in its four directions) are functions from an `OperatorInput` to an output and an error;
"custom" is any other, by what it writes. What the body of a node does is cut
at the frame's locks: `Begin` (skip, template, item count, shards), `CheckCommon`,
`CheckStrict` and `CheckNullable` (the three windows), `Run`, `RunShard` and `Merge`,
`Finish` (validation, `apply_output`, the reset of the buffer). What throws in any of these goes to the catch block
(`Throw`), which is two steps more: `PushWarning` takes the frame's lock again for the operator's warning, and only
`Fail` records the error and ends the node, so that other nodes may begin, write and warn between the three. `tls_out` is one buffer for each
worker. `edges` is DagBuild's `Required` of the plan. What the plans and requests are assumed to be is in
`PipelineAssumption`: operators and rows have the fields of their types (`WellFormed`, `IsRow`), and an operator
carries the markers its C++ class has, and the type it is registered with calls for (`WellMarked`). `WellDeclared` is not among the
assumptions: it says that the fields an operator takes from its metadata are there and that what it reads is declared. The reference is `RunAlone`: the same
operator, from start to end with nobody else there, unsharded, in the row layout.

Serializable compares the answer, each operator's fate, and the warnings (SameWarnings): the same operators warn, each once, in the
order of the series, except that a warning of an operator that failed may come later than its place. This is as much as
the code gives. Two recalls that both warn show why: the first adds a row and throws on the next, the second adds its row and warns, and then the first one's
warning is pushed. The rows are those of the first before the second and the warnings are the other way round, which no series gives.
When a sharded operator fails, which of its shards' errors and warnings it fails with depends on the schedule, so neither is compared.

### LuaPool: `lua_pool.cpp`, `lua_bridge.cpp`

One step for each critical section of the pool and each part between two of them. The globals of a state
are three names, one for each way `reset_to_baseline` treats a name: the script's
function, a library name which the script may redefine, and an input. `capture_values`,
the creation of a state and the reset may fail; the pool may be closed at any time.

### RedisPool: `connection_pool`, `redis_client`, `RedisConnResource`

Executions borrow a connection for one command or one transaction; the probe
thread pings; the owner destroys the resource. The server is external: it answers the commands
of a connection in order, and an answer stays on the wire until somebody reads it. A read may
fail at any time (a timeout, or a peer that went away), which is how an answer comes late. `Fail`
and `Release` do what the destructors of the scoped client do.

### Config: `load_config_from_json`, `apply_registry_traits`, `Engine::Engine`

`Load` is one load: the traits are merged, then every operator is checked in
the order of the names, and the first error is what is thrown. `Expand` is the recursion over
groups and sub-flows with its two sets, as a recursive function of the entries and what has been expanded so far. `Construct` flattens, infers the common reads,
refuses a source that is not earlier in the sequence (`SourceErrors`, from `build_dag`), makes the template plans and takes the control fields out
of what the operators see (`WithoutControls`); an operator's `init` may throw (`Endings`).

### Exchange: `read_http_request`, the connection thread, the handlers

A byte is a token: a request line, the end of a head, one unit of body (`Byte`). The client sends
what its script says, byte by byte (`unsent` is how far it has come), the socket delivers in pieces cut anywhere (`RecvHead`,
`RecvBody` take any number of what is there), and a receive may time out (`HeadFails`,
`BodyFails`). `Immediate` has the answers that need no engine, `EndExecute` and
`EndRoute` those of an execution that succeeds, is refused, fails or is cancelled because the client
went away. `counted` is what the metrics middleware counts.


## 3. What TLC checks

| Run | Bounds | Shows |
|---|---|---|
| `dag` | 3 operators, each any of 9 typical declarations or of the declarations over one item field that `validate_config` accepts | ExactOrder, NoRedundantEdge, NeverCyclic |
| `scheduler` | every graph over 3 nodes, 2 workers, submit may throw, caller may cancel at any time | NoUseAfterReturn, ImplementsDagRun, RunReturns |
| `shards` | up to 4 items, `data_parallel` up to 3, 2 pool threads, every mix of five behaviours, any shard may be refused | Transparent, ErrorIsCause, Completes |
| `context` | 3 contexts in a chain or a fork, 2 instants, deadlines above, below and in the middle | CancelReachesDescendants, CauseIsTrue, DeadLeavesNothing, FirstCauseStays, DeadlineEnds, CancelReturns |
| `server` | 2 connections with one request each, short or long, 1 edit, 1 second, watcher on | ExecuteOnLiveEngine, GoodEngineServed, QuietTeardown, NothingLeftRunning, ShutdownCompletes, NewerFileIsServed |
| `server_free` (violated) | 2 connections | a handler touches the server after it is freed |
| `resources` (`MCParts_manager`) | 2 resources, any of them refreshed and any of them handles, 2 starts, 3 fetches of each may succeed and any may fail | StartedIsComplete, OneRefresher, NeverOlder, StopReturns |
| `rwlock` | 4 threads, `kMaxReaders` 9 | Exclusive, QuietMeansClean, WriterGetsIn, ReaderGetsIn |
| `pipeline` | every pair of the 35 operator configurations of MCPipeline and ten triples, on three requests of two or three items, in both layouts; four of the configurations are sharded | Serializable, StableView, OnlyDeclared, KeepsPromise, SnapshotTruthful |
| `layouts` (violated) | the same, and a request with no items | the two layouts differ on a strict field over no items |
| `parts` | Config: every tree over 2 operators, 2 sub-flows and an unknown name, 14400 variants of an operator, and sources that come late or not at all. LuaPool: 2 threads, 3 states, 3 calls. RedisPool: 2 executions and the probe on 2 connections, 1 of which may be idle. Exchange: every kind of request, alone and followed by another | Flattens, AcceptedIsSafe, OneHolder, NothingLeaks, AnsweredInOrder, DestructorReturns |
| `redis_late` (violated) | the Redis resource of `parts` | an execution takes another one's answer |

Parts puts five parts that share nothing (Config, LuaPool, RedisPool, Exchange, ResourceManager) side by side, so that one
module of theorems does for them; a behaviour is one of a single part. MCParts gives the instances and lets the other parts
begin in one state; `ManagerSpec` has the behaviours of the manager, with its fairness, and `MCSpec` those of the other four.

Each property of a passing run
has a mutant of the code in PROJECT.json that breaks it; the mutated forms stand
before the definitions they replace. The type invariants, and some properties that
are theorems, are not in a run: GaugeBalanced, NothingRunsAfterFailure and
OutcomeTruthful (DagScheduler), the sub-invariants of the proofs, and AssertionsHold of
SharedMutex. Each was checked on the instances above before it was proved or set aside.

Six more configurations reproduce what section 4 reports; each finds its property violated:
`MCDagScheduler_empty.cfg` (RunReturns), `MCServer_drain.cfg` (ShutdownCompletes),
`MCServer_stale.cfg` (ServesLastEdit), `MCRequestContext_entry.cfg` (DoneLeavesNoEntry),
`MCParts_pipelined.cfg` (BodyWithinLength), `MCShardExecutor_submit.cfg` (NothingOutlives).

**Why the bounds are enough to meet the cases.** Three operators are the fewest at
which a tracker forgets an access that another operator must carry, and at which
reduction has something to drop. Three nodes with two workers have a join, a fork,
a chain, two failures at once, and a body that runs on the thread that could not submit it.
Three contexts have a middle one that is cancelled from above while it cancels below;
the four shapes have deadlines that matter, that are shadowed by an earlier
one, and none. Two connections are what a drain needs to see a count that is
not yet zero; one edit is a reload under way at the signal. Four threads are a
writer, a writer behind it, a reader that waits and one that overtakes.
Two starts are what a thread left over from the first needs to meet the second; three
fetches are one for each start and a refresh between or beside them.
Two operators are a writer and a reader, in either order, and what the first leaves in
its buffer or the frame for the second; the triples have a third to run beside them, two of them recalls of which
some fail in the middle of their write. Three items
show the order of a sort, a hole in a column and a shard of uneven size.
Two users of a pool are a holder and the one that comes after; 2 connections with one idle place are
a connection that is reused, one that is dropped and one that is dialled. A head of two tokens and a body of two
have every cut that matters: within the head, at its end, within the body, and beyond it.
`kMaxReaders` is 2^30 in the code and must only exceed the number of threads.
Four items in three windows have a remainder; three shards on two threads have one that
is still queued when another fails. `MaxEdits`, `MaxClock`, `MaxRequests`,
`MaxItems`, `MaxStarts`, `MaxFetches`, `MaxCalls` and `MaxWire` bound counters that are unbounded in the code. Where there is a
theorem, the property holds without any of these bounds.

**Deadlock** is checked except in `context`, where owners may leave everything
alone for ever, in `shards`, which ends when the caller has its result, and in
`resources`, where the last stop ends everything, and in `parts`, where every part but Config may stop when nobody wants
anything more. DagBuild,
DagRun, DagScheduler, Server and Pipeline mark their ends by an explicit stuttering action
(`Returned`, `Terminated`), so a deadlock elsewhere would show.

**Fairness.** Threads of the process that can run are eventually run: weak fairness for the
workers, the calling thread, the watcher, the handlers, the timer, a refresh thread
(whose interval passes and whose fetch returns or throws), the owner of a manager
once it is inside `start` or `stop`; the probe thread of a Redis resource, whose dial, send and read return
or time out, and the resource's destructor. Operators are
assumed to return or throw; a "long" request only when it is cancelled. Strong
fairness is assumed for `done_mu` (DagScheduler) and for waiters on a
semaphore that is posted again and again (SharedMutex): a mutex held for a few
instructions is eventually obtained. The world owes nothing: no client, no
signal, no edit, no cancellation, no arrival at the lock is fair. In particular a client
may stay connected, and this is why ShutdownCompletes speaks of bounded requests
and `MCServer_drain.cfg` of unbounded ones. Weak fairness of `Swap` and `Teardown` asks
for the exclusive lock only when from some moment on nobody executes; a
`std::shared_mutex` that prefers readers gives no more. NewerFileIsServed has this as its premise: it says
nothing of runs in which requests execute for ever, one after another or a single one. In the others a newer valid
file is served, or its reload is reported as failed, unless it is edited again or the server stops.


## 4. What the runs found

The findings of the violated runs:

- **A handler outlives the server** (`server_free`). The count goes down before
  `drain_mu_` is taken; the drain can see zero and the destructor run in between.
- **The layouts differ over no items** (`layouts`). ColumnFrame rejects a strict field whose column does
  not exist before it looks at the number of rows (`column_frame.cpp` 480); RowFrame walks the rows, of which
  there are none. The same pipeline succeeds in one storage mode and fails in the other.
- **A late answer reaches the next execution** (`redis_late`). A read that times out leaves the
  connection open (`redis_client.cpp` 234) and `release` pools it, with the answer still to come.

Reproduced by the configurations named in section 3:

- **An empty pipeline hangs** (`MCDagScheduler_empty`). `done` is set by the node that
  brings the latch to zero; with no nodes nobody does. `validate_config` accepts an
  empty `main` pipeline.
- **A keep-alive client holds up the shutdown** (`MCServer_drain`). The loop of a
  handler does not look at `running_`, so a client that asks again within the idle
  timeout keeps the drain from ending, which the comment there rules out.
- **An edit is never served** (`MCServer_stale`). The watcher starts from the time it
  finds at its first look, not from that of the file that was loaded, and takes
  only a later second for a change.
- **A done context leaves an entry in the timer** (`MCRequestContext_entry`), until its deadline or
  its destruction, contrary to the comment; the entry is harmless, since the timer
  passes over a context that is done.
- **A body may be longer than its Content-Length** (`MCParts_pipelined`). What comes along with the head is taken
  for body whatever its length (`server.cpp` 268, the comment at 265 says otherwise), so a request that a client sends before
  the previous one is answered is lost in that one's body. AnsweredInOrder speaks of clients
  that wait.

- **Shards may outlive their call** (`MCShardExecutor_submit`). When `pool->submit` throws (`engine.cpp` 860; it allocates and locks),
  `parallel_execute` is unwound without waiting for the shards it has submitted, which hold references to its locals;
  `run_dag` catches the same exception (1012, 1288). Completes says that apart from this the call waits for its shards.

Noticed without a run of their own:

- Server: a valid file whose resources cannot be fetched at the moment of its reload is not loaded until it is edited again, since its
  time is recorded first (`server.cpp` 1155). The handlers look at `engine_` without its lock (422, 777): a data race with the swap, by which a
  request during a reload may be answered 503. When the thread for a connection cannot be created (1386), the
  exception leaves `run()` with `in_flight_` raised and the watcher not joined, which ends the process.
- Warnings of a failed run may be in an order that no serial run gives (section 2).
- Observers are readers like any other (`dag.cpp` 77), so a later writer waits for them, although
  design_doc/05_operator_types.md:374 says they block nothing downstream.
- `stop` of the resource manager may last a whole interval, because a notification can be missed
  (StopReturns says that it returns, and nobody promises when).
- Lua: a name of the base library that the script redefines is the script's only until the state is first
  given back, since the libraries are opened again; a table of the baseline that a call changes in place stays changed.
- Sharding: the whole-column write of a shard is not checked for its length (`engine.cpp` 736). The windows
  come from a count read earlier; a sharded operator that declares nothing about items has no edge to a filter, so the frame may
  shrink before they are made (`engine.cpp` 806).
- Frames: -0.0 becomes 0 in an int64 column and stays -0.0 in the row layout.
- Nothing checks when an engine is built that a type `recall` comes with the marker that makes it additive, although
  design_doc/05_operator_types.md:238-249 speaks of a check at the start. The classes under `operators/` all have their markers. An
  additive operator that reads item fields and does not declare that it consumes the rows is ordered after no other one; for
  these two reasons `WellMarked` is an assumption of the theorems on Pipeline.
- A `{{field}}` parameter that is a number from 1e6 on is spelled with an exponent, which the coercion to an integer refuses; a marker may name a
  field nobody declares.
- `filter_paginate` multiplies page and size without a bound (`filter_paginate.cpp` 33).
- A body that does not come in time is handled as far as it came, and its rest is read as
  the head of the next request. The refusals with 400 and 413 before the dispatch pass no middleware and are not counted.
- `/stats` takes `engine_mu_` twice and may mix two generations; `pine_operator_active` is overwritten by concurrent runs of
  one engine; a lock that prefers readers may keep a reload waiting.

One thing that is easily misread holds in a weaker form only. When `cancel()` returns, a
descendant may not be done yet: a context in between may be inside a `cancel()` of
another thread, which the callback does not wait for. CancelReachesDescendants
states what does hold. Waiting for that thread would deadlock (the mutant CallbackWaits).


## 5. What is proved

For every value of the constants, from the named assumptions of each module and nothing
else. About 17100 obligations, in eight modules.

**DagBuildProofs** (assumption: N is a natural number, `_row_set_` is not a declared field, no
operator is both additive and mutating). The inductive invariant adds to the properties
that each tracker is *sound* (what it holds did access the field) and *complete* (every access it has
forgotten reaches one it holds: TrackerInv), that every conflict met so far is ordered by a path (ConflictsOrdered),
every linked source too (SourcesOrdered), and that no edge is there
without a reason (EdgesJustified). The heart is that reduction preserves
reachability although it judges every edge in the unreduced graph; this needs that edges point
forward, and is argued by minimal counterexample over the distance of
positions, without recursion.
DagTypes, DagExactOrder, DagMinimal and DagNeverCyclic follow.

**DagSchedulerProofs** (assumption: at least one worker). The invariant ties the
counters to sets: an in-degree is the number of predecessors that still have the node on their list (DegreeInv),
the latch the number of bodies that have not reached it (LatchInv), `active_ops` the number of operators at work
(ActiveInv). From the latch: only the last body signals and all others
are gone (SignalInv), whoever has set `done` holds or has left the lock (DoneInv, MutexInv), and so the
caller that sees `done` under the lock is alone (MainInv). SchedulerTypes,
SchedulerNoUseAfterReturn, SchedulerGauge. SchedulerImplementsDagRun shows
that each step is a DagRun step or a stutter. What DagRun promises is proved of DagRun alone: what has
started had settled predecessors (RunStartedInv); a run is stopped by its caller or a failure (RunStopInv);
the outcome is the verdict (RunReturnInv). SchedulerStopsDownstream and SchedulerOutcomeTruthful carry
it over by the refinement, so they need no argument about threads.

**ServerProofs** (assumption: finitely many connections). The count is the number of
handlers and the watcher lives only while `run` waits for it (Counted); what the watcher
holds in its hands is a complete pair, new or retired (Held); what is served is
open and valid (Served); every generation is served, held or stopped
(Accounted); whoever executes has what is served (InUse, which is what the two uses
of `engine_mu_` are for). All five safety properties follow.

**ShardExecutorProofs.** CauseInv follows a cancellation from the caller's context or
the first error to what is thrown: ErrorIsCauseThm. WindowsCoverFrame: the windows are
not empty, adjoin one another and cover the frame, for every item count and every `data_parallel`.
From that, an item is in exactly one window and the windows are in the order of the items (OneWindow, WindowsInOrder), so
what `Join` puts together from the shards is what the operator does to the whole frame (MergeIsWhole), the
warning included: it is that of the first item in either case. SaidInv ties each finished shard to what its
window makes it say. Together they give ShardTransparent: a parallel run either fails or leaves what a sequential one leaves.

**SharedMutexProofs** (assumptions: finitely many threads, fewer than `kMaxReaders`). The invariant counts the threads
at each place. `reader_count_` is the number of readers that read or wait, less `kMaxReaders` while a
writer has lowered it (CountInv); with no writer about, every queued reader has its token (QuietInv). The readers a
writer awaits are those that read, those that hold a token and will, and those that are leaving; `reader_wait_`
counts down from zero until the writer adds what it found (AnnouncedInv), is then the number awaited, and the
writer's token is posted exactly when that is nought (DrainingInv). So a writer that writes awaits nobody (WritingInv).
MutexTypes, MutexExclusive, MutexQuietMeansClean and MutexAssertionsHold (the assertions of `unlock_shared`, `lock` and `unlock`).

**RequestContextProofs** (assumption: the trees are trees, parents before children). Whoever wins the exchange on `cause_`
alone walks the cancel path of that signal, and a cause taken from the parent is the parent's (WonInv). A signal whose callback
is gone from the parent's list is done, and so is one whose parent has run them all (LinkInv): this is the step by which a
cancellation gets down, and it survives a registration that comes while the parent is being cancelled. A
deadline that is a cause has passed (PassedInv). ContextTypes, ContextFirstCause (an action property), ContextCauseIsTrue,
ContextDeadLeavesNothing, and ContextCancelReaches, by a least counterexample: the parents of a signal are older, so
that the chain from the one whose `cancel()` returned can be followed down to the first that is not done.

**PartsProofs** (assumptions: the constructor's Lua state is a state, there are finitely many threads and executions, an
operator's configuration and a registry's entry are records of their types, a name of a configuration is in the order of names,
a client sends requests of HttpRequest's type, no custom route is a built-in endpoint, the limits and the number of resources
are natural numbers).
*Lua.* A state is clean while it is free, until
the call that borrowed it runs, and again between its reset and its return; in between the snapshot holds the script's
own function (LuaCleanInv). That what one thread writes never disturbs a free state or another
thread's needs that each state has one holder (LuaHolderInv), and the two are inductive together. LuaCountInv counts
the threads between their steps and ties the pool's counters to them.
*Redis.* BorrowInv says who has which connection, AccountInv what `in_use_` counts, FreeInv that a connection nobody has, and
on which no exchange has failed, has nothing to be read and no transaction. HandInv is why that is so: it
follows an exchange command by command. While the answer to a command is awaited it is alone on the wire, and if it is one the client
accepts, the transaction is open exactly when the script goes on (Awaits; ReplyFits is the lemma on the server that this
takes). So an exchange ends on a fresh connection or soils it.
*Config.* What an operator was checked for is true of it with its class's flags (Sound, from the lemma that checks of
which the first to fail is `none` have not failed), and stays so when the control fields are taken out after the graph has read them.
A constructor that succeeds has met no source out of order (NoSourceErrors).
*HTTP.* For a client that waits for each answer, and as long as its bodies come in time (HttpInv), what the thread has
taken off the request of the moment, its buffer and the socket are, one after the other, exactly the bytes of
that request which have been sent (StreamInv). So the end of a head is the second byte, whatever the cuts were, the body
wants nothing more when it is complete and never takes from the next request, and a body that fails while the client is
there has been late. With what the head was understood as (RequestInv) this gives the answers (ReplyInv),
what was handed on (HandedInv) and the counters (CountedInv).
*Resources.* A thread that is alive belongs to the last `start`, which has not
been stopped, and to a resource that is to be refreshed (AliveInv, ThreadsInv): for this `stop` must
join before it takes the flag back (FlagInv). What is being stored is younger than what is there (AgeInv), because
nobody but that one thread fetches the resource meanwhile. With what is loaded
when (LoadedInv) this gives ManagerTypes, ManagerComplete, ManagerOneRefresher and ManagerNeverOlder.
PartsOneHolder, PartsNothingLeaks, PartsAcceptedIsSafe and PartsAnsweredInOrder state the properties of the `parts` run.

**PipelineProofs** (assumption: `PipelineAssumption`, see section 2; any plans, any requests, both layouts). OrderInv: a node
starts when all that it must wait for have ended. Nodes that are busy at a time are therefore not joined by an edge, and since the
edges are DagBuild's `Required`, they do not conflict (ClearAreApart). ViewInv: what a busy node can see (`Seen`) is what it saw
when it began. It is kept because whatever a node does to the frame, it does in `Finish`, and by fields it declares: an
operator's output is always a well-typed list of calls (ExecutePutsOut, MergeShardsIsOutput), those the validation lets through name
declared fields only and move rows only if the operator may (PartsFit), and each element of `apply_output` changes those
fields and nothing else, also when a later one throws (RowPartWithin, ColumnPartWithin, AppliedWithin). A node that does not conflict sees
none of this (SeenUnchanged), through removal, reordering and added rows too, because then it reads no item. Buffers types
the reused outputs; AWorkerIsFree is the pigeonhole by which a node that may start finds a worker.
StableViewHolds and NoTwoConflict.

OnlyDeclaredHolds follows what becomes of the rows. Every element of `apply_output` either leaves old rows in their
places with the declared fields changed, or takes rows away, or puts them in another order, or adds rows after them;
each of these is an index map from the new rows to the old ones (the identity, an ascending map, a permutation),
the maps of several elements compose, and an element that throws half-way has still gone by one. What the map is in the
column layout is the work of two lemmas about in-place algorithms, stated as theorems: Compaction
(moving the kept values down behind a write cursor leaves the list without the removed places) and Reordering (following the cycles of an
order without duplicates leaves at each place the value that the order names).

OwnLayoutInSeries and PlainSerializable say that a run of operators that are not sharded is a run of the same operators one at a time.
The operator's view is what carries it: the skip condition, the template, the three checks and the answer of each of the fifteen
operators are functions of what the operator can see and nothing else (ControlAgrees, WindowsAgree, ExecuteAlike), so that what a body has
found so far (`GoneOn`) stays true while other nodes end, by ViewInv. When the node is settled, by writing its output or by throwing, it does to
the frame of that moment what `RunAlone` does to it, at whichever of its steps this is (NodeSteps). `History` collects it: an order of the settled
nodes that respects the edges, the frame after each, and who is to warn. `Serial` over that order retraces it. A node in the catch block still has its
worker and its buffer (`Held`), its fate is settled and the frame is not touched any more (OutcomeInv), but others may be settled before its
warning is pushed. So the warnings have an invariant of their own (Noted): they list, each once, the nodes that are to warn and have
come past `push_warning`, and whatever stands before the warning of a node that succeeded is of a node settled before it (InOrder). The buffers of the workers matter here: Progress
says that what a node finds in its buffer is what it put there, for which no output may be left over from the node before
(the mutant ResetButAdded) and no two nodes may share a worker. `Plain` names the hypothesis: `WellDeclared`, and `data_parallel` at most one.
It holds of 969 of the 1235 plans of the `pipeline` run; the others have a sharded operator. `WellDeclared` is needed because the key of a lookup is a
parameter, which nothing but its schema ties to `item_input`: undeclared, it is a field on which the graph does not order the lookup. PlainSerializable is Serializable itself where the reference is the run's own layout.

**Checked only on instances:** all liveness properties (the prover does not do fairness); what recursion over data
computes (Flattens); of Serializable, that the column layout and the shards give what the row layout gives without shards; KeepsPromise, which is about the values the
operators compute; and SnapshotTruthful, which is not true of every pipeline (an int64 column takes -0 for 0). That an execution is
answered by its own answer even after a failed exchange (OwnAnswers) is false, see section 4; the theorem on the
pool is what remains true of the code.


## 6. What is not modelled

- Text: JSON, the wording of errors, the printing of numbers, rendered graphs. In Redis, a
  command that is sent in part. In HTTP, headers other than Content-Length and Connection.
- In the server: the bodies of `/stats` and `/dag`, middlewares other than the one that counts, and threads
  that cannot be created.
- In the contexts: values and resources carried along.
- In the resource manager: `load_from_config`, `validate_resource_deps`, the registry of
  fetchers. Several owners at once: the server has one.
- Engines used by several runs at once, except for what Server says of closing them.
- Operators that only burn time (the benchmarks), and operators by Lua and Redis as parts of a pipeline: they
  are "custom" there; what they borrow is in LuaPool and RedisPool.
- The arena and the flat map, which change where things are kept and not what they are; metrics,
  which nothing reads back; the check of remote addresses, a function of a name and its resolution.
- Other programs: the Go and Java engines, the Apple package, the code generator, the DSL compiler.


## 7. Plan

Modelled, in this order: DagBuild, DagRun and DagScheduler, SharedMutex, Server,
RequestContext, ShardExecutor, ResourceManager, with the proofs of section 5; then OperatorIO, the frames,
Operators and Pipeline, LuaPool, RedisPool, Config, Exchange.

Next theorems: Serializable of Pipeline for sharded operators, then between the layouts.

Next models: several runs on one engine, with the buffers of shared workers; `load_from_config` and the
references to resources; the encoder and decoder of numbers in templates, as functions.
