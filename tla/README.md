# Colza in TLA+

Colza is an elastic in situ analysis service. Ranks of a simulation (the
*client*) stage blocks of data on *pipelines* hosted by a group of *providers*
and have them executed; servers join and leave the group between iterations.
This directory holds TLA+ models of that code, the TLC runs that check them and
the theorems TLAPS proves about them. Paths below are relative to the
repository; `ProviderImpl`, `Client`... are files of `src/`.

## 1. The system

| Component | State | Operations | Interacts with |
|---|---|---|---|
| Provider, pipeline life cycle (`ProviderImpl.hpp`) | `m_pipelines`: name -> `PipelineState` (backend, `active`, `iteration`), `m_num_active_pipelines`, `m_pipelines_mtx`, `m_pipelines_cv` | RPCs `start`, `stage`, `execute`, `cleanup`, `abort`, `check`, `create`, `destroy`, each in a user-level thread | backend (calls with no mutex held), client and administrator (RPC) |
| Provider, leaving | the same counter, mutex and condition variable | RPC `leave` without an answer: waits for the counter to be 0, leaves the SSG group, finalizes the engine | every RPC that changes the counter |
| Provider, group view (`SSGUtil.hpp`) | `m_group_hash`, the XOR of the member ids | computed in the constructor, updated by the SSG callback, compared by `start` | SSG, client |
| Provider, MoNA addresses | `m_mona_addresses`, `m_mona_self_addr` | `getMonaAddress` RPC, resolution in the constructor, a thread per membership update that asks the new member and gives the new list to every pipeline | other providers, backends |
| Distributed handle (`DistributedPipelineHandle.cpp`) | list of pipelines, `m_group_hash` (rank 0) | collective `start` (with retry, abort, refresh), `stage`, collective `execute` and `cleanup` | providers (RPC by rank 0), other ranks (barrier, broadcast) |
| Client (`Client.cpp`) | the RPC definitions | collective `makeDistributedPipelineHandle` | SSG observation, other ranks |
| Pipeline handle, asynchronous requests (`PipelineHandle.cpp`, `AsyncRequest.cpp`) | responses shared by copies of a request, `m_waited` | RPC calls, `wait`, `completed`, wait in destructors and assignments | providers |
| Administration (`Admin.cpp`) | none | create, destroy, leave, shutdown, one server or a whole group | providers, SSG observation |
| Server programs and group file (`examples/distributed/server.cpp`) | the group file, the pools and streams | create the group and its file, join from the file, rewrite it on a membership update, shut down | SSG, every program that loads the file |
| Backend and factory (`Backend.hpp`, `DummyBackend.cpp`) | registry of factories; the dummy backend keeps blocks per iteration, dataset and id | `start`, `stage`, `execute`, `cleanup`, `abort`, `destroy`, `updateMonaAddresses` | provider |
| Data sizes (`TypeSizes.hpp`) | none | product of the dimensions and the size of an element | the memory `stage` exposes |
| Bedrock module, example clients and administrators, tests | none of their own | see `PROJECT.json` | |

What is hard here:

* every handler is a thread, and `active` and `iteration` are tested without the
  mutex, long before they are changed: each test may be out of date;
* `leave` rests on a counter that five places change, in success and in failure;
* a client's view of the group, each server's view and the group itself change
  at different moments; the hash is the only protection;
* ranks take part in collectives whose number depends on failures seen by rank 0
  alone;
* part of a group may have started an iteration when another part refused it;
* unsigned arithmetic at iteration 0, at counter 0 and in sizes;
* a request is shared by copies that several threads drop, and its failures are
  thrown by whoever waits, which may be a destructor;
* everyone finds the group through one file that several servers may write;
* membership updates, address resolution and pipeline creation run concurrently.

The correctness of each component, in one sentence each:

* life cycle: a backend is called only within the iteration the provider checked and
  keeps no block beyond it, as long as a client's calls do not overlap; that an
  active pipeline can always be reached is claimed and false (`provider_admin`);
* leaving: the provider leaves when, and only when, nothing is active;
* group view: the hash follows the view, but for the updates that reach a provider
  while its constructor computes the hash;
* MoNA addresses: constructors never wait for each other for ever, and once updates
  are handled every provider knows the addresses of its view; that its pipelines
  know them too is claimed and false (`group_pipelines`);
* distributed handle: `start` is all or nothing on a group every rank agrees on,
  ranks meet in the same collective unless rank 0 gives up, `execute` sees every
  block;
* asynchronous requests: no failure is swallowed, and a request is dropped before it
  was answered only by two threads at once or by an exception that overtakes it;
* administration: an operation that returned was done by every server it observed;
* group file: once the group is quiet the file names its members.

`PROJECT.json` lists every hazard with the line where it bites and the
properties that watch it.

## 2. Modules

| Module | What it is |
|---|---|
| `ColzaProvider` | one provider: every pipeline RPC and `leave` |
| `LeaveGuard` | what a provider promises about leaving, abstractly |
| `AtomicProvider` | what a provider promises disciplined clients, abstractly: each call acts at one instant |
| `PipelineCycle` | the iterations of a set of pipelines, abstractly: what the two models of a provider, `ColzaProvider` and the servers of `DistributedPipeline`, have in common |
| `DistributedPipeline` | the ranks of a client, the servers of a group and the group itself: the composition of clients, providers and SSG |
| `GroupIteration` | what a distributed handle promises the ranks of a client, abstractly |
| `ProviderGroup` | the constructors of the providers of a group, the hash and the MoNA addresses |
| `AsyncRequests` | `AsyncRequest` objects and the calls that return before they are answered, down to the pipeline of the example backend |
| `GroupService` | the group file, the operations of `Admin` on a group, the construction of a distributed handle |
| `ColzaProviderProofs`, `PipelineDataProofs`, `AtomicProviderProofs` | theorems about `ColzaProvider` |
| `DistributedPipelineProofs`, `ProviderGroupProofs`, `AsyncRequestsProofs`, `GroupServiceProofs` | theorems about the module of that name |
| `DataSizeProofs` | theorems about the size of a block in `AsyncRequests` |
| `MCColzaProvider`, `MCDistributedPipeline`, `MCAsyncRequests` | definitions for TLC |

### ColzaProvider

A handler `h` is a control state `pc[h]`, the request it serves `req[h]`, the
`shared_ptr<PipelineState>` it copied `obj[h]`, and the result it will send
`reply[h]`. An object is `<<name, generation>>`, because a name can be created
again while a handler still holds the former object.

Granularity is the heart of the model. A step ends wherever another thread can
run and matter: before a mutex is taken, after a field of `PipelineState` was
read or written without the mutex, and while the backend is called. So `start`
is `CheckGroupHash`, `FindPipeline` (the macro `FIND_PIPELINE`), `CheckActive`,
`CheckIteration`, `Reserve`, `BackendStart`, then either `PublishIteration` and
`PublishActive` *in either order* (two plain writes that another thread may see
in any order) or `Release` and `NotifyAll`. `abort` writes both fields under the
mutex, but they are read without it: `AbortActive` and `AbortIteration` are two
steps in either order with the mutex held (`mtx`) in between. Threads on one
Argobots stream switch at fewer points than that; the model includes what they do.

A critical section that touches only fields protected by the mutex it holds is
one step (`Deactivate`, `Release`, `LeaveGroup`). Waiting on `m_pipelines_cv` is
`leaver[l] = "waiting"`; `NotifyAll` moves every waiter back to `"lock"`, where
it tests the counter again. `size_t` and `uint64_t` wrap at `MaxCount` and
`MaxIteration`.

A backend call is its return: it succeeds or fails, freely; for `execute`,
`start` and `destroy` nothing else is kept of it. `data[o]` is the set of
iterations a backend holds blocks for: `stage` adds one, `cleanup` removes it, as
the dummy backend does. After `finalize` no new request arrives, but those that
were received are served to their end.

`Synchronous` chooses the environment. TRUE: the calls of *clients* respect
`Disciplined`: no two of them are on one pipeline at once, except stages of
different ranks, and `abort` comes before any stage. That is the loop of
`examples/distributed/client.cpp:57` to 112. It is an assumption: nothing in the
provider enforces it, and a client that does not wait for its asynchronous calls,
or two clients of one pipeline, break it. Administrators are not constrained: they
create, replace, destroy and check pipelines at any time. FALSE: any request at
any time.

`AtomicSpec` is the refinement of `AtomicProvider`, a provider without threads:
a pipeline is running or not (`Running`), at an iteration (`LastIteration`), its
backend holds blocks or not (`Loaded`), and a call is answered by one action that
reads and changes all of that. The call acts where it can no longer be undone: a
start when the backend's `start` succeeds, before either field is written; a
cleanup when the backend's `cleanup` succeeds, before `active` is reset; an abort
at the first of its two writes; a stage when the backend has the block; create,
destroy and leave in their critical section. Everything before is a stutter,
everything after too (`Outcome` is the answer as soon as it is decided). A call
that fails is `Refuse`, which changes nothing and must have a `Reason` that is true
at that instant. What the reader should not expect: a call is served on the pipeline
it found (`Find`, `target`), though it was destroyed or replaced since, and though
the provider left; a create replaces a pipeline that runs; and a destroy may take as
inactive a pipeline whose start, or as active one whose cleanup, has been decided
and not answered (`Unsettled`).

### DistributedPipeline

Each rank runs the loop of `examples/distributed/client.cpp`: start, stage one
block, execute, cleanup. Rank 0 (`Root`) sends the RPCs, collects the answers in
`rpc`, broadcasts the outcome, aborts what started, observes the group again and
retries; other ranks receive the outcome (`RecvOk`) and, after a failure, the new
view (`RecvView`). `chan` holds broadcasts a rank has not received yet. A barrier
releases all ranks when all are in one, whichever it is in the program.

A server's view is changed by `MembershipUpdate`, one id at a time and in any
order. A hash is the set of ids it is the XOR of (two views with one hash would need
ids that are linearly dependent, which 64-bit ids are with negligible probability),
and `m_group_hash[s]` is a variable of its own: a callback flips one id in it, and the
constructor of a server that joins overwrites it with what it computed a step before
(`ComputeGroupHash`, `StoreGroupHash`). An update in between is lost and the hash is
wrong from then on. `Join` gives the new server the view of the member that admits
it. A server that left answers nothing new; calling it or waiting for its answer
throws (`RpcThrows`, `AbortThrows` where the code catches it, a failed `Stage`).

A server serves an RPC in one step, except `start`, which is two: `AcceptStart` makes
the tests (`ProviderImpl.hpp:384` to 399), `FinishStart` reserves the pipeline, calls
the backend and publishes the result (403 to 421). A leave that saw the counter at 0
may come between them: `overtaken` remembers such servers. Between the reservation and
the end of a start `leave` waits, so that no step of its own is needed there. One step
for the other RPCs is justified by `ColzaProvider`: the calls of this client are
`Disciplined`, so that what a handler checked still holds when it acts, and the
provider implements `AtomicProvider`, where each call is one step (`AtomicSpec`). What
happens to a pipeline is the same on both sides: `CycleSpec`, in this module and in
`ColzaProvider`, is the refinement of `PipelineCycle`.

The backend of a server in `Fallible` may fail a start, stage, execute or cleanup. A
start that fails is an answer like a refusal, and not `INVALID_GROUP_HASH`: when no
server answers that, rank 0 gives up (`GaveUp`) and returns as from a success.
Everything else throws: `threw` are the ranks that did, a rank in it takes no further
step, and the other ranks wait for it. `RefreshThrows` is SSG failing on rank 0.

Left out: the size and the addresses are broadcast in two messages, one here;
rank 0 reads the members and their hash at one moment (`ComputeGroupHash` runs a
little later than the loop that builds the list); the last member leaving; the
empty pipeline list; an administrator's calls meanwhile (they are in
`ColzaProvider`). `execute` with automatic cleanup is in `ColzaProvider` and
`AsyncRequests`, the asynchronous form of the calls in `AsyncRequests`.

`IterationSpec` is the refinement of `GroupIteration`: `Phase` is what the ranks
see of rank 0's control, and the servers' `active` and `staged` are visible only
between a start that succeeded and the end of cleanup. An attempt that failed and
was undone is a stutter: a step of it that left a trace would not be.

### ProviderGroup

Every server constructs its provider: `AddCallback` or `Join`, `ComputeGroupHash`
and `StoreGroupHash` (one C++ statement that reads, then writes),
`SetSelfAddress`, then `_resolveMonaAddresses` as `ListMembers`, one
`ResolveMember` per member (the code asks them in rank order; any order here) and
`InsertAddresses`. `MembershipUpdate` is SSG changing the view of one server and
calling the callback, which flips the hash and spawns a thread; `update[s][u]` is
that thread: `AskMember`, `RecordUpdate`, `CopyAddresses`, `GiveAddresses`.
`Answers` is `getMonaAddress`: it waits for `m_mona_self_addr` and needs a stream
that runs its pool (`Serving`). `RetryAsk` is the sleep of the loop that asks: a
step that changes nothing. `ReadAddresses` and `RegisterPipeline` are the two
sections of `_createPipeline`, at any time: the RPC is defined before the body of the
constructor runs.

A thread may be overtaken at every step, as on `examples/distributed/server.cpp` with
its RPC thread (79). `missed` is history: the members whose update came between the
computation of the hash and its assignment. Left out: a view that changes between the
size and the members `ComputeGroupHash` reads, a MoNA address that cannot be looked
up, a server that crashes, and a server that left running on.

### AsyncRequests

`self[h]` is the shared pointer in the variable `h`; `Holders(r)` are the variables
that share request `r` and the thread whose call has made it and not passed it on.
`Unique` is a use count of 1, so that the one holder is a variable: a call holds its
request twice, in a local and in the temporary `AsyncRequest` that copies it
(`AsyncRequest.cpp:14`). A destructor or an assignment is two steps: `Replace` tests
the count and calls the callback or not, `Overwrite` gives the pointer up; two threads
may both be between the two (`raced` remembers for which request). `Wait` and
`Replace` enter the callback (`EnterCallback`), `WaitReturns` and `WaitThrows` leave
it, as the servers answered. The vector of responses is emptied first and `m_waited`
is set last, so a callback that throws leaves neither; entering it again reads the
first element of an empty vector, which is undefined and ends the client
(`"undefined"`), as two threads in one callback do. An exception in a destructor ends
the process (`"terminated"`). One out of the wait for the request that a new one is
assigned over unwinds the call: the temporary does not wait, because the local holds
the new request as well, and the local then frees it, answered or not. That is in
`WaitThrows`, and `abandoned` remembers the request. The result of a collective call
is any value: the callback never assigns the one it reports.

`Issue` sends a call with a variable to put its request in; `CallAndWait` is the
synchronous form, a temporary that is waited for. The servers check as
`ColzaProvider` does, in one step, then the dummy backend works: `CheckBlock` and
`StoreBlock` are the two critical sections of `stage`, with the transfer between
them. The transfer needs the exposed memory, which lives in the request.
`ComputeDataSize` multiplies in `size_t`, of `SizeBound` values.

Left out: `completed()`, which reads only; the move constructor, a move into an
empty variable; a group that changes (that is `DistributedPipeline`).

### GroupService

A server is its SSG id, and the member of smallest id has rank 0. `MembershipUpdate`
changes a server's view and calls `update_group_file`, which rewrites `file` if
that server takes itself for rank 0 and its callback is registered (`writing`;
it is registered after the provider's constructor). `Join`, `Begin` and `Observe`
load the file and need a member that it names. `Begin` starts an operation of
`Admin` on the view it observed: a thread per server, that ends with an answer
(`ServeCreate`, `ServeDestroy`, `ServeShutdown`), or throws and ends the process
(`Answer`); departures are asked by the caller itself (`AskLeave`). `JoinAll` is
the return of the operation. `Observe`, `CheckPipeline`, `CheckFails`,
`BroadcastList` and `ReceiveList` are `makeDistributedPipelineHandle` with
`check`: an exception in a check is broadcast as a size of -1. An exception of SSG is
not (`ObserveThrows`): rank 0 is `"unobserved"` and the others wait.

`Iterate` is some client that makes a pipeline active and inactive again, so that
`destroy` and `leave` meet both. A destroy whose backend reports an error erases the
pipeline all the same and answers a failure (`ServeDestroy`). `ServeCreate` on a name
in use replaces the pipeline, whatever its state. Left out: a leave that was accepted
and waits is not told from one the server does by itself (`Leave`); SSG's own
observation.

## 3. Runs

| Run | Question | Bounds |
|---|---|---|
| `provider_clients` | is the counter exact, are wakeups kept, does the provider leave only when idle, then leave, and implement `LeaveGuard`? (fair) | 2 pipelines, 2 handlers, 1 leave, iterations 0..1, the RPCs of clients but `stage` |
| `provider_calls` | are backends called only inside an iteration, is no block left behind, does a start do what it answers, is `AtomicProvider` implemented? | 1 name, 2 generations, 2 handlers, 1 leave, all 8 RPCs, iterations 0..2 |
| `provider_admin` | is an active pipeline the one registered under its name? (violated) | 1 name, 2 generations, 2 handlers, iterations 0..1 |
| `dist_group` | is start all or nothing; do ranks agree, meet and execute every block; do servers stay; is nothing in the way of the next call; can somebody always go on; are `GroupIteration` and `PipelineCycle` implemented? | 3 ranks, 2+1 servers of which one may fail, 2 changes (joins or leaves), iterations 1..2 |
| `dist_live` | does the client finish? (fair) | 2 ranks, 2+1 servers of which one may fail, 2 changes, iterations 1..2 |
| `dist_iteration_zero` | what if the first iteration is 0? (violated) | 2 ranks, 2+2 servers, 1 join |
| `dist_no_pipeline` | what if a server that joins lacks the pipeline? (violated) | 2 ranks, 2+2 servers, 1 join |
| `group_forms` | is the hash that of the view, do constructors never wait in a circle, do they all end and do servers know each other? (fair) | 2 founders, 1 more, 1 change, a pipeline on one server |
| `group_pipelines` | do pipelines have the addresses of their provider? (violated) | the same |
| `async_requests` | is a call in flight owned, a failure reported, a staged block held, once and whole? | 2 threads, 2 variables, 2 servers, 1 block of 12 bytes with `SizeBound` 13, 2 requests, 1 iteration |
| `group_service` | do operations report what they did, do all ranks get the same checked handle or an exception? (fair) | ids 1..3, founders 1 and 2, 1 operation, 2 changes, 2 ranks |
| `group_file` | is the group file the group once everyone knows it? (violated) | founders 1 and 3, server 2 joins, 2 changes |

Why the bounds are enough. Two pipelines are needed because the counter is shared: an
error on one shows as leaving under the other. Two handlers show every pair of steps,
two stages that overlap among them; a check of `provider_calls` with three handlers
passes as well (1,044,598 states). Two generations let a handler hold an object that
was replaced. Iterations 0..2 contain the value that means "never started", a repeated
and a later number. Two changes let a join, and then a leave, happen while the client
recovers from the first, which is what makes `retry` loop; one server whose backend
may fail among others that may not is what makes an attempt succeed in part. Two
iterations let a failed start follow a completed cleanup. `MaxPending` bounds how far
broadcasts run ahead of receivers: a rank 0 that outran them further would only be
waiting later.

Two founders wait for each other; a third server that joins is a member the
founders' lists do not have, and its own list has both. One change is a join while
the founders construct their providers, or a departure while the other founder asks
for the address of the one that leaves.

Two requests let one be assigned over another, so that an exception frees the
second; two threads with two variables let two copies be dropped at once.
`SizeBound` is the smallest for which the block's size is exact: any further
product would wrap. In `group_service` id 3 joins a group of 1 and 2, cannot
create the pipeline, and 1 or 2 may leave: every refusal happens. In `group_file`
id 2 is the one that comes between the ranks of the founders.

Symmetry is used over the handlers of `provider_calls`, the ranks but rank 0 of
`dist_group`, and the threads, variables and servers of `async_requests`: in no run
with liveness.

Deadlock is checked in every run but two. `Finalized`, `Finished`, `Quiet` and
`Rest` are the only states that may stay as they are: the provider left and nobody
is running, all ranks are done or one has thrown, every server of the group waits for
requests, no call is under way or the client's process has ended. `group_service`
and `group_file` say `CHECK_DEADLOCK FALSE`: once the operations and changes the
bounds allow are spent, with every handle built, nobody there has anything left
to do; that the construction does not get stuck is `ConstructionEnds`.

### What the violated runs show

* `dist_iteration_zero`: `abort` does `iteration -= 1` on a `uint64_t`. The first
  iteration of the example client is 0; if the group changed, the servers that
  had started abort back to 2^64-1 and refuse every later start. `start` still
  returns normally.
* `dist_no_pipeline`: any failure but `INVALID_GROUP_HASH` ends rank 0's loop
  silently, while the others rebuild their handle and wait for a broadcast.
* `provider_admin`: `create` replaces the pipeline registered under a name, active or
  not (`ProviderImpl.hpp:262`), and `destroy` tests `active` at 351, under a mutex that
  `start` does not hold between its test (394) and its assignment (412). Either way a
  pipeline is active for ever: no RPC reaches it, and `leave` waits for it.
* `group_pipelines`: `_createPipeline` gives a new pipeline the addresses of the book
  (256) before it registers it (262), and an update in between, or the end of the
  constructor, is given to every pipeline but that one. The code has a second way:
  an update copies the book under one mutex and gives the copy under another (685
  to 698), so that of two updates the older copy may be given last.
* `group_file`: every server decides by its own view whether it has rank 0. When
  rank 0 leaves while server 2 joins, 2 writes a file with 2 and 3, then 3, which
  has not heard of 2 yet, writes one with 3 alone. 3 then learns of 2, is not rank
  0, and nobody writes again. `FileCurrent` excuses two cases that need no race:
  the callback is registered after the provider is constructed
  (`server.cpp:163`), and a joiner that has rank 0 at once is told of no change.

Disagreements that no run shows, because one line shows them, or because a
property already allows for them:

* Two calls of clients on one pipeline may overlap, when two clients use it or one does
  not wait for its asynchronous calls: two starts, two cleanups, or a stage and a
  cleanup then pass each other between a test and its effect. `Disciplined` excludes
  it; with `Synchronous = FALSE` in the configurations of `ColzaProvider` TLC shows what
  happens.
* A start that passed its tests may reserve the pipeline after `leave` saw the counter
  at 0 (`ProviderImpl.hpp:403`, 554): the client then stages to a server that left.
  `GroupHeld` says that it loses a server in no other way.
* An update of the group between the two halves of `m_group_hash = ComputeGroupHash(gid)`
  (126) is overwritten, and the hash of that server stays wrong: every start that
  counts on it is refused and repeated for ever. `HashIsView` says what is wrong about the
  hash, `AllIterationsRun` assumes that hashes become right.
* The exception of `a.wait()` (`DistributedPipelineHandle.cpp:105`) leaves `start`
  before the broadcast and before the aborts, although a server that left is an
  ordinary event: `RpcThrows`. A failing backend ends `execute` and `cleanup` in the
  same way, on rank 0 alone.
* A failed request that is overwritten by a new one throws out of the call that makes
  the new one, whose own request, with the memory exposed to the servers, is freed in
  flight (`AsyncRequest.cpp:14` and 24 to 42): `abandoned`.
* A member's MoNA address is asked for in one thread and erased by another
  (`ProviderImpl.hpp:668`); when the erasure comes first the insertion that follows
  is never undone. `_resolveMonaAddresses` inserts in the same way (655).
* `PipelineHandle::start` sends the hash 0 (`PipelineHandle.cpp:51`), which no group
  has: it is always refused, although `PipelineHandle.hpp:79` documents it.
* `completed()` starts from true and only ORs (`AsyncRequest.cpp:56`): it is true at
  once, although `AsyncRequest.hpp:65` says that it tests for completion.
* The wait callback of a collective call reports a variable it never assigns
  (`DistributedPipelineHandle.cpp:255`).
* Waiting again for a request that failed reads the first response of an emptied
  vector (`PipelineHandle.cpp:173`); dropping one that nobody waited for throws out
  of a destructor (`AsyncRequest.cpp:26`).
* An exception while rank 0 observes the group is not broadcast (`Client.cpp:93` to
  126), one while it checks a pipeline is: after the former the other ranks wait for
  ever, and `ConstructionEnds` asks that it does not happen.

One setting of `ProviderGroup` is left out of the passing runs: with `Serving = {}`
`GroupForms` and `NoWaitCycle` fail. `examples/distributed/server.cpp:140` gives the
provider a pool no stream runs when `--num-threads` is 0, its default; such a group of
more than one server never forms.

### Fairness

`ColzaProvider`: weak fairness of each handler's and each leave's next step: Argobots
runs every thread that is ready, its mutexes are queues, and a backend call returns.
Clients are not fair: `InactiveLeave` is conditional on pipelines being
inactive from some moment on.

`DistributedPipeline`: weak fairness of each server's answer, of each callback (SSG
disseminates every update), of each joiner's constructor, of rank 0 and of each other
rank: no process stops by itself. Joins and leaves are not fair: they may never
happen. A retry loop ends because there are finitely many changes (`MaxChanges`) and
if hashes are right from some moment on, the premise of `AllIterationsRun`; it fails
for a server that missed an update. The end is every rank done, or an exception.

`GroupService`: weak fairness of `Construct`, the ranks that build a handle: their
calls are answered or fail, and SSG does not fail on rank 0, the premise of
`ConstructionEnds`. Administrators, departures and the servers' own work are not fair.
`AsyncRequests` has no liveness property and states no fairness: whether a wait
returns is whether servers answer.

`ProviderGroup`: weak fairness of each callback, of each constructor's next step, of
the thread of each update and of a pipeline creation that began. Members may leave:
`GroupForms` says that the only providers that stay behind for ever are those with a
thread that asks a member that left, which never answers.

## 4. Proofs

Every theorem holds for all values of the constants, any numbers of names, handlers,
servers, ranks, threads and requests, that the assumptions of its module allow. These
are named in the module that declares the constants (names that are finitely many,
subsets that are subsets, bounds that are naturals, a counter wide enough for the
objects, distinguished values outside the sets they complete, ids of SSG that are
numbers); TLC evaluates them in the runs. Each invariant below was a TLC invariant
before it was a proof.

### ColzaProviderProofs

| Theorem | Statement |
|---|---|
| `TypeCorrect` | `Spec => []TypeOK`, with or without the discipline |
| `CounterExact` | `[]CountExact` |
| `WakeupsKept` | `[]NoLostWakeup` |
| `LeavesIdle` | `LeaveOnlyWhenIdle` |
| `GuardImplemented` | `GuardSpec`: the provider implements `LeaveGuard` |

All but the first assume `Synchronous`, that the calls of clients respect
`Disciplined`; without it they are false. None assumes anything of administrators.

The argument. `CountExact` says that the counter is the number of objects that are
active or that a handler is starting or aborting (`Charged`). It is not inductive: a
`Deactivate` subtracts 1 whatever it finds, so one must know that its object is still
active and that nobody else is about to subtract for it. `ChecksStillHold`, a part of
the invariant, is what is missing: each control state says which RPC is served
(`OpAt`) and what its object's `active` is (`SawInactive`, `SawActive`), and two
handlers of clients on one name both stage (`Exclusive`); an administrator's handler
holds no object and changes none that exists, so that it may run beside them. The
inductive invariant `CountInv` is `TypeOK /\ ChecksStillHold /\ CountExact`. Each
action is a lemma on how `Charged` changes (an object enters, leaves, or nothing
does), and lemmas on cardinality turn that into the change of the counter, which never
wraps because `Cardinality(Objects) <= MaxCount`. `NoLostWakeup` adds that only
`Deactivate`, `Release` and the last write of an abort can bring the counter to 0, and
each is followed by `NotifyAll`. `LeavesIdle` and `GuardImplemented` follow: the
counter being 0 means `Charged = {}`.

### PipelineDataProofs

| Theorem | Statement |
|---|---|
| `BackendInsideIteration` | `[]CallsInsideIteration` |
| `DataInsideIteration` | `[]NoStrandedData` |
| `StartKeepsPromise` | `[]StartedMeansActive` |

All assume `Synchronous`, on top of `CountInv`. What `CountInv` does not say is
kept in `DataInv`: between its check and its last write a handler's object has the
iteration that was checked, it holds no block where its fields will be reset
(`Knows`), and the answer of a start is carried unchanged from its last critical
section (`Started`). `MadeKnown` says that what a handler holds, and what is
registered, was created: so an object that `create` registers is one nobody uses,
and holds no block.

### AtomicProviderProofs

| Theorem | Statement |
|---|---|
| `ProviderAtomic` | `AtomicSpec`: the provider implements `AtomicProvider` |
| `ProviderCycles` | `CycleSpec`: its pipelines implement `PipelineCycle` |

Both assume `Synchronous`. The first is false without: a cleanup may be refused as
inactive while the start it overlaps publishes its fields, and of two cleanups that
overlap both may succeed, although the first ended the iteration.

The argument. What a handler writes when nobody looks must already be decided when
it shows. `AtomicInv` adds four facts to `CountInv`, `MadeKnown` and `DataInv`.
`Replied`: `reply` is set exactly in the control states after the answer was
decided. `Bound`: a handler has an object only from the step that found it to its
answer. `Admitted`: between its checks and the backend's `start` a handler holds a
pipeline that may start that iteration, and it cleans up after `execute` only if it was
asked to. `View`: what `Running` and `LastIteration` are of each pipeline: the fields
themselves when nobody writes it (`Unwritten`), and otherwise running at the
iteration of the start that is publishing, not running while a cleanup or an abort
is at work. As at most one handler writes a pipeline at a time, each write is a
stutter because it makes a field what the pipeline showed already. An administrator
reads the fields directly: where they differ from what shows, a call that changed the
pipeline has not answered yet, which is what `Unsettled` allows for.
There is one lemma per action (`StartShown`, `CleanupShown`, `AbortShown`...), each
of which names the step of `AtomicProvider` or shows that nothing visible changed;
`InitShown` and `StepShown` combine them. `ProviderCycles` is derived from
`ProviderAtomic`, one step of `AtomicProvider` at a time; no run repeats it.

### DistributedPipelineProofs

| Theorem | Statement |
|---|---|
| `DistributedTyped` | `[]TypeOK`, without assumption |
| `StartIsStart`, `StartIsAtomic` | `[]StartedUnlessGivenUp`, `[]AllOrNothing` |
| `NoStateRefuses` | `[]StateNeverRefuses` |
| `CollectivesMatched`, `SameView` | `[]CollectivesMatchUnlessGivenUp`, `[]ViewsAgree` |
| `BlocksExecuted`, `MembersStay` | `[]EveryBlockExecuted`, `[]GroupHeld` |
| `RanksNeverStuck` | `[]NeverStuck`: somebody can go on until all are done |
| `ServersCycle` | `CycleSpec`: the servers' pipelines implement `PipelineCycle` |
| `HandleImplementsIteration` | `IterationSpec`: the ranks, servers and group implement `GroupIteration` |

None assumes anything: any server may lack the pipeline, have a failing backend, leave
between the tests of a start and its reservation, or have a wrong hash, and the first
iteration may be 0. What these do is named in the properties: rank 0 gives up
(`GaveUp`), throws, or stages to a server in `overtaken`. The runs
`dist_iteration_zero` and `dist_no_pipeline` show that `StartMeansStarted` and
`CollectivesMatch`, which do not except a rank 0 that gave up, are false.

The argument. `Outcome` is what rank 0's control says of `ok` and `retry`. `Aligned`
places every rank relative to rank 0: at the same barrier, past it, or behind by what
is in its channel. `Delivered` gives the channel its grammar, an outcome then a view
after each failure, and its last message the list rank 0 has. `Grouped` says that an
active server is a member or was overtaken, and that views and lists name no server
that never was in the group; `Running` what `active`, `iteration` and `staged` are at
each control state of rank 0; `Behind` that, from iteration 1 on, no server is ahead
of the client; `Calling` what each server answered or will answer to the call under
way, and `Holding` whose blocks are on which servers. Their conjunction with `TypeOK`
and `StateNeverRefuses` is inductive. The refinement maps each step to a step of
`GroupIteration` or a stutter by cases on the control state of rank 0 (`PhaseFollows`).

`NeverStuck` is freedom from deadlock, written out as what each process waits for,
because because the provers have no `ENABLED`. It says more than TLC's own check:
nobody needs a change of the group, or a callback, to go on. A rank behind rank 0 has
a message of the right kind (`Delivered`); a server that was called is a member, so
that it answers, or left, so that waiting for it throws (`Grouped`). It is not a proof
that every wait ends: rank 0 may retry for as long as views differ, which is what
`AllIterationsRun` is about.

### ProviderGroupProofs

| Theorem | Statement |
|---|---|
| `GroupTypeCorrect` | `[]TypeOK` |
| `HashFollowsView` | `[]HashIsView` |
| `MembersKnown` | `[]EveryMemberKnown` |
| `WaitsEnd` | `[]NoWaitCycle`, if `Serving = Servers` |

`HashInv` says that a hash that was computed and not stored yet differs from the view by
what was missed since, and that one that was stored does so for ever: the callbacks
that follow flip both alike.
`MembersKnown` needs no assumption: `BookInv` follows each member a server's view
holds from the list the constructor made, or the thread its update spawned, to
the book (`OnItsWay`). `WaitsEnd` needs a stream for the RPC handlers of every
server; then a member that is asked for its address either has set it or is in the
part of its constructor before it asks anyone, because `SetSelfAddress` comes before
`ListMembers`, and whoever is asked was a member (`AskedInv`).

### AsyncRequestsProofs

| Theorem | Statement |
|---|---|
| `RequestsTyped` | `[]TypeOK` |
| `RequestsOwned` | `[]OwnedWhileInFlight` |
| `FailuresReachProgram` | `[]FailuresSurface` |
| `StagedBlocksHeld` | `[]StagedIsHeld` |
| `BlocksStagedOnce` | `[]OneStagePerBlock` |

None assumes anything. The inductive invariant has four parts besides the types.
`CallsInv`: the vector of responses is empty exactly when the wait returned or
threw, and then every server has answered. `ThreadsInv`: the temporary of a thread
is in no variable and no other thread has it, and no two threads wait for one
request. `OwnersInv`: a call in flight that neither raced nor was abandoned is
held by a variable nobody is taking it out of, or by a thread that waits for it or
passes it on.
`BlocksInv`: servers run the same iteration, a stage that was answered in the
current one left its block, and two stages of one block that both succeed on a
server were recorded as clashing.

### DataSizeProofs

| Theorem | Statement |
|---|---|
| `DataSizeWraps` | `ComputeDataSize(b) = BytesOf(b) % SizeBound` |
| `BlocksStoredWhole` | `[]StoredWhole` |

Neither assumes anything. `ComputeDataSize` reduces modulo `SizeBound` after each
multiplication, `BytesOf` never does, and a block has any number of dimensions:
the proof is an induction over that number. The library's induction theorems take
an operator; here the statement is a *set* of indices instead (those at which the
two partial products agree modulo `SizeBound`), and `Induction` derives from the
least element of its complement, which `WFMin` provides for `<` on the naturals,
that the set is all of them. The same idea gives the existence of the two recursive
functions (`Recursion`). The rest is arithmetic of remainders, and `SizesInv`: the
size a server keeps with a block is what `ComputeDataSize` returned for it.

### GroupServiceProofs

| Theorem | Statement |
|---|---|
| `ServiceTyped` | `[]TypeOK` |
| `RanksShareHandle` | `[]HandlesAgree` |
| `HandleIsChecked` | `[]CheckedHandle` |
| `OperationsReport` | `[]AdminReports` |

Types need to know that a server that joins is in no view and no operation yet
(`Known`). `HandleInv` adds that the size that was broadcast is the outcome of
rank 0; `AdminInv` says of each thread of an operation what its end implies for
its server.

### Only model-checked

`InactiveLeave`, `AllIterationsRun`, `GroupForms` and `ConstructionEnds` are
liveness, which TLAPS does not prove under fairness, nor `ENABLED`; that the runs
find no deadlock is `ENABLED` as well, but for what `NeverStuck` and `NoWaitCycle`
spell out. Every other property of a passing run is a
theorem. No module declares a RECURSIVE operator; `ComputeDataSize` is a recursive
function. The properties of the violated runs are false.

## 5. Not modelled, and what is left

Not modelled, because they keep no state a property is about, or belong to a
library: RPC serialisation, logging, command lines, DRC credentials, dynamic
loading of libraries and the registry of backend factories (filled before `main`,
read afterwards), the Bedrock glue, the tests, and what SSG, Margo, Argobots, MoNA
and MPI do inside; they appear as the steps this code relies on. Moving a
`Provider`, its finalize callbacks and its token are left out as well: they run
before and after the life that is modelled.

Left as refinements of what is there:

1. `ComputeGroupHash` in two steps, the size and the members (`SSGUtil.hpp:16`).
2. The list of a handle and its hash read at two moments (`Client.cpp:105` to 135,
   then `DistributedPipelineHandleImpl.hpp:69`): a handle for one view with the hash
   of the next.
3. Liveness of waits in `AsyncRequests`, once the servers' answers are fair.
4. `AtomicProvider` and the servers of `DistributedPipeline` agree on what a pipeline
   goes through (`PipelineCycle`); that they give the same answers is by inspection.
