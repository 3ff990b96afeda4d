# TLA+ verification of the PjRt runtime of this XLA fork

This directory is a verification development of the part of the repository in
which threads, device streams and device memory meet: the StreamExecutor PjRt
runtime (`src/xla/pjrt/`), the rendezvous and the communicators of the collective
operations (`src/xla/service/rendezvous.*`, `src/xla/service/gpu/nccl_*`) and the
transfer-reuse layer of this fork's MUSA plugin (`src/pjrt_plugin/src/`). The modules are TLA+; TLC checks them on small
instances, and the safety properties the runs check of the hold protocol, the device
buffers, the rendezvous, the cliques, the transfer manager and the plugin's reuse layer
are proved with TLAPS for every instance, some of them under hypotheses on what clients
do that section 4 names. `PROJECT.json` lists the
components, the runs, the map from definitions to source lines, the hazards and
the theorems.

Source paths below are relative to `src/`; *client.cc* is
`xla/pjrt/pjrt_stream_executor_client.cc`.

## 1. The system

XLA compiles array programs to device code. The compiler (`xla/service` passes,
`xla/mlir*`, the code generators) is a sequential program over graphs. What it
makes is run by PjRt. The StreamExecutor implementation of PjRt enqueues work on
device *streams*, FIFO queues that the device executes on its own, and returns to
the caller before the work is done. Everything a piece of device memory may still
be needed for has therefore to be remembered on the host, by threads that run
concurrently. That bookkeeping is the core logic modelled here.

| component | state | operations | what makes it correct |
|---|---|---|---|
| `PjRtStreamExecutorBuffer` (hold protocol) | `device_buffer_`, `holds_[kUsage, kExternalReference, kDonation]` under `mu_` | acquire, convert, confirm, drop a hold; `Release`, `Delete`; the argument loop of `EnqueueExecution` | holds are counted exactly; a granted donation is exclusive; memory leaves a buffer once; calls return |
| `Semaphore` (`compute_semaphore_`) | `value_` | `Acquire`, `Release` through a callback | no reservation is lost or returned twice |
| `TrackedDeviceBuffer`, `BufferSequencingEvent` | definition and usage events, `streams_defined_on_`, deferred tasks | record, wait on a stream, `AddUsageEvent`, destructor | no stream reads before a definition or after a free |
| `PjRtStreamExecutorClient` | the buffers, thread pool | `BufferFromHostBuffer`, `CreateErrorBuffer`, `ToLiteral`, `CopyToDevice`, `GetReadyFuture`, `Execute`, `Delete`, ownership release, donation with a control dependency | futures resolve; freed or released memory is quiescent |
| `LocalDeviceState`, `EventPool`, `WorkerThread` | streams, allocation model, callback thread | enqueue callbacks, borrow streams, number events | order of callbacks and accesses |
| `RendezvousSingle` | per key: `values`, `result`, mutex | one blocking call per thread and round | everybody leaves round *k* with the one result of round *k* |
| MUSA plugin, host-buffer reuse | pool of device buffers by host pointer, arena, cached views, flags | proxied `BufferFromHostBuffer`, `Execute`, `Buffer_Destroy` | reuse cannot be seen through the buffers |
| `AcquireNcclClique`, `AcquireNcclComm`, `NcclCollectiveThunk` | per clique: lock, `run_id`, communicators, `ready`, `status`; a list of all communicators | acquire a clique, initialize and lock a communicator, run a collective; the thread that checks for asynchronous errors | all ranks lock in one order; all get a communicator or nobody does; calls return |
| asynchronous host-to-device transfer manager (GPU client) | `buffer_ptrs_`, `last_transfer_started_`, `transfers_in_flight_`, `remaining_buffer_count_` under `mu_` | transfer a literal or raw data, set an error, clean up, destructor | a buffer is available only with all its data; memory and manager outlive the transfers |
| `RefcountingHashMap` | map of weak pointers | get or create, deleter | planned |
| infeed, outfeed | bounded queues | enqueue, dequeue | planned |
| allocation, execution, channel trackers, `StreamPool` | handle tables | register, look up, release | planned |
| TFRT CPU client, distributed topology, heap simulator | see `PROJECT.json` | | planned, in part |
| C API, Python bindings, StreamExecutor drivers, HLO passes, MLIR, code generators, ABI shims | | | not modelled: no concurrent state of their own, or out of reach of a model checker |

How they interact. A client call takes holds on its argument buffers
(`BufferHolds`), and while it has them enqueues transfers or launches on streams
and records events (`DeviceBuffers`). A hold ends by becoming a usage event or a
confirmed donation. `Delete` waits for holds on the host and lets streams keep
the memory until their events have passed. The plugin sits on top: it answers
some transfers itself with views of memory it owns and calls the client for the
others. A collective operation on several devices makes one thread per device
meet in a rendezvous before it touches the communicators (`NcclClique`, which uses
what `RendezvousContract` promises). A transfer manager hands out buffers before
their data has arrived; their definition event is recorded by a callback on the
host-to-device stream (`AsyncTransfer`).

What is hard: threads that give a mutex up in the middle of an operation (every
`mu_.Await`); host threads that wait while they hold; deferred tasks on a pool of
bounded size; events that are waited for before they are recorded, or that never
are because an operation failed; memory that is reused while a stream still
touches it; a round that begins while the last one is being left; communicators
that must be locked in one order on devices whose threads know nothing of each
other; a destructor that races the callbacks it must wait for; the failure of one
copy, or one rank, of several. `PROJECT.json` lists these as hazards, each at its line and
with the property that would notice.

## 2. Modules

| module | models | checked by |
|---|---|---|
| `BufferHolds` | hold protocol, argument loop and error paths of `ExecuteHelper`/`EnqueueExecution`, compute semaphore | `MCBufferHolds` |
| `BufferHoldsProofs` | theorems on `BufferHolds` | TLAPS |
| `DeviceBuffers` | streams, events, memory and the client operations on them | `MCDeviceBuffers` |
| `DeviceBuffersProofs` | theorems on `DeviceBuffers`: types, ownership of memory | TLAPS |
| `DeviceOrderProofs` | theorems on `DeviceBuffers`: the order of the streams; extends `DeviceBuffersProofs` | TLAPS |
| `RendezvousContract` | abstract: what a rendezvous promises | refinement target |
| `Rendezvous` | `RendezvousSingle` for one key, timeouts, clients of the returned pointer | `MCRendezvous` |
| `RendezvousProofs` | theorems on `Rendezvous`, refinement included | TLAPS |
| `NcclClique` | `AcquireNcclClique`, `AcquireNcclComm`, `ExecuteOnStream`, async error thread | `MCNcclClique` |
| `NcclCliqueProofs` | theorems on `NcclClique` | TLAPS |
| `AsyncTransfer` | the asynchronous host-to-device transfer manager | `MCAsyncTransfer` |
| `AsyncTransferProofs` | theorems on `AsyncTransfer` | TLAPS |
| `ArenaCopyPlan` | `reusable_host_buffer_arena_plan.cc` as operators | through `HostBufferReuse`, and against a reference in `MCHostBufferReuse` |
| `ArenaCopyPlanProofs` | the same reference, for every input | TLAPS |
| `HostBufferReuse` | pool, arena, cached views, flush, transfer and execute proxies | `MCHostBufferReuse` |
| `HostBufferReuseProofs` | theorems on `HostBufferReuse`; extends `ArenaCopyPlanProofs` | TLAPS |

Definitions named `...Never`, `...AtOnce`, `...Leaks`, `MergeShrinks`, `AllInArena`
and so on, commented "Fault:", are mutations of the definition that follows. No
specification uses them; they exist to show that each property notices the bug it
is about.

### BufferHolds

One action is one critical section of `mu_`. A `mu_.Await` gives the mutex up, so
it ends an action and its condition guards the next. `holds`, `valid` and `in_use`
are the fields of the buffer; `memory` says who owns the device memory; `scoped`
is the set of live `ScopedHold` objects, which the code does not have as a
collection and against which `holds` is compared; `taken`, a history, counts how
often each buffer's memory was handed to somebody else. `pc`, `call` and `next` are the
thread's position in `ExecuteHelper` or another call. The set `Calls` of calls a
thread may make is a constant: the runs choose it, the theorems do not.

### DeviceBuffers

State: `buf` (buffers with their events), `ev` (sequencing events: sequence
number, stream, status, `streams_defined_on_`), `stream` (queues of accesses,
waits, records and callbacks), `mem` (contents of memory cells), `tasks` (thread
pool and deferred tasks), `pool` (borrowed streams), `callbacks` (the callback
thread), `call` (host calls in progress) and the futures. Memory contents are the
number of the buffer that wrote them, so a read knows what it should find.

Abstractions, and why they are sound for the properties:

- an access and the event recorded behind it take effect in one stream step:
  nothing on the stream lies between them;
- sequence numbers count per stream, because only events of one stream are ever
  compared;
- a host call is atomic between the points where it may block; the holds that
  make this sound are what `BufferHolds` establishes;
- a buffer has one `ToLiteral` and one `GetReadyFuture` in progress (the collision
  of two, at client.cc:1551, is a hazard without a property);
- callbacks that would hold and free nothing are left out;
- device-to-device copies run on the source's stream, as
  `EnqueueD2DTransfersOnSrcStream` always says;
- memory cells are model values (`Slots`), and one is chosen for an allocation
  nondeterministically among the free ones;
- futures are counted over a behaviour (`MaxFutures`): each is a task, and tasks are
  what multiplies the states;
- a `CHECK` that fails ends the process. A task that looks up the memory of a buffer
  (`AsShapedBuffer`) after `DonateWithControlDependency` has emptied `device_memory_`
  goes no further, and the liveness properties name this (`CheckFails`);
- of the failures, launches and copies to the host fail (`faults`). The failure of the
  event allocation after a launch, which stalls the stream and confirms the donations
  (client.cc:2725-2736), is in `BufferHolds` only; that of a device-to-device copy
  (client.cc:1665-1687) is left out;
- the operations clients use are a constant, `Ops`. Executions donate error
  buffers only with `donate_error`, see section 6.

`Release` is modelled with both of its waits: `AwaitDonation` is a call that finds a
donation hold, `Release` what follows at once or when the hold is gone,
`ReleaseNothing` the call whose buffer was donated meanwhile, and `Delete` or
`ReleaseDeviceMemoryOwnership` the rest, once the usage holds are gone.

### Rendezvous

One step is one critical section of `state.mutex`. `values` is the set of
arguments as <<thread, call>>, which stand for pointers into the callers' frames;
`result` the `shared_ptr` in the state; `refs` the copies clients keep, which they
duplicate and drop at any time; `stuck` and `proc` the two timeouts. Groups of one
thread touch no shared state and are excluded by an assumption. One key is
modelled: states of different keys share only the map.

### NcclClique

`Program` gives each run the cliques of its collectives in order; every rank of a
run executes the same list, one thread per rank, and the runs overlap. The
rendezvous is used by its contract only: its function runs once, when all the
threads of the group have arrived. `sharers` is the shared clique `Lock`, which the
threads of a group drop one by one; `holder` the `Lock` of a communicator;
`communicators`, `ready`, `status`, `run_id` are the members of `NcclCliqueState`;
`published`, `unchecked`, `checking` the list the async error thread walks while
it holds its mutex; `launched` and `first_call` what `ExecuteOnStream` does with the
communicator. The look at `ready` (`BeginInit`), the blocking `ncclCommInitRank` and
the registration of its result under `mu` (`InitRank`) are two steps: other ranks come
and go in between. `order` is a history of who locked a communicator. Initialization
may fail on any rank, and the unique id may be refused. A communicator that was
made does not fail later, so the abort path of the error thread is left out.

### AsyncTransfer

A transfer is a record in `transfer`: its buffer, whether it was announced as the
last, where its bytes are and how far it has come (pool, stream, `CleanUp`,
`on_done`). Sections under `mu_` are single actions; the host callback of a raw
transfer is enqueued by an action of its own, because the code does it after
`mu_` was released, so that the callbacks of two calls may be enqueued in the
other order than their copies. `handle` says who has the `PjRtBuffer`; together with
`buffer_ptrs` it decides whether the `TrackedDeviceBuffer` is still referenced. Clients
may donate a retrieved buffer with a control dependency at any time, which empties its
`device_memory()`: a literal in the pool then fails `AsShapedBuffer`'s `CHECK` and the
process ends (`CheckFails`); a new call for such a buffer is refused. Callbacks
hold the stream until `on_done` has returned.

### HostBufferReuse

State: the entries of `g_reuse_host_buffers`, the arena's host memory (`staging`),
device memory, transfers on their way (`dma`), the `PJRT_Buffer`s, the calls in
progress and what running programs read. Contents are versions of the host
buffers. The environment switches are part of the initial state, in every
combination the code admits. The client below the plugin is external: its
transfer reaches the device some time after the call. Fixed: one device, one shape
(another shape is `reshape`, which misses the pool), gates that admit one transfer
and one execution, and the switches that make reuse possible at all. The caller
keeps the promises its `HostBufferSemantics` and the trust switches name.

## 3. Runs

| run | instance | shows |
|---|---|---|
| `holds` | 2 threads, 2 buffers, all call kinds, calls that name buffers once and in one order, semaphore of 1 | counting, `HoldsProtect` (exclusive donations, open usage events, no donation of shared memory), reservations, memory taken once; no deadlock, every call returns |
| `holds_repeated_use` | `f(a, a)` and `f(donate(a))` | **violation**: the two wait for each other |
| `device_copies` | `kComputeSynchronized`, 2 devices with 2 cells each, 3 buffers, 2 pool threads, executions of 2 arguments, donations, device-to-device copies, 1 future (2.1 million states) | `AccessesAreSafe` (no races, reads see contents); `TasksHaveMemory` (no task finds the memory of its buffers donated) |
| `device_errors` | `kSynchronous`, 2 buffers, failing launches and copies to the host, error buffers, donations, ownership release, 4 futures (1.4 million states) | one owner; `LetGoIsQuiescent` (freed and released memory is quiescent), reads see contents; what is ready keeps its contents |
| `device_liveness` | `kComputeSynchronized`, 3 buffers in 1 cell, 1 pool thread, control dependencies, error buffers, failures, 2 futures (140,000 states) | `ReadyAfterDependency`; futures resolve, `Delete` returns and deleted memory is freed, with the exceptions below |
| `donated_read` | donation with a control dependency during a copy to the host | **violation** of `ReadsSeeContents` |
| `dependency_error` | a control dependency that fails | **violation** of `DependencyErrorForwarded` |
| `rendezvous` | 3 threads, 2 rounds, timeouts, client copies | the contract is implemented; `RoundsSeparate` (the `CHECK`s hold, pointers are live); use count; calls return |
| `nccl_clique` | 2 runs of 2 ranks, a local, a global and a P2P clique, failing initializations, async error thread | one order of locking on all ranks, all or nobody gets a communicator, cliques are whole when free, nothing is registered with a clique that is ready; calls return unless the error thread causes the deadlock of section 6 |
| `async_transfer` | 2 buffers, 2 transfers, 2 overlapping calls, destruction at any time | a defined buffer holds all its data, copied in order; its `TrackedDeviceBuffer` outlives the transfers; clean-up finds everything alive; transfers complete and the destructor returns, unless a `CHECK` ends the process |
| `host_reuse` | 2 host pointers, 2 threads, 3 buffers, all option combinations, failures | reuse is invisible; valid slots are valid; cached views have one holder; the copy plan is correct on all small inputs |
| `host_reuse_staged` | the default forced staging copy | **violation** of `ReadsSeeHostData` |

Why the bounds are enough to be interesting. Two buffers and two arguments are
what crossed and repeated arguments need, and two threads what each of the waits
needs to race with. Fewer memory cells than buffers force the allocator to reuse a cell
while older work is queued; three buffers allow a write, a donation or copy, and a
reuse. In `device_liveness`, three buffers let clients chain control dependencies: the
task of the third buffer leaves the deferred state with its own dependency, finds that
of the second unresolved, and keeps the only pool thread while it waits (`Block`) for
an event that is set outside the pool. With `error` in the run, it may also wait for an
event that nobody records. Three
threads and two rounds let one thread run ahead while two are still leaving. Two
host pointers, of which one may be pooled before and one after the arena is made,
a maximum of one dirty range and an alignment above the size reach the copy of
one range and the fallback to the full arena; merging and cutting of ranges are
reached by `CopyPlanIsCorrect`, which compares the plan with a reference definition
(every dirty byte is copied, nothing outside the arena is, no more copies than
permitted) for every set of dirty ranges in a small arena. Three buffers are the
owner, a cached view and a temporary view. Two runs whose programs have a local and
a global clique in common let each be first on either; the P2P clique occurs twice
in one run, so that the second use may skip the rendezvous. Two transfers are what
two threads, a transfer behind a last one and an order of copies need; with three,
the safety properties hold as well (2.9 million states), but the behaviour graph
is too large for the liveness properties.

What the liveness properties of `DeviceBuffers` except, because the code stops there
(section 6). `CheckFails`: a task is about to look up the memory of a buffer that was
donated with a control dependency. `PoolHangs`: a pool thread waits for a definition
event that was given an error status and is never recorded. `ExecuteHangs`: an
execution that uses the buffer waits for such an event, or for the usage event of a
copy to the host that failed; a `Delete` that finds its donation hold waits with it.
Each names the state in which the wait cannot end, so a hang for any other reason is a
violation, and the mutants of the run show that there are such hangs to find.

Deadlock checking is off where the client may stop: buffers, calls and versions
are bounded, and no operation is obligatory once they are used up. `holds`
checks deadlock, because threads there can always make another call.

Symmetry is used in safety runs only: memory cells in `device_copies`
and `device_errors`, client threads in `host_reuse`.

Fairness (only in the liveness runs):

- *weak* for a host thread that can go on, the streams, the pool, the callback
  thread and, in `device_liveness`, the dependencies clients hand in. The code has
  a running thread or a device behind each of them;
- *weak* for every thread of a rendezvous group, its next call included: a program
  with a collective is launched on every device of the group;
- *strong*, in `BufferHolds`, for the three waits whose condition other threads may
  take away again (asking for a hold, the semaphore, `Release`): `absl::Mutex`
  keeps waiters in a queue and re-evaluates their conditions at every unlock;
- *strong* for the collectives of `NcclClique` as a whole: a thread may find
  `all_communicators.mu` taken at every look, but is not kept out of a mutex that is
  free for the 30 seconds between two checks. The work is finite, so fairness to
  all threads together is fairness to each;
- *weak* for the pool, the stream, a call that has released `mu_` and the destructor
  of `AsyncTransfer`;
- none for clients: nobody has to start a call or destroy an external reference.

## 4. Theorems

All are for arbitrary constants that satisfy the named assumptions of the modules.

`BufferHoldsProofs`, from `ThreadsAssumption`, `CallsAssumption`,
`InflightAssumption`. None of the properties is inductive by itself. `HoldsInv`
adds to them:

- `Phases`: a thread's position agrees with its call;
- `HoldsInCalls`: a `ScopedHold` lives inside the call that took it, and only the
  donation hold being waited for is not among the arguments already passed.
  Without it a confirmed donation could belong to a thread that has left;
- `ValidIsOwned` and `DrainsAlone`: a `Release` that has taken `device_buffer_` and
  waits for usage holds is the only one, and the memory is still there. This is
  what makes giving the mutex up twice in `Release` harmless;
- `TakenWhenNotOwned`: the count `taken` agrees with who owns the memory.

Two lemmas say that `AddHold` and `RemoveHold` change the counter and the set of
holds together; one lemma per action follows. From it: `TypeOKTheorem`
(no hold count becomes negative), `HoldsAreCountedTheorem`, `HoldsProtectTheorem` (exclusive donations,
convertible usage holds, no donation of shared memory), `MemoryTakenOnceTheorem`
(neither a second `Release` nor a second donation takes the memory again) and, with `ReservationInv`, `ReservationsTheorem`.

`RendezvousProofs`, from `GroupAssumption` (at least two threads) and
`MaxCallsAssumption`. `RoundInv` says that the state is in one of two modes.
*Gathering* (no result): `values` is exactly the arguments of the waiting threads,
all of round `runs + 1`, and somebody is missing. *Handing* (a result): `values`
is empty, nobody has returned with the result of this round, and somebody still
waits for it. The modes are what separates rounds: a thread that runs ahead finds
the state gathering again. The use count needs a cardinality argument, that the
pointers to the current result are those of the threads in `result_taken`.
Results: `TypeOKTheorem`, `RoundsAreSeparate`, `UseCountTheorem`, and
`ImplementsTheorem`, the refinement of `RendezvousContract` under the mapping
`inside`, `ret` given in `Rendezvous`.

`AsyncTransferProofs`, from `AsyncAssumption` (finitely many buffers). `TransferInv`
says where the items of every transfer are. `LastIsFinal`: nothing is accepted into
a buffer after its last transfer, which is why a literal may wait in the pool
without being overtaken by a later copy. `CopiesOnStream`, `CallbacksOnStream`,
`ItemsOnce` and `UncopiedOnStream`: the stream holds exactly the copies and
callbacks that are still to be executed. `CallbackAfterCopies` and `CopiesInOrder`:
a callback is behind every copy into its buffer up to its own, and copies into one
buffer stand in the order of acceptance. From these, a `CleanUp` that records a
definition event runs when nothing is left to copy
(`DefinedAfterTransfersTheorem`), and the copy at the head of the stream is the
oldest into its buffer (`CopiedInOrderTheorem`). `Counts` and `RecordedByLast` say
what the two counters count and that `buffer_ptrs_` is dropped with the definition
event; they give `BufferOutlivesTransfersTheorem`, `CleanUpIsSafeTheorem` and
`TypeOKTheorem`. The argument needs cardinalities, of pending transfers and of
undefined buffers, but no bound on either.

`DeviceBuffersProofs`, from `ModelAssumption`, `BoundsAssumption` and
`OpsAssumption`, for every allocation model and every set of operations. `DeviceInv`
is the conjunction of

- `Typed`, `TasksFit`, `CallsFit`, `Numbered`: what the variables hold, that tasks,
  borrowed streams and calls refer to buffers that were made, and that new buffers
  are numbered in order;
- `HoldsFit`: a donated argument of an execution that waits is live and no other
  call has it; the other arguments are live, or a `Release` waits for them;
- `Owning` and `OneOwner`: a live buffer owns its memory, and memory has one owner
  among the referenced buffers and the callbacks that give it back;
- `DependenciesFit`: the event of a control dependency is the first definition event,
  unset until the dependency is resolved.

The argument for `OneOwner` has two halves. No reference comes from nothing: every
task, callback and borrowed stream that a step adds refers to a buffer that was
alive before (`AliveStays`), so an owner that nobody refers to never comes back when
its memory has been handed out again. And the memory of a new buffer is free, or is
that of a donated argument (`OwnerTaken`), which `HoldsFit` says is live and owned and
which owns nothing after `ConfirmDonation`; if the output does not take it, it goes to
the callback. Results: `OneOwnerTheorem`, `TypeOKTheorem` (with `GetDefinedStatus`'s `CHECK`: a task that left the deferred
state finds a status).

`ReadyAfterDependencyTheorem` says that a ready future speaks the truth: all definition
events have completed and the dependency is resolved. Events complete in one place and
are set again in others, so it needs a second invariant, `DefinedInv`, on top of
`DeviceInv`: definition events belong to buffers that were created (`DefinitionFits`);
the event of a write still to be enqueued is not done and on no stream (`WriteAhead`),
and one task will enqueue it (`OneWriter`); a borrowed stream waits for every event that
was not done (`WaitFits`). Hence no completed definition event is ever set again. Its
steps are described by what they set (`EventsOf`), define (`BuffersOf`), leave to be
written (`WritersOf`) and promise (`FuturesOf`), and `DefinedStays` puts these together.

`DeviceOrderProofs`, from the same assumptions. Client calls return before their work
is done, on as many streams as there are kinds of transfer and devices, and only events
and references order that work. The theorems say that this order is enough:
`AccessesAreSafeTheorem`, `ReadsSeeContentsTheorem`, `ReadyKeepsContentsTheorem`,
`LetGoIsQuiescentTheorem`, and `TasksHaveMemoryTheorem`: an execution confirms a
donation only when the transfers that were given to the pool before it have looked
the memory up.

An operation is a *place*, a stream and a position in its queue. A *cut* (`Cut`) says
how far each stream may have come: who has passed a wait has waited for the operation
that sets its event. One place precedes another (`Precedes`) when every cut that
contains the second contains the first. That makes the order transitive and kept by
whatever is added (`PrecedesThen`, `LongerPrecedes`) without an induction over chains
of waits; when a stream takes its head, places shift and the order stays
(`TailPrecedes`); and nothing precedes an access that a stream can take now
(`HeadPrecedes`), which is how order becomes absence of a race. `OrderInv` is
`DeviceInv` with two parts:

- `Bookkeeping`: an event is set by one operation, once, on the stream it was recorded
  on; a transfer given to the pool (a *job*) still has its event to set, alone; usage
  events name the streams of their events; who will use memory owns it and its write
  is recorded, failed, or a job's;
- the order. `NumbersGrow`: the sequence numbers of a stream's events grow along it,
  so that `AddUsageEvent`, which keeps the later of two, loses nothing. `OnFits`:
  `streams_defined_on_` is right, an event is set before the end of every stream it
  names, so that leaving a wait out is harmless. `UsesCovered`: every queued use of a
  buffer precedes the operation of one of its usage events (or is a copy whose call
  has not returned), which is what `Delete`, `Release` and a donation rely on.
  `UsesKept`: behind every queued use something still owns the memory, a callback, or
  in `kComputeSynchronized` a borrowed stream, the compute stream or a usage event
  that `Delete` will find. `HoldersFollow` and `JobsFollow`: the write of a buffer is
  behind all other uses of its memory, or will be when it is enqueued. `UsesFollow`:
  reads come after the write of what they read, and two uses of one memory cell for
  different buffers are ordered. `OutIsQuiet`: memory that was handed out has no uses.

Most actions are one of three kinds of step: one that enqueues no access (`MildInv`),
an access enqueued behind its waits (`LaunchInv`, `TransferInv`), or a stream that takes
its head (`StreamStepOrder`). `NextOrder` puts the lemmas on the actions together.

The hypothesis is `Supported`: nobody donates with a control dependency ("control"),
and outside `kComputeSynchronized` nobody copies between devices or donates a buffer
that carries an error ("copy", "donate_error"). It restricts what clients call, not the
runtime, and it is there because the properties fail otherwise: `donated_read` shows
it for "control", section 6 names the other cases. Every run that checks one of these
properties and passes satisfies it. `LetGoIsQuiescentTheorem` also excludes
`kComputeSynchronized`, in which memory may be allocated while queued work uses it: an
error buffer has no write that would be behind that work, and can be released. (When
clients make no error buffers, TLC finds no violation there with three buffers in one
cell; this is not proved.)

`NcclCliqueProofs`, from `ProgramAssumption`: any runs, ranks, cliques and programs.
`NcclInv` has three layers.

- `CliqueInv`: the threads that share a clique's `Lock` are those between the
  rendezvous and the lock of their communicator, all of the run that acquired it
  last; while the clique is not ready, every rank without a communicator is on its
  way, and when all have one, somebody is about to notify. It gives
  `CliqueWholeTheorem`.
- `HistoryInv`: nobody has locked a communicator of a clique that is not ready or has
  failed; a thread fails with its group or with the clique; the history of a
  communicator holds exactly the collectives its rank has come to, in program order.
  It gives `AllOrNobodyTheorem`.
- `OneGroup`: without `may_skip_rendezvous`, the histories of all ranks have the same
  length when the clique is free, and while it is shared those who have locked are
  ahead by exactly the collective the others are about to lock. It gives
  `SameOrderTheorem`.

`SameOrderTheorem` assumes that no two runs share a clique whose rendezvous may be
skipped (`OneAtATime`). That is no restriction for the other cliques, of which
`SameOrderOneAtATimeTheorem` states it without the assumption; for the P2P cliques it
is needed, because a thread of one run may skip while another run is granted the
clique (section 6). Further: `TypeOKTheorem`, `OneHolderTheorem` (mutual exclusion on
a communicator) and the action property `ReadyIsFinalTheorem`, which rests on
`CliqueInv`: a thread that has looked at `ready` and is in `ncclCommInitRank` has no
communicator yet, so the clique cannot become ready before it returns.

`ArenaCopyPlanProofs`, from `SizeMaxAssumption` alone. The plan sorts (a `CHOOSE`)
and merges (a fold), so what it does to any number of ranges is an induction over
data. It is done by the least number for which the claim fails: natural numbers are
well-founded, and the least failing prefix of the fold is one step from a prefix for
which the claim holds. `CopyPlanTheorem` is the reference definition `CorrectPlan`
for every arena, finite set of dirty ranges and limits.

`HostBufferReuseProofs`, from `ReuseAssumption`. `ReuseInv` (`Shape` and `Layout`)
says how entries, buffers and calls fit together and where slots lie:
`CachedViewTheorem`, `SlotsAreApartTheorem`, `TypeOKTheorem`. With `CopyPlanTheorem`
and the layout, a flush that succeeds brings every pending slot to the device, and
the same for slots cut by the limits; hence `ValidSlotsTheorem`, for every semantics
and option. `DataInv` adds where the data of each buffer is. It holds when the base
client has the data as soon as its call returns, so `BuffersAreBackedTheorem` assumes
`ZeroCopy` (`kZeroCopy` and no forced copy). `ReadsSeeHostDataTheorem` also excludes
the two client calls for which the code does not give it: reading a packed slot back
before it is flushed, and executing without completion events. The run
`host_reuse_staged` shows what happens without `ZeroCopy`, section 6 names the others.

Only model-checked:

- all liveness properties (fairness and ENABLED are outside the prover);
- `CopyPlanIsCorrect` as the run states it, over enumerated inputs; the definition it
  enumerates, `CorrectPlan`, is what `CopyPlanTheorem` proves for all inputs.

The proofs changed the model in one place: `AddUsageEvent` was a `CASE` with
overlapping guards, of which the first is meant and TLA+ lets any be chosen; it is a
chain of `IF`s, as in the code.

## 5. Disagreements between code and its own text

- `holds_repeated_use`. client.cc:1400-1402: "No new usage holds can be added until
  we drop the donation hold so this wait will complete eventually". A thread that
  has a usage hold on a buffer and asks for a second one for a later argument waits
  for the donor, which waits for it.
- `donated_read`. `tracked_device_buffer.h:49-50` wants donation sequenced after all
  reads. `DonateWithControlDependency` builds the new buffer with definition events
  only; deleting it frees memory that a copy to the host still reads.
- `dependency_error`. `pjrt_client.h:1210-1211`: "If either 'this' or 'dependency'
  transitions to error, then the returned buffer will transition to error." The callback
  at client.cc:743-755 does not look at the status it is given, and the returned buffer
  becomes ready with OK.
- `host_reuse_staged`. `pjrt_c_api.h:740-741` wants the work that materialises a view
  on its stream. The plugin's view of a pooled buffer depends on the wait for
  `done_with_host_buffer`, which with the forced staging copy ends before the
  transfer does.

## 6. Behaviour seen while modelling, outside the runs

The models reproduce most of these when an instance lets clients do it, which the
passing runs do not; the others follow from the code by reading.

The StreamExecutor client:

- A copy of an error buffer to another device never gets a recorded definition
  event, and `Delete` of the copy does not return (client.cc:1355).
- A copy that was scheduled before `DonateWithControlDependency` and runs after it finds
  `device_memory_` empty, and `AsShapedBuffer`'s `CHECK` ends the process
  (client.cc:1526, `tracked_device_buffer.cc:168`). `CheckFails` in `DeviceBuffers`.
- A copy to the host that fails early (client.cc:1512, 1518) leaves a usage event that is
  never recorded. An execution that donates the buffer waits for it for ever
  (client.cc:2195) and keeps the donation hold, so that `Delete`, which
  `pjrt_stream_executor_client.h:648` says "may briefly block", does not return (1309).
  `ExecuteHangs` in `DeviceBuffers`.
- A task that reads a buffer donated with a control dependency, whose other definition
  event carries an error and is never recorded, keeps its pool thread for ever
  (`PoolHangs`).
- Under `kSynchronous`, the destination of a deferred copy can be freed before the
  copy is enqueued (client.cc:1704); with a control dependency, `Release(true)` does
  not wait for the definition (client.cc:1325).
- Under `kSynchronous`, an execution that donates an error buffer does not wait for
  its definition and runs on unwritten memory (client.cc:2517). An execution that
  only uses one waits for ever (client.cc:2196).
- Under `kAsynchronous`, a device-to-device copy can race with later uses of its
  memory, donations included (client.cc:1704, 2516), unless the device's runtime
  orders frees itself, which the model assumes only for its own streams. Without
  copies and donated error buffers there is no race (`AccessesAreSafeTheorem`).
- Under `kComputeSynchronized`, `Release(true)` of an error buffer may hand out memory
  that work queued earlier still uses: its usage events, which are all the call waits
  for, know nothing of that work (client.cc:1325).
- `definition_events()[0]` is read without looking whether there is one
  (client.cc:1550). `streams_defined_on_` holds raw stream pointers, which a pool
  stream may come to share with one dropped after a failure
  (`tracked_device_buffer.cc:68`).

Collectives:

- The thread that checks for asynchronous errors holds `all_communicators.mu` while
  it waits for a communicator, whose holder may be in a blocking first call and
  wait for a peer that needs that mutex to publish its own communicator: a
  deadlock (`CheckDeadlock` in `NcclClique`; `CallsReturn` excepts exactly it).
- With `may_skip_rendezvous`, two runs of one P2P clique can split a group between
  those who skip the rendezvous and those who wait in it (`nccl_utils.cc:170`). The
  run gives the P2P clique to one run.
- A communicator may be used after the error thread aborted it
  (`nccl_utils.cc:214`); a failed launch on one rank leaves the others waiting on
  their devices (`nccl_collective_thunk.cc:250`); `done_events_` of an asynchronous
  collective is keyed by the device alone, so two runs of one executable replace
  each other's event (`nccl_collective_thunk.cc:299`).
- CPU collectives: the deleter of `RefcountingHashMap` uses a reference to the key
  inside the map it erases from (`refcounting_hash_map.h:84-92`).

The transfer manager (`se_gpu_pjrt_client.cc`):

- Nothing makes the host-to-device stream wait for the compute stream before it
  writes into a fresh allocation (client.cc:387). `DonateWithControlDependency` may
  empty `device_memory()` between the check under `mu_` and its use in the pool (221).
- A refused call still sets `last_transfer_started_` (218), after which the buffer
  can only be given up with `SetBufferError`. The `CHECK` of `SetBufferError` lets it
  through when the last transfer is already on the stream (353).
- `on_done` is called after the definition event is recorded (412), though
  `pjrt_client.h:651` promises before; destroying the manager in `on_done` waits for
  the very stream that runs it (173).

The plugin:

- Only `Execute` flushes, so a read of a packed buffer sees the old slot;
  under weaker semantics than `kZeroCopy` a second transfer changes the first
  buffer; without `device_complete_events` the next transfer may overwrite what the
  program reads; after a failed flush a retry runs on stale slots.

## 7. Not modelled

Of the modelled components: zero-copy host buffers, tuples, send and receive
callbacks, cross-host copies, event and stream reuse after failures, external
streams; cliques that fail after their initialization and the point-to-point
thunks' own logic; in the plugin, parallel packing, several devices, the compile
proxy and the compatibility switches that bypass `Destroy`. Whole components are listed in
`PROJECT.json` with the reason: compilers and passes (semantic equivalence of tensor
programs), generated and generating code, driver bindings (streams are modelled as
the FIFO queues their users rely on), argument marshalling, the vendored
coordination service.

## 8. Plan

Done so far, in this order: the hold protocol, streams and memory, the rendezvous
and its contract, the plugin's reuse layer; then the clique (against the
contract), the transfer manager with its theorems, and the reference definition of
the copy plan; then the theorems on the clique, the copy plan, the reuse layer and
the ownership of device memory; then those on the order of the streams.
Left, most important first:

1. `LetGoIsQuiescent` in `kComputeSynchronized` for clients that make no error buffers,
   and the order of the streams with copies in `kSynchronous` whose destination is not
   deleted while the copy is deferred.
2. `RefcountingHashMap` with the CPU collectives' `Rendezvous`: the deleter that waits
   for the mutex against get-or-create; a second refinement of `RendezvousContract`.
3. The TFRT CPU buffer, as a second implementation of an abstract hold protocol that
   `BufferHolds` refines too.
4. Infeed and outfeed queues; trackers and `StreamPool`.
5. Non-overlap of live chunks in the heap simulator, over all small inputs.
