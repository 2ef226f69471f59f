# TLA+ models of MLIR-AIR

MLIR-AIR is a compiler for the AIR dialect: programs made of launches, segments,
herds and the channels between them, mapped onto AMD NPUs, GPUs or the host CPU.
Most of the repository rewrites IR. The parts that can go wrong in ways a test
hardly reaches are the ones that run: the channel runtimes, the multi-process GPU
runtime, the performance simulator, and the cache of compiled kernels and device
buffers under the LLM examples. This directory models those, checks them with TLC
on small instances and proves the main results with TLAPS for every value of the
constants.

## 1. Inventory

| Component | State | Operations | Interacts with | Correct when |
|---|---|---|---|---|
| aircpu channels (`runtime_lib/aircpu/channel.cpp`) | per channel declaration an array of pointers, per element a `channel_t`: mutex, condition variable, token count, buffer | `put` (allocates on first use), `get` | threads of the LLVM async runtime, shared memory | one-place broadcast channel: nothing lost, overwritten or read too often; everybody finishes |
| AIR-to-async lowering (`AIRToAsyncPass.cpp`) | none at run time | fixes the table, the sizes and the index order of each put and get | aircpu channels | indices select the channel they name |
| airgpu socket mesh (`fd_passing.cpp`) | listener, a socket per peer | connect with retry, accept, send, receive | one process per GPU, AF_UNIX sockets | full mesh or nobody proceeds |
| airgpu symmetric heap (`symmetric_heap.cpp`) | mapped peer heaps, sockets, bump offset | constructor, `barrier`, `allocate`, destructor | mesh, HIP driver | every heap mapped on every rank when a constructor returns; `barrier` is a barrier |
| airgpu allocators, `mgpu*` (`vmem_allocator.cpp`, `gpu_runtime.cpp`) | bump offset, list of allocations, two globals | allocate, free, init, destroy | HIP driver | ranges disjoint, inside the heap, the same offset on every rank |
| GPU cacheline channels (`AIRGpuChannelToCachelinePass.cpp`) | 32 words in a peer's heap | 31 payload stores and a flag store; spin on the flag | symmetric heap | a get sees the payload of its put |
| AIR runner (`Util/Runner*.cpp`) | a wavefront per runner node, pools of tiles and ports, channel progress and tokens, time | free links, execute finished ops, admit ready ops, advance time, detect a stall | dependency graphs, cost model | no tile promised twice; nobody overtaken; a program that can finish does; a latency is reported only for a complete simulation |
| kernel cache (`llms/shared/infra/cache.py`) | per process an ordered map of open contexts, per cache its backends, artifacts and buffer objects; on disk binaries and a manifest | compile and save, load the manifest, load and run with eviction | XRT device shared with other processes, garbage collector, toolchain, disk | open contexts are those listed, the oldest is evicted, a launch has its context, no stale binary is served; the code keeps the first up to a Ctrl-C between two updates, and the last while no toolchain comes back (section 3) |
| Llama 3.2 1B session (`llms/llama32_1b`) | preloaded weights, KV cache, prompt loop | prepare, prefill, decode, Ctrl-C | two kernel caches | every token is computed from its own prompt, position and weights |
| SmolVLA vision runtime (`llms/smolvla`) | warm-up flag, chained device buffers | warm up, encode chained or with host attention | one kernel cache | every image's features are its own; not so for a chained image after a first image with host attention (section 3) |
| airhost HSA runtime (`runtime_lib/airhost`) | active segment and herd, queue indices, signals | dispatch, wait, `air_wait_all` | HSA queue and device | waits for every signal; no slot reused too early |
| PCIe ERNIC, network | device registers | RDMA set-up and transfers | device | that of the hardware interface |
| dependency analysis and scheduling passes | IR | graph construction, canonicalisation, rewriting | all later passes | every data dependence kept |
| AIE, NPU, ROCDL, LLVM lowerings | IR | allocation of DMAs, locks, flows; rewriting | device tool chains | semantics kept |
| placement, tiling and other transforms; dialects | IR | sequential passes, verifiers | - | semantics kept |
| Python API, XRT back end, aircc | tool processes, a loaded context | build, compile, load, unload | XRT, kernel cache | as the kernel cache uses it: a context is open between load and unload |
| other programming examples | none at run time | build IR, compile, compare with numpy | Python API | the numerics the examples test |

What is hard here: threads that race for the allocation of a channel and for its
anonymous broadcast tokens; a condition variable shared by puts and gets; a
collective constructor that runs in several processes, of which any may start late,
give up or die, and which checks few of its sends and receives; a barrier that must
not hang or let anyone through when a peer dies; in the runner, resources tested in
one place and taken in another, channel operations that are dispatched in rounds,
and a main loop whose normal end looks like a stall; in the inference sessions,
contexts that any call, other process or garbage collection may close, two tables of
them that a Ctrl-C can leave apart, buffers bound for good by whoever comes first, a manifest
rewritten while the process may die, host weights that are freed once they are on
the device, and arrays that are views of buffers the next call overwrites. `PROJECT.json` lists these hazards with the line where each bites, the
components above with their status, and the map from definitions to source lines.

## 2. Modules

| Module | What it is |
|---|---|
| `AirChannel` | abstract: one-place channels whose transfers are read by `Fanout` gets; TLC runs it through `AirCpuChannel`, which instantiates it |
| `AirCpuChannel` | the CPU runtime's puts and gets at the grain of single shared accesses; implements `AirChannel` |
| `AirGpuBarrier` | `SymmetricHeap::barrier()`, repeated calls, crashes, destructor |
| `AirGpuMesh` | the collective constructor: `setupFdMesh` and `establishPeerAccess` |
| `AirRunner` | the performance simulator: scheduling loop, tiles, ports, channel progress |
| `AirKernelCache` | hardware contexts of `KernelCache`: hit, miss, cap, eviction, collection, restart |
| `AirKernelStore` | binaries and manifests on disk: compile, save, load, crash, change of toolchain |
| `AirInference` | composes the two above with buffer objects and the calls of the Llama session and the vision runtime |
| `AirChannelProofs`, `AirCpuChannelProofs`, `AirGpuBarrierProofs`, `AirGpuMeshProofs`, `AirRunnerProofs`, `AirKernelCacheProofs`, `AirKernelStoreProofs`, `AirInferenceProofs` | theorems and proofs, one module per component |
| `MC*` and `*.cfg` | instances for TLC |

Definitions named `Mut...` are single-definition mutations, each the kind of slip
the code next to it could contain. No specification uses them; substituting one for
the definition it is named after makes the property paired with it in
`PROJECT.json` fail, which shows that the property depends on that code.

### 2.1 AirChannel

`slot[c]` is the transfer channel `c` holds, `left[c]` how many gets may still
read it, `rcv[m]` which gets received transfer `m`. `Put` waits for `left[c] = 0`,
`Get` for `left[c] > 0`. This is what `docs/AIRComputeModel.md` promises of a
channel of depth 1, and what `channel_t` is meant to be.

### 2.2 AirCpuChannel

The lowering turns a channel declaration into a global array of 64-bit pointers
initialised to 0 and passes its shape and its broadcast shape to each put. State
and code correspond as follows.

| Variable | Code |
|---|---|
| `data` | `channel->data[]` |
| `token`, `buf`, `mtx` | `channel_t::token`, `::data`, `::mtx`, for the `channel_t` that thread `t` allocated for element `i` |
| `pc`, `ip`, `ai`, `chan`, `dst` | program point, operation, allocation loop counter, local pointer, copied data of each thread |
| `rcv`, `status` | history of deliveries; `exit` and crash of the process |

An operation is the sequence `start` (divisibility check, look at `data[0]` or spin
on it), `alloc` (one turn of the loop per step), `resolve` (index and
load the pointer), `lock`, `test` (the predicate of `cv.wait`, which blocks and
unlocks in one step), `copy`, `finish` (token, `notify_all`, unlock). `resolve`
crashes the process when the pointer is still 0 or the index is out of range,
which is what the next statement does. A thread blocked in `cv.wait` may wake
without being notified. Payloads are abstracted to the identity of the put they
come from; element types, strides and sizes are left out. Programs are
straight-line: loops and async regions of the IR only decide which operations a
thread performs, and the proofs quantify over all programs.

### 2.3 AirGpuBarrier

`net[p][q]` counts token bytes in the socket from `p` to `q`. Each rank walks its
peers in the order of `fd_mesh_` (an ordered map) and performs two half exchanges
with each, the lower rank sending first. A receive takes what is in the socket even
when the sender is gone; on an empty socket with a gone sender it fails, and the
rank aborts. The destructor closes the sockets without a barrier. Any rank may
crash at any point.

### 2.4 AirGpuMesh

One constructor per rank: bind and listen; connect to every lower rank, with a
bounded number of attempts, and send the own rank; accept a connection from every
higher rank and read its rank; then four loops over the peers: base addresses,
barrier, heap records (a count, then offset, size and fd), barrier. The model keeps
two things the code does quietly. Outside `barrier()` the results of sends and
receives are not checked, so a failed exchange is skipped and the rank goes on
(or dies of `SIGPIPE`, if the host program has not ignored it). And a client that dies between connecting
and sending its rank is filed under rank 0, because `peer_rank` keeps its initial
value, replacing the socket of rank 0. A heap record is one message: a receiver
that gets only part of it fails its import and aborts, as if it had got none.
A comment in `fd_passing.h:28` says that lower ranks connect to higher ones; the
code does the reverse, and so does the model. The barrier is modelled twice: here
inside the constructor, with the irregular meshes that failed set-ups produce, and
in `AirGpuBarrier` on a complete mesh with repeated calls.

### 2.5 AirKernelCache

| Variable | Code |
|---|---|
| `ctx` | `KernelCache._contexts`, class-level, least recently used first; entries of collected caches included |
| `loaded`, `alive` | the keys of `_loaded` of each cache; the caches that have not been collected |
| `cap` | `max_contexts`, from `AIR_MAX_HW_CONTEXTS` |
| `pc`, `cur`, `back`, `freed`, `victim` | where the call of `load_and_run` is, its kernel; the caller of `_release_lru_context`, its local and the entry it has popped |
| `lost` | history: what a Ctrl-C left in `_loaded` and not in `_contexts` |
| `older` | history: the pairs of open contexts of which the first was last used before the second, against which eviction is judged |

`Begin` is the look-up, `KeepUnderCap` the loop that keeps to the cap, `Return` the end
of the call. The two tables of open contexts are never updated together. To close one,
`Release` pops its entry from `_contexts` (and takes a reference to its cache, or skips
a dead one) and `Unload` takes the backend out of `_loaded`; `ReleaseNothing` is the end
of `_release_lru_context` without a victim. To open one, `LoadSucceeds` records the
backend and `ListContext` adds its entry; `LoadFails` and `LoadRaises` are the other
outcomes of `backend.load`. A load may fail although the process itself has contexts to
spare, since other processes hold some; it can succeed only while this process has
fewer than `DeviceLimit`. `Collect` and `Purge` are the garbage collector and the
weakref callback, `Interrupt` is Ctrl-C; all three may come between any two of these
steps. An interrupt between the two updates leaves a kernel loaded and not listed
(`Unlisted`): the next call on it raises `KeyError` in `move_to_end`, which nobody
catches, it is never evicted, and the cap does not count it. `ContextsAgree` says that
this is the only way the tables come apart, and `lost` exactly what is affected. A
backend's `load` and `unload` are `XRTBackend`'s, modelled by what the cache relies on;
a signal between `_loaded.pop` and `unload()` drops the last reference to the backend,
whose `__del__` unloads it. `max_contexts` is per cache in the code and one value here:
every cache takes it from the same environment variable.

### 2.6 AirKernelStore

`bin[d][k]` is the toolchain that wrote the binary of kernel `k` in directory `d`, or
that it is missing or half copied; `manifest[d]` is `manifest.json`, which is empty
between `open(..., "w")` and the end of `json.dump`. A process opens the directories
of its plan one after another in the mode its command line chooses: compile, compile
only (the process then ends), run only (the result of `load_manifest` is ignored), or
ensure (compile unless complete).
It may die at any step. While it is down the toolchain may change and binaries may be
deleted. Toolchains are chosen by path, environment or installed package, and their
identities are compared for equality; `Rollback` says whether an earlier one may come
back (`toolchain_back`) or not (`inference` and the proofs).

### 2.7 AirInference

The two modules above, together with `load_and_run` once the backend is there: the
buffer objects of a `bo_key` are allocated on its first call (`Bind`), with shared
pools and aliases; inputs are written, static ones only the first time
(`WriteInputs`); the kernel runs and its output is read back, as a view or a copy
(`Launch`). Above it, two programs as sequences of calls: the Llama session prepares
(it preloads weights layer by layer, then frees their host arrays), answers prompts
with a prefill and decode steps and survives Ctrl-C; the vision runtime encodes images
chained through device buffers or with host attention. `warmup()` is a method its
caller may or may not use (`Warmup`), so the first image may be of either kind, and
`hostFirst` records that it went through the host attention without a warm-up. `out` is
the result with the task, request and token it was handed out for. A program is
a sequence in closed form (`LayersThen`: the calls of layer `l` are at places that
arithmetic on `l` gives), and the inputs of a call are copied by one `Put` each, so
that both can be reasoned about for any number of layers without recursion.

A tensor is abstracted to its provenance `<<stage, request, token, layer>>`. A kernel
called with anything but the operands of one layer of one token, or with another
layer's weights, computes `Junk`, so any buffer that is stale, overwritten or never
written shows up in the result. Which of Q, K and V an operand is, sizes and data
types are left out. A third cache, `other`, stands for the caches the process uses
between requests and lets go.

### 2.8 AirRunner

A program is a record: runner nodes (launch, segment, herds) in the order of the
scheduling loop, the vertices of their dependency graphs, tiles, ports and the
fan-out of each channel. `pass`, `phase` and `queue` say where the loop is: for each
node `processGraph` frees links whose occupancy has ended (`FreeLink`), executes what
has finished (`Execute...`) and offers the ready candidates the hardware (`Offer...`,
`AdmitHerd`, `RefuseHerd`, `Dispatch`, `Defer`); a second push over all nodes follows,
then time advances or the loop ends with a verdict. `taken`, `hiers` and `busy` are
the reserved tiles and ports, `moved` and `held` the two halves of
`channel_ops_in_progress`, `tokens` is `channel_token_counts`. `total` is history.
The order in which a graph walk finds the ready vertices is left open, except that
herds are offered tiles by first ready time, as `sort` leaves them. The unsigned
subtraction of `getRemainingDispatchesForDynamicDispatch` wraps at `UIntMod`, which is
2^30 in the run, because TLC's integers have 32 bits, and stands for 2^32.

## 3. Runs

Passing runs:

| Run | Instance | Shows |
|---|---|---|
| `chan_pairs` | 3 threads, 9 operations, array 1x2, broadcast 2x2 | exclusion and the wait predicates, exact delivery, right element, no crash, no orphaned transfer, refinement of `AirChannel`, termination; `IndInv` is the invariant of the proofs |
| `barrier` | 4 ranks, 2 barriers, any ranks crash | no early return, exact token counts, no abort without a crash although destructors do not synchronise, no hang |
| `mesh` | 3 ranks, 1 retry, any ranks crash | all heaps mapped on both sides whenever a constructor returns, streams in step, set-up completes unless a rank crashes or gives up; in the end every rank has returned or ended, or waits for ever because of an `accept()` short of a lost rank: in it, or in a chain of receives from live ranks that ends there |
| `runner` | 45 programs in 6 shapes after `mlir/test/Util/Runner`: a pipeline of broadcasts, gather and scatter through few ports, a broadcast to two herds, herds that contend for tiles, an unbalanced channel | tiles sound, no overtaking, both books of a channel agree, a latency only for complete simulations, every simulation ends with the verdict its program calls for; a simulation that has ended does nothing more, so deadlock is not checked |
| `inference` | both programs (Llama compiled beforehand or with old files, vision compiled beforehand or on demand), 2 layers, 2 requests, 1 decode step, room for 2 contexts, cap 0 or 1, 2 toolchains of which the older never comes back, crashes and Ctrl-C anywhere | contexts agree with their list (but for what a Ctrl-C lost) and their cap, a launch has its context, the oldest is evicted, no binary of another toolchain is served, every open context runs a whole binary of the toolchain in use, every result is that of its request and token (but for a chained image in a process whose first image went through the host attention), every call ends |

Runs that refute a statement of the repository (each is a finding in
`PROJECT.json`, with the quotation):

| Run | What TLC shows |
|---|---|
| `chan_broadcast_steal` | broadcast tokens are counted and not assigned: a fast destination takes another's share |
| `chan_oblong` | put and get linearise indices with different strides; on a 2x3 array they meet on the wrong element |
| `chan_early_get` | a get passes the test of `data[0]` while the first put is still allocating the other elements |
| `chan_two_putters` | two concurrent first puts both allocate, and a transfer is left where no get can find it |
| `runner_unbalanced` | an op behind an unbalanced get that has a second, retired, operand starts anyway, and a latency is reported for a simulation in which the put never completes |
| `toolchain_back` | compile with toolchain 1, change to 2, die after one binary was copied, go back to 1: the manifest's stamp matches and the binary of 2 is served (`cache.py:475`) |
| `vision_unwarmed` | `encode(attn_mode="cpu")` on a runtime that was not warmed up binds each layer's buffers without the chain's aliases; the next, chained, image reads the first one's attention and residual from them and gets its features (`smolvla_vision_encoder.py:1003`) |

**Why the bounds are enough.** In `chan_pairs` there is a channel with two elements
(the allocation loop has an interior), a fan-out of two (tokens are
partly consumed), two puts on one element (a put waits for a slow reader)
and one producer per element; the program orders its first puts by a data
dependence, so it stays clear of the races the refuting runs are about. Two
barriers let tokens of one call meet those of the next; four ranks give chains of
waits in both directions with a rank strictly in between. Three ranks are the
fewest with one that both connects and accepts; one retry gives success at once,
success after failure and giving up. Crashes are not bounded in number.
`MaxAttempts` is 1000 in the code, `MaxCalls` is the program's. In `inference` two
layers tell a layer's buffers from the next one's, and give the chained encoder both
its ping-pong buffers; a device with room for two contexts is smaller than any pass
over a model needs, so contexts are evicted between all calls, and a cap of one does
so within a call; two requests show what the first one leaves behind; two toolchains
and crashes at any step give every mixture of old and new files. Only the last kernel
of one directory and a middle one of another may be deleted (`Deletable`), which
covers a missing entry after and between present ones. The two
refuting runs of `AirInference` are cut down to what they need: one layer, and
no request at all or a device with room for every kernel. In `runner` costs 1 and 3 and
link latencies 0 and 2 give every order of end times; two and three instances over
one or two ports give rounds that do and do not fill the ports. Named bounds:
`MaxCalls`, `MaxAttempts`, `MaxRequests`, `MaxTokens`, `MaxTool`, `Deletable`, and the
programs of `MCAirCpuChannel` and `MCAirRunner`.

**Fairness.** A thread or process that can take its next step eventually does (weak
fairness per thread or rank): they are OS threads and processes. For the mutex of
a channel, strong fairness on `Lock`: a waiter that wakes spuriously over and over may take
the mutex each time another thread looks at it, and only a mutex that does not
starve its waiters, which the platform's is taken to be, rules that out. Spurious
wake-ups and crashes are never required. In
`AirInference` the program is one thread that keeps running: weak fairness on `Work`,
its own steps; prompts, Ctrl-C, crashes, collections, changes of toolchain and the
use of the other cache are never required. The simulator is one thread too: weak
fairness on `Next`. Nothing else is assumed; in particular a peer need not start in
time, and a load need not succeed.

## 4. Proofs

| Theorem | Statement |
|---|---|
| `ChannelDeliversExactly` | with `Sizes`, `AirChannel!Spec => [](TypeOK /\ HeldOnce /\ ExactFanout)` |
| `CpuChannelInvariant`, `CpuChannelSafe` | `AirCpuChannel!Spec => []IndInv`, and with it `[](TypeOK /\ CriticalSection)` |
| `CpuChannelRefines` | `AirCpuChannel!Spec => ImplementsAirChannel` |
| `CpuChannelDelivers` | with shapes the runtime accepts (`Divisible`), `Spec => []ExactFanout` |
| `OnePutterReachable` | if one thread executes all puts, `Spec => []UnreadIsReachable` |
| `SquareArraysSelect` | on square and one-row arrays with indices in bounds, `Spec => []SelectsElement` |
| `OneElementStaysUp` | on arrays of one element, `Spec => []StaysUp` |
| `BarrierIsBarrier`, `TokensExact` | `AirGpuBarrier!Spec => [](TypeOK /\ BarrierHolds)`, `Spec => []IndInv` |
| `DestructorsAreSafe` | `AirGpuBarrier!Spec => []NobodyAborts` |
| `MeshTypesHold` | `AirGpuMesh!Spec => []TypeOK` |
| `HeapsAllMapped` | `AirGpuMesh!Spec => []AllMapped` |
| `StreamsInStep` | `AirGpuMesh!Spec => []InStep` |
| `RunnerTypesHold` | `AirRunner!Spec => []RunnerTypeOK` |
| `ChannelBooksAgree` | `AirRunner!Spec => []BooksAgree` |
| `TilesNeverShared` | `AirRunner!Spec => []TilesSound` |
| `HerdsKeepTheirPlace` | if no herd depends directly on a put or get, `AirRunner!Spec => NoOvertaking` (an action property) |
| `ScalarRunsDrain` | `AirRunner!Spec => [](Scalar(prog) => Drained)`: `LatencyHonest` but for the ports |
| `LatencyOfScalarPrograms` | `AirRunner!Spec => [](Scalar(prog) /\ NoFlight(prog) => LatencyHonest)` |
| `CacheInvariant`, `ContextsSafe`, `CapHolds`, `LaunchHasContext` | `CacheSpec => []CacheInv`, and with it `ContextsAgree`, `Capped`, `Launchable` |
| `EvictsLeastRecentlyUsed` | `CacheSpec => EvictsOldest` (an action property) |
| `StoreConsistent`, `ServedKernelsFresh` | without rollback of the toolchain, `StoreSpec => [](StoreInv /\ ServesFresh)` |
| `SessionRefinesCache`, `SessionRefinesStore` | `AirInference!Spec => CacheSpec`, `AirInference!Spec => StoreSpec` |
| `SessionContexts`, `SessionEvictsOldest`, `SessionServesFresh` | the results on the two components, of the sessions |
| `SessionOpensFresh` | without rollback of the toolchain, `AirInference!Spec => []OpenFresh` |
| `SessionResultsCorrect` | `AirInference!Spec => [](app = "llama" \/ ~hostFirst => ResultCorrect /\ EncodesRight)` |
| `SessionWeightsKept` | `AirInference!Spec => [](app = "llama" \/ ~hostFirst => WeightInv)` |

They hold for every set of threads, every program, shape and broadcast shape; for
every number of ranks, calls, attempts and crashes; for every simulated program, cost
and number of tiles and ports; for all caches, kernels, device limits and caps; for
all directories, plans and toolchains, numbers of layers, tokens and requests.

The assumptions are those named in the modules. Channels: sizes and broadcast shapes
are positive, a channel has rank at most 2. Mesh: at least two ranks. Runner
(`ProgramOK`): dependences point backwards and stay in one graph, each graph has one
start and one terminator, each hierarchy op has its own runner node, the herds share
one segment, widths and fan-outs are positive; this is what the construction of the
dependency graphs gives. Cache: finitely many caches and kernels. Session
(`SizesAssumption`, `SessionAssumption`, `ProgramsValid`, `AliasesValid`): a model has
at least one layer, every task calls some kernel, and kernels of the program's own
caches only, no call has more than four arguments and no weight is aliased. And the special values (`NoThread`,
`Null`, `NoMsg`, `None`, `NoContext`) are not members of the sets they stand outside
of. TLC evaluates each assumption on the instance of the run of its module. `Sizes`, the
same of the abstract channel, is a hypothesis of its theorem, which `AirCpuChannelProofs`
discharges for the refinement.

Some theorems have a hypothesis, and each is there because the code needs it.
`Divisible` is the runtime's own check. `OnePutter`, arrays that are square or have
one row, and one element are the programs on which the allocation race, the put's
stride and the half-filled array cannot bite; the refuting runs show each going wrong
on other programs. Forward-moving toolchains: see *Files*; `hostFirst`: see *Sessions*.
In the runner a put
or get that has dispatched some of its instances counts as done between two rounds
and may start again, so a herd that depends directly on one may be ready, then not,
and be passed by another: `HerdsKeepTheirPlace` leaves those programs to TLC.
`Scalar` says that every put and get moves one instance and that a channel in use has
one put and as many gets as its fan-out: point to point, or a broadcast to several
ops. An op with several instances is dispatched in rounds and may list a port twice,
puts of different widths on one channel make the unsigned subtraction wrap, and an
unbalanced channel is what `runner_unbalanced` is about. `NoFlight` says that links
have no latency after their occupancy, and attempting the proof without it showed
why it is needed: a link with latency gives its ports back at the end of its
occupancy and keeps them listed in `channel_ops_in_progress`. Other channels may
reserve both, and the release repeated when the get executes
(`RunnerNode.cpp:1402`, "in that case nothing is left reserved and this is a no-op")
then frees them for their new owners, one of whose ports is never given back. TLC
finds this with three point-to-point channels, the first with latency 3, over one
launch port; `ScalarRunsDrain` says what still holds of such programs. In the `runner`
run the contending herds satisfy both hypotheses and so do the broadcasts to two
herds without latency; with latency these satisfy `Scalar`.

*Abstract channel.* `HeldOnce` says that the reads a held transfer has had and those
it may still have add up to `Fanout`. With `Unread` (a transfer not yet put has no
reads, and read sets are finite) it is inductive and gives `ExactFanout`.

*CPU runtime.* `CriticalSection` alone is not inductive. `AllocInv` says that a
thread allocates at most once and that a `channel_t` is visible only after the loop
of its allocator has passed it, so the constructor never resets a channel in use:
this is where the unsynchronised allocation could break exclusion, and it does not,
since racing allocators create different objects. `FlowInv` ties a program point
to what the thread holds and has copied; `HistoryInv` ties unread buffers to
completed puts. Their conjunction `IndInv` is checked by TLC in `chan_pairs` and
proved action by action. For the refinement, `slot` is the buffer of a `channel_t`
with tokens and `NoMsg` otherwise; only the two `finish` steps are visible.
`CpuChannelDelivers` then follows from the abstract theorem. The races of
`chan_early_get` and `chan_two_putters` do not contradict the theorems: each
`channel_t` behaves, what goes wrong is which of them a thread finds. The three
conditional theorems are about that, and each adds one invariant to `IndInv`:
`ArrayInv` (the array is filled by one thread, so a pointer in use is still in it),
`ElementInv` (a `channel_t` holds and has delivered transfers of its own element;
lemmas on `div` and `mod` show that the two index computations agree), `FilledInv`
(nobody is past the look at `data[0]` while it is null).

*Barrier.* `BarrierHolds` follows from `TokensInFlight`: the tokens in a socket are
those sent minus those received, where both counts are functions of how far
each rank's loop has come. A rank that has returned from its k-th call has received
k tokens from each peer, so each peer has sent k, hence has entered k times. Crashes
change neither count. For `NobodyAborts`, `LifeInv` says that a rank closes its sockets
only after its last call: then all it had to send has been sent, and a slower peer
finds its tokens in the socket.

*Mesh.* Everything one process sends another is a prefix of one sequence, `Stream`:
rank, base, token, count, record, token, the rank from the higher one only. `Rcvd(r, p)`
and `Sent(p, r)` say how far in it receiver and sender are, as functions of their loop
positions; a message that failed counts as dealt with. `Pair(r, p)` says of a receiver
that lives that the socket holds `Stream` from `Rcvd` on, up to `Sent` if the sender
lives; that the last token is sent only once the receiver's heap is mapped; and that
a receiver past the record has mapped the sender's heap, or the sender is gone and
has left nothing, so that the next barrier aborts. That last alternative is how
`AllMapped` survives the unchecked receives. It needs three more facts per rank:
`AcceptAt`, that every connection is in one place (backlog, just accepted, or filed),
so that counting accepted connections means having all higher ranks; `KeyAt`, that a
socket filed under the wrong rank leads to a process that is gone and empty, so that
its owner aborts in its first barrier; `CountAt`, that a record is skipped only if the
peer died. The proof shows what a step leaves alone once (`Aside`, `OtherRanks`), then
one lemma per action.

*Contexts.* `ContextsAgree` allows for what is between the two updates right now
(`Between`) and for what a Ctrl-C stopped there (`lost`): these, and no others, are
loaded and not listed. With `Capped` and `Launchable` it is not inductive by itself:
`CallInv` adds that a call in progress belongs to a cache that lives, that its kernel
is not open while room is made for it, that after the loop over the cap there is
room for one more entry, and that the entry being evicted was not lost before. With `CacheTypeOK` they form `CacheInv`, proved action by
action; the lemmas say what `DropAt`, `Tail`, `Append` and `MoveToEnd` do to a list
without duplicates. `EvictsOldest` needs `OrderInv`: the list orders the open contexts
by last use, whatever was purged or collected from the middle of it; a lost context is
in no order, and the property leaves it out: no eviction can close it.

*Files.* `ServesFresh` rests on `Stamped`: a manifest is never newer than the toolchain
in use, and a binary it lists is never older than it. Then a manifest that carries the
current toolchain lists current binaries only, although the process may have died
between copying and saving. `Current` carries this to the artifacts in memory,
`Compiled` follows the compile loop. The argument needs toolchains to move forward.
With `Rollback = TRUE` it fails at `Stamped`, and so does the code: `toolchain_back`.

*Sessions.* Every step of `AirInference` is a step or a stutter of `CacheSpec` and of
`StoreSpec`; `TaskInv` (calls of the program's caches happen only inside a task, at one
of its calls) is what the cache's side of this needs. So every theorem about the two
components holds of the sessions. `OpenFresh` is about both at once: `MeetInv` says
that contexts exist only while the process is up and that the kernel of a call has
been recorded by `load_manifest` or `compile_and_cache`, so that its binary is current
when the context is opened.

`ResultCorrect` is the end of a chain that goes through every call of a task, and its
invariant `DataInv` says at each place of the task what the chain has reached, and of
the result, with its request and token, that it is the right one (`Exact`). `Books`
is about the buffer objects. `BindInv`: a bound key has its own buffers. `ReadyInv`: by
the time requests are served, the preload or the warm-up image has bound every key
with weights. `DropInv`: host weights are freed only when all keys of their kernel are
bound, so no buffer is ever filled from an empty array. `WeightInv`: a bound key holds
its own weights. `FlowInv` is about the arrays: in call `i` of layer `l` the operands
hold what layer `l` needs, in the array, or in the pool, alias or view the code reads
it from, and no call in between writes that buffer; in the decode task the KV cache of
every layer holds all earlier positions, and of the layers already passed the current
one. `RestInv` describes the pauses between tasks. Evictions and restarts do not
touch the buffers, or drop all of them, and Ctrl-C may stop a prefill or a decode step
anywhere: `Books` holds then too, because the calls it can stop are none of those that
write weights, and the flow starts anew with the next request. Each task has a lemma
per kind of call; lemmas on `div` and `mod` place the calls of layer `l` in
`LayersThen`, so that the step from one layer to the next is a step of `Next` and no
induction over layers is needed. `ReadyInv` needs every key of the encoder to be bound
by a chained image before one with host attention comes. Where it is not (`hostFirst`)
the chain reads buffers nobody writes, which is `vision_unwarmed`; `Settles` says that a
process satisfies `DataInv` until that happens.

*Runner.* `Core` is the common part: types (`Typed`); a wavefront lists ops of its
node, each once, started and not processed (`WaveInv`); times are in order and no
channel op exceeds its width (`TimesInv`); what starts belongs to a node that has
started, and a node starts once (`StartInv`); the queue of a phase holds what that
phase may still take (`QueueInv`). `TilesInv` adds that tiles belong to running herds,
disjointly, and that the sum of what admitted herds were promised fits in what is
free; sums are folds over finite sets, handled through lemmas on adding and removing
an element. `OrderInv` says that a herd found ready stays ready until it starts, and
that while herds may still be admitted every ready one is in the queue in order of
waiting.

The theorems on latencies follow one program from both ends. `LatencyInv`: when a
latency is reported the wavefronts are empty and every op has started. `OpsInv`: in a
program that is `Scalar` a channel op that started has its instance on record and is
on its wavefront or processed; so all are processed. `ChanInv`: a channel is either
idle, completed and cleared, or open, with its progress equal to the number of ops
dispatched and one of its gets still to be executed; the counting argument is that
the last of its gets finds the progress complete and clears it. `TakenInv`: a
reserved tile belongs to a herd that runs. This gives `ScalarRunsDrain`. For the
ports, `PortsInv` says that the reserved ports are the listed ones, one per instance in
progress and none listed twice, and `FlightInv` that no link is released before it
ends, so that the two places that release ports cannot disagree.

Only model-checked:

- liveness (`AllFinish`, `NobodyHangs`, `Established`, `OnlyAcceptHangs`, `RequestEnds`,
  `EndsAsExpected`): fairness and ENABLED are out of this prover's reach;
- `LatencyHonest` for programs with several instances per op, several puts on one
  channel, or time of flight: it is false of some of them (`runner_unbalanced`, and
  the leak described above), and which of the others are balanced is a property of
  whole graphs;
- `ResultCorrect` of the images encoded with host attention in a process that began with
  one, and of those it encodes with host attention later;
- `StaysUp`, `UnreadIsReachable`, `SelectsElement`, `NoOvertaking` for programs outside
  the hypotheses above.

## 5. Not modelled

- *IR passes, dialects, Python front end, aircc*: sequential rewriting without
  run-time state, or file and process I/O.
- *Other programming examples*: builders of IR with numeric tests; what they share at
  run time is the kernel cache and the XRT back end.
- *Runner*: loops (`scf.for`, loop-carried tokens) and with them `resource_hiers`,
  which is never emptied; core granularity, memory pools, several launches or
  segments and the check of a segment's DU count that goes with them
  (`RunnerNode.cpp:363-368`, `738-747`), and the cost model, whose results are the `cost` and `flight` of a vertex.
  Three stalls lie outside the programs of the passing run: a port counted twice in a
  third round of a gather, puts of different widths on one channel, a broadcast to
  herds that share one tile over time. They are hazards without a property, since no
  doc promises how such programs end. A fourth case, the port leaked by a link with
  latency, is outside them too; it breaks `LatencyHonest` (see section 4).
- *Llama session*: `--cpu-attn`, the profiler, sampling. *Vision runtime*: several
  images in one encode, the unfused path. *Kernels that fail*: the state `wait2`
  returns is not looked at, and kernels of the model always complete.
- *Two processes that compile into one cache directory*; the lock file of
  `_load_backend`, which has no timeout; different `max_contexts` per cache.
- *PCIe ERNIC, network*: register-level code whose correctness is that of a device
  interface the repository does not specify.
- *Second job on the same machine*: two jobs of one user without `AIRGPU_JOB_ID`
  share socket paths; the mesh model has one job.
- *Channel arrays without `broadcast_shape`* on the CPU: the put's divisibility test ends
  the process at once (`PutStart` with a shape that is not `Divisible`), so no run
  starts from one; `StaysUp` is checked on shapes that pass.
- *Payload data, strides, HIP calls other than import and map*: abstracted.
- *The rest of the inventory*: see the plan.

## 6. Plan

1. `AirGpuHeap`: `allocate`, `free` and the two heap sizes; ranks that make the same
   calls get the same offsets; ranges disjoint and inside what peers have mapped.
2. `AirGpuCacheline`, composed with the heap: payload and flag stores of 32 lanes,
   the spin of the get, repeated use of a channel.
3. `AirHostQueue`: slots of the queue, completion signals, `air_wait_all` in chunks.
4. Loops in `AirRunner`.
5. Proofs: the exclusion and range theorems of the modules above; `LatencyHonest` for
   balanced channels with several instances per op, dispatched in rounds.
