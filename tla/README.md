# TLA+ specifications of the PANDO runtime

PANDO runs a partitioned-global-address-space program on several nodes
("PXNs"). `pando-rt` is the runtime: tasks, harts, global memory, memory
resources. The Galois library (`include/pando-lib-galois`, `src/`) is built on
it: loops, synchronization, containers, graphs, and benchmarks that use them. The
runtime has two backends:
PREP, which runs on GASNet and qthreads, and DRVX, which runs inside the
simulator of `pando-drv`. The specifications here are of the PREP backend, which
has the protocols: in DRVX all nodes share one address space.

Line numbers refer to the repository; `PROJECT.json` maps every definition to
the lines it models.

## 1. Inventory

| Component | State | Operations | Talks to |
|---|---|---|---|
| Task creation, termination detection (`execute_on*.hpp`, `execute_on.cpp`, `task.hpp`, `wait.cpp`, `prep/termination.cpp`) | task queues, `taskCreatedCount`, `taskFinishedCount` per node, locals of `waitAll` | `executeOn`, `executeOnWait`, request handler, hart loop, `waitAll`, power off | GASNet messages and allreduce, queues, result storage in global memory |
| Global memory (`global_ptr.cpp`, `atomic.cpp`, `prep/nodes.*`) | the memory of each node, handles on stacks, messages | load, store, bulk copy, seven atomics, their handlers and replies | GASNet; hart scheduler (yield until the handle is ready) |
| Slab memory resource (`slab_memory_resource.hpp`) | initialization state, header of bitmaps | allocate, deallocate, lazy initialization | atomics on global memory |
| Bump resource and free list, L2SP and main resource (`memory_resources.cpp` and headers) | bump offset, linked list, mutexes | allocate and deallocate over a chain of resources | the slab resources; the program |
| Harts, cores, queues (`prep/cores.cpp`, `queue.hpp`) | queue per core, active flags, fibres | hart loop, work stealing, start, stop | task creation; every wait |
| Start-up and shutdown (`init.cpp`, `start.cpp`) | phase of each process | initialize, pandoMain, powerOff, finalize | everything |
| Notification, Future, Mutex (`pando-rt/sync`) | a flag or state word in global memory | notify, wait, waitFor; lock, try_lock, unlock | atomics, yield |
| WaitGroup, GlobalBarrier, SimpleLock, WaterFallLock (`galois/sync`) | a counter or words in global memory | add, done, wait; lock, unlock | atomics, yield |
| Parallel loops (`do_all.hpp`) | a WaitGroup, a scheduling position | doAll, onEach, blocking and not | task creation, WaitGroup |
| Algorithms (`prefix_sum.hpp`, `merge_sort.hpp`), hash table, containers | arrays | pure or sequential operations | memory resources |
| Graphs and importers | distributed arrays | construction, edge exchange | loops, containers |
| Mirrored graph (`mirror_dist_local_csr.hpp`) | a copy of every vertex on each host with an edge to it, bit sets of changed copies | reduce, broadcast, sync, reset of the bit sets | loops, WaitGroup, task creation |
| Shortest paths (`microbench/bfs`) | work lists per hart, distances in the copies | `SSSPMDLCSR`, `MDLCSRLocal`, `SSSPFunctor`, `updateActive` | mirrored graph, loops |
| DRVX backend, `pando-drv`, SST | simulated hardware | | |

What is hard in this code: counters of several nodes that are read at different
times; requests that are in flight and belong to no node's counters; handles on
the stack of a waiting hart, whose address travels in messages; handlers that
run concurrently with harts; compare-exchange loops and a lazy initialization
race; a deallocation that has to guess the owner of a block from its address
and size; spinning without yielding on cooperative fibres, which keep their hart
while they wait; counters that are freed as soon as they were zero; phases kept
apart by one counter; values compared before and after an update that others
make too; work lists and locks that outlive a call; shutdown while other threads
are still at work. `PROJECT.json` lists these hazards with their lines
and the properties that address them.

What makes each component correct:

- termination: `waitAll` returns only when every task has run, and it returns;
  nothing is lost at power off;
- global memory: a remote access is what a local one would have been, once,
  between call and return; handles outlive their messages; calls return;
- memory resources: no block has two owners, none is lost, capacity is usable;
- synchronization: nobody passes a wait early, nobody waits for ever;
- loops: the iteration is over when the blocking loop returns, and it returns;
- prefix sum: the sums are right whatever the order of the workers, on every call;
- mirrored graph: after sync every master has what its mirrors were given, and all
  copies agree;
- shortest paths: the distances are the shortest ones, and the search ends.

## 2. Modules

| Module | Models | Used by |
|---|---|---|
| `Termination` | tasks, requests, counters, `waitAll`, power off | `MCTermination`, `TerminationProofs` |
| `TerminationProofs` | theorems on `Termination` | |
| `MemoryOps` | what each memory operation does to words | `AtomicMemory`, `GlobalMemory` |
| `AtomicMemory` | abstract: one memory without nodes and messages | `GlobalMemory` (refinement) |
| `GlobalMemory` | nodes, active messages, handles | `MCGlobalMemory`, `GlobalMemoryProofs` |
| `GlobalMemoryProofs` | theorems on `GlobalMemory` | |
| `SlabLayout` | arithmetic of header and user slabs | `SlabMemoryResource`, `MemoryResource` |
| `SlabLayoutProofs` | lemmas on `SlabLayout` | `SlabProofs`, `MemoryResourceProofs` |
| `SlabMemoryResource` | bitmaps under concurrent allocation | `MCSlabMemoryResource`, `SlabProofs` |
| `SlabProofs` | theorems on `SlabMemoryResource` | |
| `MemoryResource` | slab resources, bump resource and free list in one buffer | `MCMemoryResource`, `MemoryResourceProofs` |
| `MemoryResourceProofs` | theorems on `MemoryResource` | |
| `ForkJoin` | abstract: what a WaitGroup promises to its caller | `DoAll`, `MirrorSync` (refinement) |
| `DoAll` | parallel loops, WaitGroups, mutexes, harts, cores, stealing | `MCDoAll`, `DoAllProofs` |
| `DoAllProofs` | theorems on `DoAll` | |
| `PrefixSum` | the parallel prefix sum and its WaterFallLock | `MCPrefixSum`, `PrefixSumProofs` |
| `PrefixSumProofs` | theorems on `PrefixSum` | |
| `MirrorSync` | reduce and broadcast of the mirrored graph | `Sssp` |
| `Sssp` | shortest paths on the mirrored graph | `MCSssp`, `SsspProofs` |
| `SsspProofs` | theorems on `MirrorSync` and `Sssp` | |

### Termination

The CP of a node is the node itself. `status` follows each task: `executeOn`
and `executeOnWait` (`Call`) either count a task for the caller's own node or
send a request; `handleRequest` counts it on arrival; `enqueue` is the second
half of `detail::executeOn`; `tryDequeue` gives it one of `HartCount` harts;
`invoke` is the end of the body, with the ready flag of `executeOnWait`;
`increaseTasksFinished` is the increment that follows. `waitAll`, `allreduce`,
`readFinished`, `readCreated` and `return` are the steps of `waitAll`, with its
local variables; the two counters are read separately, finished first, as in
`getTaskCounts`. The two allreduce calls are one step, because both operands
are computed before the first. `stop` is `ComputeCore::stop`: queues are cleared.
`lineage` is a history variable for the proof. Harts that wait in
`executeOnWait` keep their hart, as in the code.

Which tasks a program creates is a parameter: four relations from the caller's
node to the target. A *local* program creates tasks on its own node only. In a
*structured* program tasks wait for the tasks they create, anywhere. There
`WaitsForSubtree` says that the result of a task is not visible before everything
below it has run, by however long a chain of calls.

### GlobalMemory and AtomicMemory

A hart is in user code, at work in place (`local`), packing a message (`pack`)
or waiting. `load`, `store`, `bulkMemcpy` and the atomics choose between a local
access and a message as `global_ptr.cpp` and `atomic.cpp` do; the handlers are
those of `nodes.cpp`, one action each. A plain object is copied word by word in
any order, so concurrent accesses tear it; an atomic is one step. `net` holds a
message until its handler has returned, so handlers interleave with harts and
with one another. A reply writes the handle's data, then its done flag.
Requests and replies that are too large end the job.

`AtomicMemory` has the memory, the pending operation of each hart and its
result. The refinement mapping finds the pending operation of a hart wherever
it is: with the hart, in a request or a reply, or over, with its result in the
handle. It promises single words, not whole objects, and not an order of
separate accesses: memory orderings are outside the model, which is
sequentially consistent.

### SlabMemoryResource

One action per load or compare-exchange of `allocate`, `deallocate` and
`initializeControlSlabs`. The header starts with arbitrary contents. A failed
compare-exchange leaves the value found in `expected`. `spare` is a history
variable: the slabs nobody has held since the hart called `allocate`. A hart looks
at each bitmap once, so it may miss a slab that is freed behind it; what it can be
held to is to find one that was free all the time (`FailsOnlyWhenFull`).

### MemoryResource

Addresses are in words of eight bytes. The layout is computed as in
`alignStartAndRound` and the constructors. A hart scans one bitmap per step, so
that it may miss a slab freed behind it; a call on the bump resource or on the
free list, which take a mutex, is one step. The end of `pointerIsOwned` is
computed as in the code: a number of bytes added to a pointer to words. The
range it yields starts at the header, so a range of the intended length would be
too short by the size of the header: the factor eight hides this. `displaced` is
a history variable: a block has been freed that is not in the first slab
resource for its size, where `deallocate` looks for it. From then on finding 2
applies, so the properties of `resource` that it would break hold only before.

### DoAll

A task is the path of items that leads to it, a loop is named after the task that
calls it. Loops are two levels deep. The CP calls a blocking loop: over a range
(`add(size)` first, RANDOM places) or the even partition behind `onEach`
(`addOne` before each task, CORE_STRIPE places). The body of an outer task
takes a mutex of its node (`lock`, `unlock`), calls a blocking loop of its own
(`doAllBlocking`), or a loop with the handle it was given (`doAll`). `executeOn`
creates one task, which is queued at a core of its own node or sent
(`handleRequest`); requests may be too large (`tooLarge`), and then the items that
are left are given back one by one (`undo`). `count` is the counter of a WaitGroup,
in the memory of the node that made it: on that node `add` and `done` are one
step, elsewhere a request, its handler (`handleAdd`, `handleUndo`,
`handleDecrement`) and the return of the fibre (`resumeAdd`, `resumeUndo`,
`resumeDone`). `add` takes a `std::uint32_t`, while the size of a range has 64 bits
and is not checked: `Delta` is the conversion, and `DeltaAssumption` says that loops
are shorter than its modulus. A loop of 2^32 items would count none of them.

A core is one thread. A fibre leaves it only where it yields: in a wait or while
a remote operation is under way (`Yielding`); in the states of `OnCore` nobody
else runs on the core. In particular `Mutex::lock` spins there: local atomics do
not yield (the `hartYield` in `atomic.cpp` is commented out for all of them but
`atomicLoad`). A task that waits keeps its hart. `tryDequeue` needs a hart of the
core that is free; `workStealing` reads the size of the neighbour's queue,
`stealTask` takes a task afterwards, if there still is one.

`ForkJoin` is the abstract specification of a WaitGroup: a group of tasks that
the caller opens and joins, to which its tasks may add tasks while one of them is
alive, and which the caller leaves only when none is. `LoopsJoin` says that the group
of every loop, outer or nested, implements it; a task leaves the group when its
decrement is applied, not when its fibre knows of it. The modules below rely on
this: `PrefixSum` waits for all workers in one step, and `MirrorSync`, whose phases
are shown to implement the same specification (`PhasesJoin`), has no messages for
its counter.

### PrefixSum

One action for each element that a worker writes and for each access to `paste`
and to the words of the lock; the names are those of the phases. The index
arithmetic is that of `computePrefixSum`. Source elements are any numbers
(`Given`); the run takes powers of ten, so that a sum shows which elements are in
it and how often. An element that nobody has written, or outside of the arrays, is
`Junk`. `started` is the number of workers that the loop could create: it creates
them in order, up to the first one that is refused, or none if it has no memory for
its WaitGroup, and `computePrefixSum` drops its status. Then the workers wait for
the one that is missing and the caller for them, for ever (`hang`). Otherwise the
caller waits for all workers, which is the promise of the blocking loop in `DoAll`,
resets the lock and may call again. The number of workers and of elements is not
restricted, as the code checks neither. `Divides` says when the chunks are what they
are meant to be: there is a worker, there are more elements than workers, and a
single worker has none left over. Without it finding 4 applies. `given`
(the source at the call) and `stray` (positions outside of the arrays that were
used) are history variables.

### MirrorSync and Sssp

`MirrorSync` has the copies of the vertices, `data` and `dirty` (the bit sets),
and a phase of sync: a task per host (`running`), which goes through its table
(`scan`, `look`), counts and creates a task for each marked copy, and the steps
of such a task (`readOld`, `apply`, `compare`, `done`): it reads the copy it
writes to, updates it, and marks it if a second read differs. The tasks of reduce
and broadcast have the same steps, in opposite directions. `count` is the wait group
that the program waits for; its requests are those of `DoAll` and are one
step here. sync is a phase of the program that extends the module.

`Sssp` extends it with `SSSPMDLCSR`: the loop of each host over its two work
lists (`startRound`, `endRound`), the tasks of a round (`readDistance`, `inspect`,
`relax`, `endTask`), sync, and `updateActive` with `resetBitSets`. The lists of the
harts of a host are one bag, since a task pushes to the list of its own hart, and
all of them are read in the next round. The flag `ready` is cleared by the tasks
that improve nothing, as the code has it. `broadcasts` is the template parameter of
sync: the program calls it without, and is checked with both.

## 3. Runs

| Run | Checks | Instance | Shows |
|---|---|---|---|
| `termination_local` | `TypeOK`, `CountsExact`, `DetectedQuiescent`, `NoTaskLost`, `WaitAllReturns` | 2 nodes, 3 tasks, 2 harts, `waitAll` twice | in local programs `waitAll` is exact and returns everywhere |
| `termination_structured` | `DetectedExecuted`, `NoTaskLost`, `WaitsForSubtree` | 2 nodes, 3 tasks, 3 harts, `waitAll` twice | structured programs are safe with remote tasks |
| `termination_in_flight` | violates `DetectedExecuted` | remote `executeOn` | `waitAll` returns with a request in flight |
| `memory` | `TypeOK`, `OwnerAccess`, `HandleLive`, `AtomicGlobalMemory`, `CallsReturn` | 2 nodes with a hart each; objects of one to three words, messages of two, or one word modulo 3 used atomically | plain accesses and atomics refine one memory; calls return or the job ends |
| `slab` | `TypeOK`, `BitmapExact`, `FailsOnlyWhenFull`, `Exclusive`, `InitializationEnds` | 3 harts, 3 user slabs, bitmaps of 2 bits | bitmaps are exact under races; a free slab is found; nobody waits for the header for ever |
| `resource` | `TypeOK`, `NoWildWrite`, `NoBlockLost`, `HandsOutFreeMemory` | 2 harts, 2 slab resources, 4 blocks at most | correct until a displaced block is freed |
| `resource_owned` | violates `OwnsWhatItClaims` | | a slab resource claims its neighbour's block |
| `loops` | `TypeOK`, `CountExact`, `GroupLives`, `LoopOver`, `LoopReturns`, `LoopsJoin` | 2 nodes of 2 cores with 2 harts, 3 outer items, 1 inner item, one body that may block, two that may spawn | counters are exact and live; loops return when their tasks are over, and do |
| `prefix_sum` | `TypeOK`, `PrefixSums`, `InBounds`, `Returns` | 18 pairs of lock length and size, in place or not, workers refused or not, 2 calls | right on every call that returns, within bounds, and it returns unless it lacks a worker |
| `prefix_sum_one_node` | violates `WithinLength` | 1 worker, 23 elements | the element behind the last one is written |
| `sssp` | `TypeOK`, `Reduced`, `MirrorsAgree`, `Distances`, `Reached`, `SearchEnds`, `PhasesJoin` | 3 hosts, 5 vertices, 3 graphs, any source, 1 search | sync keeps copies together; one search is right and ends |
| `sssp_again` | violates `Distances` | the same, 2 searches | a second search is not |

Bounds. Two nodes and two counters per node are enough for a node to contribute
to a round before another acts; three tasks allow a chain of creations across
both; two calls of `waitAll` let a round start from counters left by the
previous one. Two-word objects can be torn, and one of three words is too large
for a message; a hart of either node on one word lets a handler race with a local
access (the theorem is about any number of harts); modulo 3 wraps in three
increments. A program of `memory` uses either plain accesses or atomics, which
keeps it small. Bitmaps of two bits and three slabs
give a full bitmap, a second one and a bit without a slab; three harts give a
winner, a waiter and a bystander in the initialization. In `MemoryResource` the
sizes are such that requests fit the first slabs, only the second, and neither;
the bump memory (12 words) is exhausted, so the free list is used; the alignment
leaves gaps. In `DoAll` the first outer item is on the node of the CP and the
second on the other one, so both have local and remote counters; items are dealt
such that two tasks may meet at one core (a steal, a mutex between fibres and
between cores) and creation may fail at the first remote item of either level;
one of two harts may block. A range of four items would already be cut to none
(`DeltaModulus`). The instances of `PrefixSum` have none to four workers, chunks of
one and of several elements, with and without left-over elements, fewer elements than
workers and as many, and a lock longer than the number of workers; two calls show
what a lock left behind would do. The graphs of `Sssp` have a vertex with mirrors on two
hosts that are reached by paths of different lengths, cycles within a host and
across hosts, and vertices that are not reached; distances up to 6 are more than
the longest path, so that the largest word, like `UINT64_MAX`, is not a distance.
`MaxLive`, the modulus and the numbers of tasks and calls are the
only caps on growth. Deadlock is checked in every passing run.

Fairness. Harts and CPs are threads (or fibres that yield while they wait), and
the polling thread blocks on GASNet until power off, so each pending handler,
queued task and running body is weakly fair; user code is assumed to end. No
caller has to create a task or call an operation. `WaitAllReturns` is checked
for local programs. A structured program needs as many harts as nested waits:
with fewer, all harts wait for a task that has no hart, and the program stops
(`termination_structured` deadlocks with two harts). Handlers are fair per waiting
hart, since a hart has at most one message (`HandleLive`). In `DoAll` a fibre that waits for its core is weakly
fair: qthreads puts a fibre that yields at the end of the queue of its core, and
no other one comes back before it; nobody is obliged to steal. `HartsAssumption`
says that fewer tasks block than a core has harts: otherwise all harts of a core
may wait for tasks that are queued at it, and the program stops. A worker of
`PrefixSum` that waits yields (`atomicLoad`), and it needs a hart of its own, as it
keeps it. In `Sssp` weak fairness of a phase of sync and of the loop of a host as a
whole is enough, since either has only finitely many steps. Spinning in
`SlabMemoryResource` relies on the hart that initializes being scheduled, which
holds as it never yields in between.

## 4. Findings

1. `wait.cpp:70` promises that `waitAll` "exits iff all the created tasks in the
   system have been executed". A remote task is counted on arrival, so a request
   in flight is missed (`termination_in_flight`).
2. `slab_memory_resource.hpp:234`: the range of `pointerIsOwned` is eight times
   too long. A block that overflowed into the next slab resource is freed in
   the wrong bitmap and its own slab is never free again (`resource_owned`). If
   it overflowed into the bump resource and the bit cleared is one without a
   slab, its memory is then offered by the slab resource and by the free list:
   with wider bitmaps (`BitmapBits = 8`) `HandsOutFreeMemory` fails without its
   condition on `displaced`.
3. `sssp.hpp:258`: the flag that ends the loop of a host is cleared by the tasks
   that improve nothing, not by those that push new work. The loop may stop with
   vertices in the list it has just swapped. In one search this costs only
   iterations, as the same vertices are marked and pushed again (`sssp` holds). But the
   lists outlive the search (`main.cpp:163`): a vertex left over has no distance in
   the next search, one more than `UINT64_MAX` is zero (`sssp.hpp:223`), and its
   neighbours get the distance zero (`sssp_again`). `test/CMakeLists.txt:6` of the
   benchmark runs six searches in one process, on a path on which it does not show.

4. `prefix_sum.hpp:240`: worker 0 sums up as many elements of the last chunk as of
   its own. A single worker is also the middle one, which has what is left over, so
   with an odd number of elements it reads and writes element `ns`, although
   `prefix_sum.hpp:209` asks the caller for `ns` elements only (`prefix_sum_one_node`).
   `per_thread.hpp:392` and `thread_local_vector.hpp:148` have one worker per node.

Observations that are no violation of anything the repository says:

- `memory_resources.cpp:304`: a block served whole from the free list for a smaller
  request comes back with the smaller size; its tail is not used again.
- `do_all.hpp:384`: a blocking loop drops the status of the creation of its tasks
  and returns success although items were given back (part of `LoopOver`).
- `prefix_sum.hpp`: with no more elements than workers the chunks are empty, but their
  first and last elements are used all the same, which are those of other workers or
  outside of the array; `workers /= getThreadDims()` may be zero, in which case nothing
  is computed; and if a worker cannot be created the call never returns, as the status
  of the loop is dropped. Phase 1 combines later with earlier, phase 2 earlier with
  later, so the combiner has to be commutative. More workers on a core than it has
  harts never finish, as the harts wait for a worker that has none.
- `mirror_dist_local_csr.hpp:608` compares two reads: a function that is not monotone
  could bring back the old value in between and the master would not be marked.
  A mirror that was written without improving its master keeps its value, if the
  master is not marked. With the minimum neither happens (`MirrorsAgree`). sync itself
  never clears a bit.
- `hashtable.hpp`: with a load factor of one a full table has no empty slot at which
  the search for an absent key would stop.

## 5. Proofs

`TerminationProofs` holds for every number of nodes, tasks, harts and calls and
for every program, under the assumptions named in `Termination` (finite sets of
nodes and tasks, disjoint; counts are natural numbers).

- `TypeCorrect`: `TypeOK` is inductive.
- `CountsCorrect`: the counters are cardinalities; each action moves at most
  one task into the counted set (`CountUp`, `CountSame`).
- `LocalTermination`: for local programs `waitAll` returns only in a quiescent
  system. `DetectedQuiescent` says nothing before the verdict, so the invariant
  has to follow the round. `ReadInv` relates what a CP has read to the counters
  now: finished was read before created, both only grow, so the pending number a
  node contributes is at least what was really pending when it read finished
  and is never negative. `QuietInv`: a node that contributed zero has no task,
  and in a local program nobody else can give it one. `VerdictZero`: a sum of
  non-negative contributions is zero only if each is.
- `StructuredTermination`: for structured programs `waitAll` returns only when
  all bodies have run. A request in flight is counted by nobody, so the
  invariant uses the tree of calls (`lineage`): below a task whose body is over
  nothing is unfinished, and at the root of every unfinished chain is either a
  CP that is still waiting or a task that its own node has counted.
- `WaitReturnsLast` (`WaitsForSubtree`): in structured programs `executeOnWait` returns
  after everything below its task. It follows from the part of that invariant about
  the tree of calls.
- `LocalPowerOff` and `StructuredPowerOff` (`NoTaskLost`): no queue is cleared
  that has a task in it. `CallsInv`: all nodes have completed the same number of
  calls of `waitAll`, so a node that stops knows that the others
  are past their last one; `EndInv`: once some node is stopping, all bodies have run.

Sums are cardinalities of sets of units, so that no recursive definition is
needed.

`SlabProofs` holds for every set of harts, at least two slabs and every width of
the bitmaps (`SizeAssumption`, which the constructor enforces).

- `BitmapsAccount` (`BitmapExact`) and `SlabTypeCorrect` rest on `IInv`: at most
  one hart writes the header (`OneInitializes`) and nobody uses it before it is
  ready (`HeaderReady`), so that what it has cleared stays clear (`Cleared`); no
  hart compares with a full bitmap (`CasNotFull`), so there is a first free bit;
  harts that free hold distinct slabs which the program has given up
  (`FreeingApart`), so that clearing a bit twice is impossible. The arithmetic is
  in `SlabLayoutProofs` (the constructor leaves at least one slab for the program)
  and three lemmas: the bitmaps cover all user slabs, a slab and its bit determine
  each other (`Addressing`), and only the last bitmap has bits without a slab
  (`LastBits`).
- `SlabsExclusive` (`Exclusive`) is an action property that follows from the same
  invariant (`FreeSlab`).
- `CapacityUsable` (`FailsOnlyWhenFull`) adds `SpareInv`: a slab that was free since
  the hart came in is never behind its scan, because a bitmap it found full had none
  of them, and a failed compare-exchange looks at the same bitmap again.

`MemoryResourceProofs` holds for every set of harts, every capacity and request
and every number of slabs of at least two per resource (`ResourceAssumption`). The slab sizes grow,
as the constructors of the L2SP and main memory resources list them; that a bitmap has
at least two bits and a word at least two bytes is true of `std::uint64_t`.

- The layout: a recursive function gives the start of each slab resource; that it
  exists is shown by a least counterexample (`StartIsLaid`). The resources, and the
  slabs in them, are apart (`PoolsApart`, `SlabsApart`), the bitmaps fit the header
  (`BitmapsFit`) and the bump region is behind them (`BumpBehind`).
- `IInv` has the shape of the harts (`HartsOK`) and of the memory (`MemoryOK`: the
  carved blocks are apart and below `offset`), and `Kept`: every carved block is
  held, on its way back or in the free list. Until a block is freed that is
  not where `deallocate` looks, it has `Placement` too: held blocks are slabs
  or carved blocks, distinct from each other (`HeldOK`, `OwnersApart`) and from the free
  list (`ListOK`, `NotListed`), the bitmaps are exactly the marks of the held slabs,
  and a block on its way back is in the first resource for its size (`FreesFirst`).
- `ClaimsItsOwn` and `ClaimedByFirst` are about the range of `pointerIsOwned`: it
  starts at the header, but the header is no longer than the user region, so a
  factor of two or more in its length covers every slab. So the
  header that the length leaves out does no harm, and a pointer into the first
  resource for its size is found there.
- `TypeCorrect`, `WritesInHeader` (`NoWildWrite`), `NothingLost` (`NoBlockLost`) and the
  action property `MemoryExclusive` (`HandsOutFreeMemory`) follow.

`GlobalMemoryProofs` holds for any nodes, harts, objects, placement and modulus
(`ModulusAssumption`, `ObjectAssumption`, `OperandAssumption`,
`PlacementAssumption`). `IInv` says what shape a hart, a handle and a message
have (`HartsOK`, `MsgsOK`), that a message is at the node where its next step is
(`RouteOK`), what is left of its transfer, and that a hart has at most one message,
for which it waits (`OneMessage`).

- `TypeCorrect`, `HandlesLive` (`HandleLive`) and `AccessOnOwner` (`OwnerAccess`).
- `ImplementsAtomicMemory` (`AtomicGlobalMemory`): by one lemma for each operation,
  every step is a call, a read or a write of one word, a return, or nothing to the
  abstract memory. `OneMessage` is what makes the pending operation of a hart unique.

`DoAllProofs` holds for any numbers of nodes, cores, harts and items
(`DimsAssumption`, `HartsAssumption`, `DeltaAssumption`). `IInv` has where a caller is in its loop
and whether its WaitGroup exists (`CallerInv`), that tasks are created in the order
of the items (`TaskInv`), `CountExact` and `GroupLives`.

- `TypeCorrect`, `CounterExact` (`CountExact`), `GroupOutlivesTasks` (`GroupLives`).
- `LoopsForkAndJoin` (`LoopsJoin`): every operation is a step of `ForkJoin`, or none,
  for the group of every caller.
- `LoopComplete` (`LoopOver`), with the further parts `PlaceInv` (a task is on the
  node it was meant for, stolen or not), `CreatedInv` (tasks are created up to the
  first that is refused) and `StatusInv` (when a status is set, and by whom).

`PrefixSumProofs` holds for every length of the lock, every size and every source, and
whichever workers are refused (`InstanceAssumption` and `GivenAssumption` give types
only). The properties but `TypeOK` are about elements that can be divided (`Divides`).

- `TypeCorrect`, `StaysInBounds` (`InBounds`) and `SumsCorrect` (`PrefixSums`). The
  index arithmetic is in the lemmas `CutFacts`, `ChunkFacts`, `Covered` and
  `ChunksApart`: the chunks are not empty, apart, and together the array. Sums are
  differences of a function of running totals (`TotalsExist`), so that no step
  sums anything up; that the reference definition computes the same is shown by a
  least counterexample (`ReferenceIsTotal`). `IInv` has what a worker has written of
  its chunk (`ChunkInv`), the last elements of the chunks (`LastInv`), what each value
  of a lock word says about `paste` (`LockInv`, `SlotInv`), and what a worker in each
  phase may rely on (`WorkerInv`); `UserInv` leads from one call to the next. A worker
  that was refused stays where it was (`RefusedInv`), so that nobody gets past it.

`SsspProofs` holds for every graph, number of hosts and placement of vertices
(`GraphAssumption`, `SearchesAssumption`). `IInv` has the types, the lists
(`ListsInv`, `WorkInv`) and

- `SyncInv`: the counter of a phase is the number of hosts still scanning plus the
  copies that have a task (`PhasesForkAndJoin` for `PhasesJoin`);
- `ValueInv`: a mirror is below its master only while it is marked and its value has
  not arrived (`ReduceArrives` for `Reduced`);
- `AgreeInv`: a master that differs from a mirror is marked, or will be, by a task
  that read it before the change (`SyncAgrees` for `MirrorsAgree`).

`DInv` adds `StartInv`, `LowInv` (a distance is the length of a walk from the source,
and what is listed has a distance) and `EdgeInv` (an edge that is not relaxed has
somebody who will: a list, a running task, a mark). At the end of a search nobody is
left, so every edge is relaxed: `AllReached` (`Reached`) and `ShortestPaths`
(`Distances`). Both are about one search (`Searches <= 1`), since finding 3 is that
a second one is wrong; the latter needs distances that fit a word
(`Cardinality(Vertex) <= MaxData`). The reference definitions are recursive
functions; what is needed of them is shown by a least counterexample.

Only model-checked, because liveness under fairness is outside what the proof
system does: `WaitAllReturns`, `CallsReturn`, `InitializationEnds`, `LoopReturns`,
`Returns`, `SearchEnds`. Every other property of a passing run has a theorem.

## 6. Not modelled

- Most of the repository by lines is third-party code: SST core and elements and
  the lock-free queue; `pando-drv` is a timing model of hardware. None of
  it has a protocol of this program. The fibre library, GASNet and the queue are
  modelled by what the runtime uses of them (messages arrive once, in any order;
  fibres of a core take turns where they yield).
- Memory orderings and fences: the models are sequentially consistent.
- Tracing, counters and logging; start-up; the destruction of memory resources.
- The DRVX backend, with its own `waitAllTasks`.
- Notification and Future (a flag that is set once and polled, as the handles of
  `GlobalMemory`), GlobalBarrier and SimpleLock (special cases of WaitGroup and
  Mutex).
- Sequential containers, hash table, merge sort and serialization, which unit tests
  reach; construction of graphs and importers; the other benchmarks.

## 7. Plan

Done: `Termination`; `GlobalMemory` refining `AtomicMemory`; `SlabMemoryResource`;
`MemoryResource`; `DoAll` with the scheduler and WaitGroups, refining `ForkJoin`;
`PrefixSum` with the WaterFallLock; `MirrorSync` and `Sssp`. All safety properties of
these are proved.

Models that could follow: DRVX `waitAllTasks` beside `Termination`; destruction of
memory resources; the hash table against a function.
