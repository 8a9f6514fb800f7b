# immix-rust: TLA+ models, checks and proofs

immix-rust is a stop-the-world, conservative, mark-region garbage collector: a
reserved space cut into 64 KiB blocks of 256-byte lines, thread-local bump
allocation into holes of free lines, a hand-written stop-the-world handshake, a
work-stealing parallel trace and a sweep that works on line marks. This
directory holds the TLA+ modules that model it, the TLC configurations that
check them on small instances, and TLAPS proofs for all instances. Paths below
are relative to the root of the repository.

## 1. Inventory

### Components, their state and their operations

| component | source | state | operations |
|---|---|---|---|
| mutator registry | `src/heap/immix/immix_mutator.rs` | `MUTATORS` (arena behind an RwLock), `N_MUTATORS` (atomic), per mutator `take_yield`, `still_blocked` (atomics) | `new`, `destroy`, `request_gc`, `yieldpoint` |
| stop-the-world handshake | `src/heap/gc/mod.rs` | `CONTROLLER` (atomic), `STW_COND` (mutex around a count, condition variable), `ROOTS`, `GC_COUNT` | `trigger_gc`, `sync_barrier`, `block_current_thread`, `gc` |
| thread-local allocator | `src/heap/immix/immix_mutator.rs` | `block`, `cursor`, `limit`, `line` | `alloc`, `try_alloc_from_local`, `alloc_from_global`, `return_block`, `prepare_for_gc`, `reset` |
| Immix space | `src/heap/immix/immix_space.rs`, `line_mark.rs`, `mod.rs` | `usable_blocks`, `used_blocks` (lock-free queues), the line mark table | `get_next_usable_block`, `return_used_block`, `sweep`, `mark_line_live`, the searches for holes |
| parallel trace | `src/heap/gc/multi_thread_trace.rs`, `src/common/address_map.rs` | the injector, `active_threads`, each worker's queue, `TraceMap` (`map`, `mark_state`) | `start_trace`, `worker_batch_steal_trace`, `mark_as_traced`, `is_untraced_and_valid`, `flip_mark_state` |
| root scanning | `src/heap/gc/mod.rs`, `src/objectmodel.rs` | `LOW_WATER_MARK`, `alloc_map` | `set_low_water_mark`, `stack_scan`, `is_valid_object`, object encodings |
| addresses and maps | `src/common/mod.rs`, `address_map.rs` | - | `align_up`, `plus`, `AddressMap`, `SafeAddressMap` |
| C baseline | `c_src/` | block lists `usable_blocks`, `used_blocks` and a registry of mutators, each behind a mutex | `ImmixMutatorLocal_new`, `ImmixMutatorLocal_alloc`, `get_next_usable_block` |
| C free list space | `c_src/freelist.c` | `head`, `last`, `used_size` behind a mutex | `alloc_large`, `FreeListSpace_alloc` |
| users | `rust_benchmarks/`, `benches/`, `rust_c_interface/` | stacks and registers, objects | register, allocate, store, load, call, return, destroy |

How they interact. A mutator that finds `usable_blocks` empty calls
`trigger_gc`, which raises `take_yield` of everybody in the arena. At its next
yieldpoint a mutator enters `sync_barrier`, returns its block to `used_blocks`
and publishes its roots; one of them, elected by compare-exchange, waits for
`N_MUTATORS - 1` followers and runs `gc()`: the trace writes the line marks and
the trace map, the sweep moves every block of `used_blocks` to `usable_blocks`
or back. The release gives `CONTROLLER` up, lowers the flags, zeroes the count
and notifies; every mutator then resets its allocator and asks for a block.

### What is hard

* registry, flags, `CONTROLLER` and the count change under different locks, or
  none: orders of registration, election, counting, destruction and release;
* the controller compares a *copy* of the count with `N_MUTATORS`;
* `CONTROLLER` is free again before the flags are down and anybody is awake;
* `return_block` leaves `cursor`, `limit` and `line` pointing into a block that
  somebody else may get; only `reset` makes them harmless;
* line marks survive a collection, and only two lines per object are marked;
* the trace's termination test reads the injector and `active_threads` one
  after the other while other workers push, steal, leave and rejoin;
* trace map entries survive collections and mean the opposite in the next one;
* the stack scan is conservative, `alloc_map` bytes of dead objects stay, and new
  objects are not cleared: stale words are looked up in stale maps, and the
  index arithmetic of one map checks nothing while that of the other wraps;
* the low water mark is taken inside `set_low_water_mark`, so the frame that
  calls it is not scanned, and the frames that come after it only in part;
* the C baseline reads two pointers it never initialises, lays its last block
  partly behind the mapping, and checks neither `MAX_MUTATORS` nor the overflow
  of an `int`;
* failures: a worker that panics, a space that is full, a mutator that goes out
  of scope without `destroy`.

`PROJECT.json` lists each of them at the line where it bites.

### What makes each component correct

| component | properties |
|---|---|
| handshake | the world is stopped while `gc()` runs; one controller; no lost wake-up; every collection ends, every follower runs again, every request is served |
| allocator and space | no block lost or in two hands; nobody bumps through memory it does not own; objects in use are disjoint and their lines are never free; allocation ends; out of memory only when memory is out |
| trace | nobody returns while work is left; exactly the reachable untraced objects are marked; everything reachable is marked; `start_trace` returns |
| root scanning | whatever word it meets, the collector stays inside the space and its maps and knows the encoding; what a live local of a frame below the mark refers to is never handed out again; no benchmark follows a null pointer |
| address maps | the safe map answers exactly inside, both maps agree there, the unchecked one stays inside its allocation |
| C baseline | as long as no access leaves the allocator's memory: lists linked both ways and disjoint, no block in two hands; grants accounted for up to the width of `int`; every path releases its mutex; such accesses only at the ends of the lists |

## 2. Modules

| module | role |
|---|---|
| `Safepoint` | abstract: what the handshake promises |
| `StopTheWorld` | the handshake, step by step; implements `Safepoint` |
| `StopTheWorldProofs` | its inductive invariant, safety and refinement, proved |
| `ImmixSpace` | allocator, block queues, line marks, sweep; its stop-the-world steps are those of `Safepoint` |
| `ImmixSpaceProofs` | its inductive invariant and safety, proved |
| `ParallelTrace` | the trace over several collections |
| `ParallelTraceProofs` | its termination detection and the exactness of its marks, proved |
| `AddressMap` | addresses and the index arithmetic of the two maps |
| `AddressMapProofs` | what the maps do with an arbitrary word, proved |
| `Benchmarks` | the six programs of `rust_benchmarks/`, as instructions |
| `BenchmarksProofs` | what their code looks like, for every depth and count, proved |
| `RootScan` | executes them on stacks and a heap of words, with conservative roots; the world stops and resumes with the steps of `Safepoint` |
| `RootScanProofs` | its inductive invariant, safety and the survival of held objects, proved |
| `CBaseline` | the C allocator and its free list space |
| `CBaselineProofs` | its inductive invariant and safety, proved |
| `NumberFacts` | quotients, products and least elements, for the proofs |
| `MC*` | instances for TLC |

The composition goes through `Safepoint`: `StopTheWorld` implements it (checked
by the run `handshake`, proved as `HandshakeImplementsSafepoint`), and
`ImmixSpace` conjoins its actions `Join`, `Leave`, `Park`, `Collect`, `Finish`
and `Release` with what they do to the heap. So the heap is checked against
everything the handshake allows, without its steps. `ParallelTrace` stands for
what happens between `StartGC` and the sweep. `RootScan` puts the parts
together the other way: real programs, stacks and words on top of `Safepoint`,
with a simpler allocator and a simpler trace than the two modules that treat
them in detail.

### StopTheWorld

One step is one access to shared state: an atomic operation, one turn of a loop
under `MUTATORS.write()`, or a critical section of the `STW_COND` mutex. `pc[m]`
names the place of mutator m's thread; the comment in the module lists the
places. `lock`/`iter` pairs model the two walks of the arena (`trigger_gc` and
the release), during which registration and destruction wait. `seen` is the
controller's local `count`. `Prepare` covers `prepare_for_gc`, `stack_scan` and
`ROOTS.write()`, which `gc()` blocks.

The code does not say when `new` may be called, so the constant `Registration`
does: `closed` (every mutator exists before the first runs, as in
`benches/large_alloc.rs`), `quiescent` (mutators come while nobody is in
`sync_barrier`), `open` (at any time, as `rust_benchmarks/mt_gcbench.rs` does).
`MayDrop` lets a mutator disappear without `destroy`, `MayPanic` lets `gc()`
panic.

Abstractions: a slot is reused by later mutators, its generation is not kept;
the `Condvar` (parking_lot) has no spurious wake-ups; all atomics involved,
`N_MUTATORS`, `CONTROLLER` and the flags of `ImmixMutatorGlobal`, are declared
sequentially consistent and are read so. A mutator that was dropped is outside
`sync_barrier` for good, so others may register after it; a thread that panicked
inside `gc()` never left it.

### ImmixSpace

Addresses are numbers of units of the smallest alignment; the space starts at a
positive address and `Null` is 0, so `cursor = limit = 0` means what it means in
the code. Between two accesses to a queue a mutator touches only its own
allocator and the lines of its own block, so a call of `try_alloc_from_local`
and a turn of the loop of `alloc_from_global` are one step each; `AllocAgain` is
the recursive call of `alloc` at their ends. The two queues are sets: what order
crossbeam hands blocks out in is left open. `StopAtSafepoint` returns the block
and parks in one step: `used_blocks` is read by `sweep` only, so it does not
matter when, before the collection, the block gets there. `Trace` marks the
first line of every root `Live` and the next one `ConservLive`, in an arbitrary
order where both hit one line. `SweepBlock` is one turn of `sweep`.

An allocation of size 0 succeeds on a mutator without a block (cursor and limit
are null) and at the limit of the last block; `OutsideOnlyIfEmpty` says that
there is no other way to an object outside the space.

`objects` are the objects the stacks refer to. They are roots of every
collection, so they must survive every one of them whatever the trace map says.

### ParallelTrace

`edges` is the heap, `roots` the content of `ROOTS`. Each of the following is a
step of a worker: `worker.pop`, `steal_batch_and_pop`, `fetch_sub`,
`is_empty`, `load`, `fetch_add`, marking an object, loading a field and looking
it up in the map, pushing it. Queues are bags, a batch is any part of the
injector, and the fields of an object are visited in any order: more behaviours
than crossbeam and the loop have. `Steal::Retry` is a stutter. A field that is
null or points outside the space fails `is_untraced_and_valid` and is left out
of `edges`. Between collections the program changes heap and roots as it likes
(`FlipMarkState`). `marked` are the objects whose line the collection has
marked, which is what the sweep goes by; `start` is a history variable.
A worker that panics stays in `active_threads`, as in the code.

### AddressMap, Benchmarks and RootScan

`AddressMap` has the arithmetic only: `Index` for the unchecked `AddressMap`
(`alloc_map`), `SafeIndex` and `HasEntry` for `SafeAddressMap` (inside
`TraceMap`), with `usize` wrap-around modulo `ADDRESSES`.

`Benchmarks` writes each program of `rust_benchmarks/` as a sequence of
instructions per function: allocate and `init_object`, save to a local, store to
or load from a field, call, return, push to a `Vec`, `set_low_water_mark`, `new`,
`destroy`. Loops are unrolled, depths and counts are constants; sizes, field
offsets and encodings are those of the source. `LiveBefore` computes which locals a frame
still needs at each instruction.

`RootScan` executes them. A stack is a sequence of frames; a return leaves its
frame's words where they are, and a call finds them as the initial values of its
locals. `memory` has a word for each word of the space and is never cleared.
`EnterBarrier` is a yieldpoint's way into `sync_barrier`: it scans the stack from
the stack pointer to the low water mark. The mark is the stack pointer *inside*
`set_low_water_mark`. The frame of its caller is beyond it; and since the calls
that follow start where `set_low_water_mark` had its own frame, so may be part of
the first of them, or all of the first few if they are small. `MarkFrames` says
how many; `Scanned` are the frames above those, which lie wholly between the
stack pointer and the mark. What the scan finds is bounded from below by `Must`
(the live locals of those frames: they are in the frame, in a register a deeper
one has saved, or in a register) and from above by `May` (any word left on the
stack or in a register, dead or beyond the mark); what a build really finds is in
between, so it is a choice. `TraceRound` marks the objects in the injector and
replaces them by the untraced ones they refer to, field by field as their
`alloc_map` byte says; a byte with an unknown pattern is the tracer's panic.
`SweepAndFlip` frees every line that is not marked and leaves words and bytes
alone. `TakeHole` takes any hole of any block: more than a mutator may, as block
ownership is the subject of `ImmixSpace`. That gives the safety properties more
behaviours to hold in; nothing else is claimed of `RootScan`.

`NewMutator` and `DestroyMutator` are as open as in the code: a thread registers
whenever it gets there, also while a controller counts or collects. A
registration while a collection is under way leaves the handshake's promises
behind (finding `open_world`); from there on (`Late`) the model takes no further
step. So what `RootScan` shows of `mt_gcbench` it shows up to that point.

### CBaseline

Each critical section is cut into the steps between which another thread could
see the lists, so that taking a lock away shows, and unlocking, returning and
`exit(1)` are steps of their own on the paths that end the process, so that a
missing unlock shows too. All lines of a block are free when a mutator takes it
and are never free again, so a block is a number of objects that still fit
(`room`). Sizes of large objects and `used_size` are ints: `Sum` wraps at
`INT_MAX`. `posix_memalign` may fail, which ends the process inside the critical
section (`FailedAlloc`). `take_yield` of a C mutator is not initialised either;
its slow path only prints, so it is left out.

Four accesses may leave the allocator's memory (`Stray`): through `used_blocks`
and the `next` of the last block, which are uninitialised memory (`NULL`, or
`Wild`, anything else); to the part of the last block that lies behind the
mapping if `mmap` did not return the start of a block (`overhang`); and behind
the end of `MUTATORS`. Each of them crashes the process (`Crash`) or goes
unnoticed: then the process runs on, with `Wild` on its lists, and the next
caller takes it for a block. The history variable `stray` counts them. What the
properties say of lists, blocks and locks they say while it is zero; what comes
first, and when, is the subject of `EndsAtTheEnds`. What an unnoticed write
destroys elsewhere is not modelled.

## 3. Runs

| run | instance | result |
|---|---|---|
| `handshake` | 4 slots, quiescent registration, drops and panics | `TypeOK`, `HandshakeInv`, `WorldStopped`, `WokenMayLeave`, `OneController`, `ImplementsSafepoint` hold; 745 thousand states |
| `handshake_live` | 3 mutators, closed, fair | `CollectionCompletes`, `FollowersResume`, `RequestServed` hold |
| `space` | 2 mutators, 2 blocks of 2 lines, objects of half a line and a line | `TypeOK`, `BlocksConserved`, `RegionOwned`, `ObjectsDisjoint`, `LiveLinesKept`, `SpaceInv` hold; 1.1 million states |
| `space_live` | 1 mutator, 2 blocks of 3 lines, aligned and empty objects, fair | `OutsideOnlyIfEmpty`, `ObjectsDisjoint`, `AllocReturns` hold; 829 thousand states |
| `trace` | 2 workers, chain, cycle and diamond heaps, one with a self reference, 3 collections, panics, fair | `TypeOK`, `TerminationInv`, `MarkInv`, `NoEarlyReturn`, `TraceExact`, `TraceReturns` hold; 491 thousand states |
| `roots` | all six programs, 2 threads where there are several, 2 blocks of 3 lines of 4 words, the mark within the first frame | `TypeOK`, `TracedInSpace`, `PatternsExpected`, `ScanInv`, `DereferencesObjects`, `HeldSurvives` hold; 118 thousand states |
| `baseline` | 3 threads for 2 slots, 3 blocks, up to 3 large objects, ints up to 7, up to 2 stray accesses unnoticed | `TypeOK`, `ListsSound`, `BlockOwnedOnce`, `LargeAccounted`, `FirstAndLatest`, `ReturnsUnlocked`, `BaselineInv`, `EndsAtTheEnds` hold; 3.5 million states |
| `open_world` | 2 mutators, open registration | `WorldStopped` violated |
| `dropped_mutator` | a mutator dropped without `destroy`, fair | `CollectionCompletes` violated |
| `sweep_assert` | `request_gc` with usable blocks left | `SweepCountsEveryBlock` violated |
| `out_of_memory` | marks of dead objects fill the space | `OutOfMemoryIsReal` violated |
| `first_trace` | the first collection | `ReachableMarked` violated |

Why the bounds are enough. Three mutators let a controller, a late follower and
a destroyer or a requester act at once; the fourth lets two followers overlap
with them. Slots are reused, so there is no bound on how many mutators a
behaviour has, nor on the number of collections. Two blocks let one be full, one
in use, and both change hands; lines of two units let objects fill, share and
straddle lines; three lines per block give holes between kept lines. Two objects
in use at a time (`MaxObjects`) are enough for a straddling pair and for the
pairwise properties; the number of allocations is unbounded. Two workers let
one idle or rejoin while the other pushes, steals or panics (the proofs cover any
number); of three collections (`MaxGCs`) the first finds every entry traced, the
second none, and the third those that the second has not traced. The programs of `roots` allocate
more than the six lines hold, so all of them collect or run out of memory;
`MaxFrames` exceeds the deepest call they make, `MarkFrames = 1` leaves frames on
both sides of the mark, and `MaxChance` bounds, in a run, how many dead words are
taken for roots and how many collections start while lines are free. Three blocks
give the C lists a first, a last and one in the middle, so that
`EndsAtTheEnds` has something to exclude; three threads for two slots reach the
end of `MUTATORS`; `MaxStray = 2` lets garbage be put on a list and then be taken
from it. Three nodes (`MaxNodes`) let the free list lose one; with
`INT_MAX = 7` and a limit of 5, objects of size 2 fill the space and those of
size 6 wrap. TLC's deadlock check is off,
because every instance has states where the program really stops (everybody
destroyed, a panic, the last collection); that nobody is stuck before is what
the liveness properties say.

Fairness. `StopTheWorld`: weak fairness of each thread's own steps, among them
the yieldpoint a running mutator reaches again and again (the README of the
repository asks for that); nothing that a program decides (register, request,
destroy) is fair, and locks need no more because no thread can retake one
forever while another waits. `ImmixSpace`: weak fairness of the slow path of
allocation and of the collector; that a turn without a block leads to a
collection is what `RequestServed` shows of the handshake. `AllocReturns` is
checked for one mutator: with two, one can take every block the other's
collections free, and the code does not prevent it. `ParallelTrace`: weak
fairness of each worker and of the joins. `RootScan` has no
fairness: with open registration `mt_gcbench` may hang, as `open_world` says, and
no liveness is claimed. Nor has `CBaseline`: that every path gives its mutex up is
`ReturnsUnlocked`, a safety property, and who gets a mutex next is up to pthreads.

### What the violations say

* `open_world`: nothing keeps a new mutator out between the last comparison of
  the count and the end of `gc()`. With open registration two more things go
  wrong, for the same reason: a mutator that registers during a collection can
  park after the release has passed it and then waits until some other
  collection wakes it, and one that registers between `trigger_gc` and the
  barrier polls with `take_yield` down while the controller waits for it.
* `dropped_mutator`: `ImmixMutatorLocal` has no `Drop`; the repository's README
  says Rust drops the mutator when necessary.
* `sweep_assert`: the last `debug_assert!` of `sweep` assumes that every block
  is in `used_blocks` when a collection starts.
* `out_of_memory`: no code clears line marks, so a line once live stays so.
* `first_trace`: `TraceMap` starts with every entry equal to `mark_state`, so
  the first collection marks nothing but the roots.

### What the models show besides

* A worker that panics stays in `active_threads`: the others spin, and an earlier
  `join` never returns, so the panic is not reported. `TraceReturns` therefore
  says that `start_trace` returns *or a worker has panicked*.
* The low water mark excludes the frame that sets it, and possibly part of the
  first frames called after it: the mark is taken at the depth of
  `set_low_water_mark` itself. `longLivedTree` of
  `gcbench.rs` is a local of that frame: whether it survives depends on where the
  compiler keeps it while deeper frames run. The programs that never call
  `set_low_water_mark` (`exhaust`, `initobj`, `trace`, `mt-trace`) have no
  scanned frame at all, only registers. `HeldSurvives` is about frames that lie
  wholly below the mark.
  `README.md` of the repository asks for the call "after getting a new mutator";
  both benchmarks call it before.
* `mt_gcbench.rs` gives its nodes the encoding of references at offsets 0 and 8,
  but with the `_header` its fields are at 8 and 16: `right` is never traced, and
  the uninitialised header is. `TracedInSpace` and `PatternsExpected` hold all
  the same, because whatever the header holds is looked up before it is followed.
* `FreeListSpace.last` never moves (`c_src/freelist.c:50-56`): of all nodes only
  the first and the latest are on the list (`FirstAndLatest`). Nothing walks it,
  so nothing else breaks.
* The limit of the free list space is checked with `int` arithmetic
  (`c_src/freelist.c:29`): an object larger than `INT_MAX - used_size` makes the
  sum wrap, passes, and leaves `used_size` negative. `LargeAccounted` therefore
  says that `used_size` is right modulo the width of `int`, and claims the limit
  only if no object is larger than `INT_MAX - LO_SPACE_SIZE`.
* The C block lists end in uninitialised memory, the last block may end behind
  the mapping, and `MUTATORS` has `MAX_MUTATORS` slots and no check. The first
  access to memory of others comes with the first block, with the last one, or
  with a mutator too many, never in between (`EndsAtTheEnds`). Whether it crashes
  is up to what is there; if not, nothing the allocator says later can be relied
  on.

## 4. Proofs

`StopTheWorldProofs`, for every finite set of mutators, every `Initial`, with
drops and panics, assuming `Registration # "open"`:

* `HandshakeConsistent`: `Spec => [](TypeOK /\ HandshakeInv)`;
* from it `TypeCorrect`, `WorldIsStopped`, `NoLostWakeup`, `SingleController`;
* `HandshakeImplementsSafepoint`: `Spec => ImplementsSafepoint`.

`WorldStopped` is not inductive: that the controller's count reaches
`N_MUTATORS - 1` means something only if the count counts threads.
`HandshakeInv` says so in six parts: `ArenaInv` (arena and counter agree),
`OwnerInv` (locks and `CONTROLLER` name the threads at the right places),
`CountInv` (`stw_count` is the number of parked threads, and the controller's
copy is at most the number of those that wait), `StoppedInv` (from the start of
a collection to the release everybody else waits), `LedInv` (nobody follows
without a controller) and `FlagInv` (`still_blocked` at each stage). The step
that matters is `CountCheck`: at most `Cardinality(MUTATORS) - 1` threads other
than the controller exist, and as many wait, so all wait (lemma
`EverybodyElseWaits`, from the theorems on finite sets). The election is safe
although `CONTROLLER` is given up early because by then everybody else waits.
In the proof each action has a step, grouped in lemmas by what it may disturb.

`ParallelTraceProofs`, for every finite set of objects, every set of heaps,
every number of workers and collections, with panics:

* `TraceTyped`: `Spec => []TypeOK`;
* `TerminationDetected`: `Spec => []TerminationInv`, and `NoWorkLeft`:
  `Spec => []NoEarlyReturn`;
* `MarksConsistent`: `Spec => []MarkInv`, and `TraceIsExact`:
  `Spec => []TraceExact`.

`TerminationInv` says that `active_threads` is exactly the number of workers
that are not idle, and that work in the injector always has one of them that has
not yet found it empty; a worker that reads zero therefore reads it when no
queue holds anything. `MarkInv` is the tricolour argument of this trace: marked
objects and what queues and workers hold are reachable from the roots through
untraced objects, and an untraced field of a marked object is marked, in a
queue, or still in the hands of the worker that scans it.

`AddressMapProofs`, for every space and every width of an address, assuming that
the space does not start at address 0 and ends at least a word before the last
address (`AddressAssumption`):

* `SafeGetExact`: `SafeAddressMap::get` answers exactly from the start of the
  space to the end of its last word; wrap-around never brings an address below
  the space back in;
* `SameEntry`: inside the space both maps use the same entry;
* `UncheckedGetInside`: if the space is a whole number of words, what passes
  either test has an entry in the unchecked `AddressMap`.

`ImmixSpaceProofs`, for every set of mutators, number of blocks, lines per block
and bytes per line, and every set of layouts whose size is at most a line and
whose alignment is between 1 and a line (`SpaceAssumption`; the repository's
README excludes larger objects, see section 5):

* `SpaceInvariant`: `Spec => []SpaceInv`;
* from it `TypeCorrect`, `BlocksAreConserved`, `RegionsAreOwned`,
  `ObjectsAreDisjoint`, `LiveLinesAreKept`, `OnlyEmptyObjectsOutside`.

`TypeOK` says of every mutator that `cursor` and `limit` are both null, or both
in the space and in order (`InBounds`); for a new hole that is the lemma
`HoleEnds`.

The six properties are not inductive together; `SpaceInv` adds three parts.
`PlacesInv`: whoever is stopped, gone or between two blocks holds none.
`RegionInv`: a region that `return_block` left behind lies in a block of
`used_blocks`, which nobody takes before the region is reset; without it
`ObjectsDisjoint` fails at the next `get_next_usable_block`. `SweepInv`: while
the sweep runs every line of an object in use is marked, and no block is counted
twice. The argument for the marks is geometric: an object of at most a line
covers its first line and at most the one after it, which are the two that
`mark_line_live` marks. The proofs of the line and block arithmetic come first;
after them `LineOf`, `BlockOf` and `AlignUp` stay folded.

`RootScanProofs`, for every set of threads that contains thread 1, every subset
of the six programs, every depth, number of iterations and bound on the stack,
and every space that is a whole number of lines (`ScanAssumption`; heaps are
given in MiB or default to 1 GiB) with lines that are whole words and at least
as long as the program's objects, wherever in the first `MarkFrames` frames the
mark falls, and up to the first registration during a collection:

* `ScanInvariant`: `Spec => []ScanInv`, and from it `ScanTypeCorrect`,
  `TracerStaysInSpace` and `TracerNeverPanics`;
* `HeldObjectsSurvive`: `Spec => HeldSurvives`, an action property;
* `BenchmarksDereferenceObjects`: `Spec => []DereferencesObjects`.

`ScanInv` has six parts besides the types. `FramesInv`: every frame in use is at
an instruction of a function that exists. `EnrolledInv`: where a thread is in its
program tells whether it is registered, so whoever allocates is. `BumpInv`:
regions lie in the space, so what is handed out is an object of it. `KnownInv`:
every word a stack, a register, the heap or the collector holds is null or an
address whose byte in `alloc_map` is the program's encoding, dead or alive; that
is why the tracer never meets an unknown pattern. The exception is
`obj_init.rs`, which initialises its objects late: it makes no calls and sets no
low water mark, so no scan sees them for certain, and the test of `OBJ_START`
keeps them out of the roots. `PhaseInv`: the handshake. `HeldInv`: what the live
locals of a stopped thread's scanned frames refer to is a root or marked, and the
lines of what is marked are kept; with `TwoLines` (an object lies on at most two
lines) this gives `HeldSurvives` at the sweep, and at every other step because
only free lines are handed out. Registration needs no condition here: while a
controller counts, a new mutator holds nothing yet; once it collects, the new one
makes the state `Late`, which is where the theorem ends.

`DereferencesObjects` needs a second invariant, `PointersInv` of
`RootScanProofs`: locals that have been saved, elements of a `Vec`, the argument
of `Populate` and the fields it has stored are not null, and the register is not
null after an instruction that returns something. It is preserved although
objects may be freed too early and reused by others, because no instruction ever
stores null over a word; and `BenchmarksProofs` shows of every function
(`TextSets`) that it saves before it uses, and of `Populate` (`PopulateText`) that
it stores both fields before it loads them.

`CBaselineProofs`, for every finite set of threads, every `MAX_MUTATORS`, number of
blocks and of objects in a block, every width of `int`, large object space and set
of positive sizes, and whatever the uninitialised pointers hold
(`BaselineAssumption`):

* `BaselineInvariant`: `Spec => []BaselineInv`;
* from it `TypeCorrect`, `BlocksOwnedOnce`, `ListsAreSound`, `HarmAtTheEndsOnly`,
  `ListIsFirstAndLatest`, `LargeIsAccounted`, `FunctionsReturnUnlocked`.

`TypeOK` holds throughout; the rest of `BaselineInv` is an implication from
`stray = 0`, so a stray access needs no argument beyond its type, and an ordinary
one starts and ends in states where the other parts hold. Nothing is ever
returned to the list of usable blocks, so blocks are taken in the order of their
addresses: `BaselineInv` says with two numbers, `Taken` and `Pushed`, which blocks
are on which list and how they are linked, that the two differ only while the
thread that holds the mutex is between the lists, and that whoever is in a
critical section holds its mutex. `HarmAtTheEndsOnly` looks at the step that
raises `stray` from zero, in a state where all that holds. That walking a list
from its head finds exactly these blocks, and that `used_size` is the sum over all
nodes modulo the width of `int`, are statements about recursive functions; the
library's induction theorems are of no use here, so both are proved from a least
counterexample (`LeastNatural` of `NumberFacts`, from the well-foundedness of the
natural numbers).

Only model-checked: liveness, which the prover does not handle (`CollectionCompletes`,
`FollowersResume`, `RequestServed`, `AllocReturns`, `TraceReturns`), and the violations. Every invariant and every
action property of a passing run is proved; the handshake only for
`Registration # "open"`, without which `WorldStopped` is false.

## 5. Not modelled

* Words that are not aligned: `is_valid_object` accepts an address inside a word
  whose byte has `OBJ_START`, and the tracer would read fields at that offset.
  Compiled code keeps no such words in pointer locals; integers that look like
  one are not modelled.
* Allocations larger than a line, which the repository's README excludes (one
  larger than a block makes `alloc_from_global` run through blocks for ever).
* The sequential `start_trace` of `c_src/gc.c` and its address vector: the C
  baseline never collects, only a C benchmark traces once.
* `rust_benchmarks/mark.rs`, which `main.rs` does not compile, the trees of
  `benches/large_alloc.rs`, the C programs, and the header in
  `rust_c_interface/`, which declares functions the crate no longer exports.
* Memory mapping, logging, reading `HEAP_SIZE`, printing objects.
* Effects of relaxed memory orders (the atomics the models are about are
  sequentially consistent); what an unnoticed write to memory of others destroys
  there; programs after a registration during a collection (`RootScan`).

## 6. Plan

1. `StopTheWorld` with late registration: what survives of `HandshakeInv` when
   `Registration = "open"` (one controller, no lost wake-up of who was parked in
   time, the counts).
2. That the stop-the-world steps of `ImmixSpace` and `RootScan` are steps of
   `Safepoint`, stated as refinements of their own.
3. `StopTheWorld`, `ImmixSpace` and `ParallelTrace` joined in one theorem: what
   a collection keeps, from the handshake to the sweep.
