----------------------------- MODULE ImmixSpace -----------------------------
(***************************************************************************)
(* The Immix space of immix-rust: blocks of lines, thread-local bump       *)
(* allocation into holes of free lines, and the sweep.                     *)
(*                                                                         *)
(* Blocks travel usable_blocks -> a mutator -> used_blocks -> sweep, which *)
(* puts a block with a free line back into usable_blocks and keeps the     *)
(* full ones in used_blocks.  Both queues are crossbeam Injectors; the     *)
(* order in which they hand blocks out is left open.                       *)
(*                                                                         *)
(* When the world stops is the business of module StopTheWorld, which      *)
(* implements Safepoint; this module takes its stop-the-world steps from   *)
(* Safepoint and adds what they do to the heap.  Between two accesses to a *)
(* queue a mutator touches only what it owns, so one call of               *)
(* try_alloc_from_local, or one turn of alloc_from_global, is one step.    *)
(*                                                                         *)
(* The objects kept track of are those the stacks refer to.  start_trace   *)
(* pushes them into its injector unconditionally, so every collection      *)
(* marks all of them; which others it reaches is the subject of module     *)
(* ParallelTrace.                                                          *)
(***************************************************************************)
EXTENDS Integers, FiniteSets

CONSTANTS
    Mutator,         \* slots of the arena
    Initial,         \* the mutators registered at the start
    None,            \* Option::None of a mutator's block
    BLOCKS,          \* total_blocks
    LINES_IN_BLOCK,
    BYTES_IN_LINE,   \* in units of the smallest alignment
    Layouts,         \* what the programs allocate: records [size, align]
    MaxObjects       \* bound: how many objects are in use at a time

\* README.md: "The object size should be smaller than one Immix line".
ASSUME SpaceAssumption ==
    /\ Initial \subseteq Mutator
    /\ BLOCKS \in Nat \ {0}
    /\ LINES_IN_BLOCK \in Nat \ {0}
    /\ BYTES_IN_LINE \in Nat \ {0}
    /\ None \notin 0 .. BLOCKS - 1
    /\ Layouts \subseteq [size : 0 .. BYTES_IN_LINE, align : 1 .. BYTES_IN_LINE]
    /\ MaxObjects \in Nat

VARIABLES
    registered, parked, phase,   \* the stop-the-world state, see Safepoint
    usable_blocks,               \* blocks with at least one free line
    used_blocks,                 \* blocks returned by mutators, or full
    line_mark_table,             \* one mark for each line of the space
    pc,                          \* where in the allocator each mutator is
    layout,                      \* the layout its slow path is allocating
    block, cursor, limit, line,  \* its ImmixMutatorLocal
    objects,                     \* the objects referenced from a stack
    gc,                          \* the controller's place in gc()
    live_blocks,                 \* local to sweep
    n_usable, n_full             \* its counters usable_blocks and full_blocks

SP == INSTANCE Safepoint

world == <<registered, parked, phase>>
queues == <<usable_blocks, used_blocks>>
locals == <<block, cursor, limit, line>>
sweeping == <<gc, live_blocks, n_usable, n_full>>
vars == <<world, queues, line_mark_table, pc, layout, locals, objects, sweeping>>

(***************************************************************************)
(* Addresses, lines and blocks.  Null is address 0; the space starts at a  *)
(* positive multiple of the block size.                                    *)
(***************************************************************************)
BYTES_IN_BLOCK == LINES_IN_BLOCK * BYTES_IN_LINE
Null == 0
SpaceStart == BYTES_IN_BLOCK

Block == 0 .. BLOCKS - 1
TotalLines == BLOCKS * LINES_IN_BLOCK
Line == 0 .. TotalLines - 1

BlockStart(b) == SpaceStart + b * BYTES_IN_BLOCK
LinesOf(b) == b * LINES_IN_BLOCK .. (b + 1) * LINES_IN_BLOCK - 1
LineOf(addr) == (addr - SpaceStart) \div BYTES_IN_LINE
BlockOf(addr) == (addr - SpaceStart) \div BYTES_IN_BLOCK

\* Variant of AlignUp: rounds down.
AlignDown(addr, align) == (addr \div align) * align

\* (addr + align - 1) & !(align - 1), for a power of two.
AlignUp(addr, align) == ((addr + align - 1) \div align) * align

LineMark == {"Free", "Live", "FreshAlloc", "ConservLive", "PrevLive"}

\* The bytes, and the lines, an object lies on.
Extent(o) == o.start .. o.start + o.size - 1
InSpace(o) == SpaceStart <= o.start /\ o.start < BlockStart(BLOCKS)
Covers(o) == {LineOf(a) : a \in Extent(o)}

(***************************************************************************)
(* LineMarkTableSlice: the ends of the next hole of free lines of block b, *)
(* counted from the block's first line.                                    *)
(***************************************************************************)
IsFree(b, i) == line_mark_table[b * LINES_IN_BLOCK + i] = "Free"

NoHole(b, i) == \A j \in i .. LINES_IN_BLOCK - 1 : ~ IsFree(b, j)

get_next_available_line(b, i) ==
    CHOOSE j \in i .. LINES_IN_BLOCK - 1 :
        IsFree(b, j) /\ \A k \in i .. j - 1 : ~ IsFree(b, k)

\* Variant of get_next_unavailable_line: one line too far.
get_next_unavailable_line_past(b, i) ==
    1 + CHOOSE j \in i .. LINES_IN_BLOCK :
        /\ j < LINES_IN_BLOCK => ~ IsFree(b, j)
        /\ \A k \in i .. j - 1 : IsFree(b, k)

get_next_unavailable_line(b, i) ==
    CHOOSE j \in i .. LINES_IN_BLOCK :
        /\ j < LINES_IN_BLOCK => ~ IsFree(b, j)
        /\ \A k \in i .. j - 1 : IsFree(b, k)

-----------------------------------------------------------------------------
Init ==
    /\ SP!Init
    /\ usable_blocks = Block
    /\ used_blocks = {}
    /\ line_mark_table = [l \in Line |-> "Free"]
    /\ pc = [m \in Mutator |-> "mutator"]
    /\ layout = [m \in Mutator |-> None]
    /\ block = [m \in Mutator |-> None]
    /\ cursor = [m \in Mutator |-> Null]
    /\ limit = [m \in Mutator |-> Null]
    /\ line = [m \in Mutator |-> LINES_IN_BLOCK]
    /\ objects = {}
    /\ gc = "idle"
    /\ live_blocks = {}
    /\ n_usable = 0
    /\ n_full = 0

\* A mutator that executes its own code or the allocator's.
Running(m) == phase = "running" /\ m \in registered \ parked

At(m, l) == pc[m] = l
Goto(m, l) == pc' = [pc EXCEPT ![m] = l]

(***************************************************************************)
(* Allocation.                                                             *)
(***************************************************************************)

\* Variant of Bump: the size is left out of the comparison.
BumpAtLimit(m, lo) ==
    LET start == AlignUp(cursor[m], lo.align)
    IN  IF start <= limit[m]
        THEN /\ cursor' = [cursor EXCEPT ![m] = start + lo.size]
             /\ objects' = objects \cup {[start |-> start, size |-> lo.size]}
             /\ layout' = [layout EXCEPT ![m] = None]
             /\ Goto(m, "mutator")
        ELSE /\ layout' = [layout EXCEPT ![m] = lo]
             /\ Goto(m, "local")
             /\ UNCHANGED <<cursor, objects>>

\* Variant of Bump: it is the start that is compared with the limit.
BumpPastLimit(m, lo) ==
    LET start == AlignUp(cursor[m], lo.align)
        end == start + lo.size
    IN  IF start < limit[m]
        THEN /\ cursor' = [cursor EXCEPT ![m] = end]
             /\ objects' = objects \cup {[start |-> start, size |-> lo.size]}
             /\ layout' = [layout EXCEPT ![m] = None]
             /\ Goto(m, "mutator")
        ELSE /\ layout' = [layout EXCEPT ![m] = lo]
             /\ Goto(m, "local")
             /\ UNCHANGED <<cursor, objects>>

\* alloc: bump the cursor when the object fits below the limit, otherwise take
\* the slow path.
Bump(m, lo) ==
    LET start == AlignUp(cursor[m], lo.align)
        end == start + lo.size
    IN  IF end <= limit[m]
        THEN /\ cursor' = [cursor EXCEPT ![m] = end]
             /\ objects' = objects \cup {[start |-> start, size |-> lo.size]}
             /\ layout' = [layout EXCEPT ![m] = None]
             /\ Goto(m, "mutator")
        ELSE /\ layout' = [layout EXCEPT ![m] = lo]
             /\ Goto(m, "local")
             /\ UNCHANGED <<cursor, objects>>

Alloc(m, lo) ==
    /\ Running(m) /\ At(m, "mutator")
    /\ Cardinality(objects) < MaxObjects
    /\ Bump(m, lo)
    /\ UNCHANGED <<world, queues, line_mark_table, block, limit, line, sweeping>>

\* The same call at the end of try_alloc_from_local and alloc_from_global.
AllocAgain(m) ==
    /\ Running(m) /\ At(m, "alloc")
    /\ Bump(m, layout[m])
    /\ UNCHANGED <<world, queues, line_mark_table, block, limit, line, sweeping>>

\* used_blocks.push(block.take()), if there is a block.
ReturnBlock(m) ==
    /\ used_blocks' = used_blocks \cup ({block[m]} \ {None})
    /\ block' = [block EXCEPT ![m] = None]

\* try_alloc_from_local: move to the next hole of the block and mark its lines
\* FreshAlloc, or give the block back.
TryAllocFromLocal(m) ==
    /\ Running(m) /\ At(m, "local")
    /\ IF line[m] < LINES_IN_BLOCK /\ ~ NoHole(block[m], line[m])
       THEN LET b == block[m]
                first == get_next_available_line(b, line[m])
                end == get_next_unavailable_line(b, first)
            IN  /\ cursor' = [cursor EXCEPT
                        ![m] = BlockStart(b) + first * BYTES_IN_LINE]
                /\ limit' = [limit EXCEPT
                        ![m] = BlockStart(b) + end * BYTES_IN_LINE]
                /\ line' = [line EXCEPT ![m] = end]
                /\ line_mark_table' = [l \in Line |->
                        IF l - b * LINES_IN_BLOCK \in first .. end - 1
                        THEN "FreshAlloc" ELSE line_mark_table[l]]
                /\ Goto(m, "alloc")
                /\ UNCHANGED <<used_blocks, block>>
       ELSE /\ ReturnBlock(m)
            /\ Goto(m, "global")
            /\ UNCHANGED <<cursor, limit, line, line_mark_table>>
    /\ UNCHANGED <<world, usable_blocks, layout, objects, sweeping>>

\* One turn of alloc_from_global: from the yieldpoint ("global"), or from just
\* after it ("steal"), to a usable block, or to trigger_gc and the next turn.
AllocFromGlobal(m) ==
    /\ Running(m) /\ pc[m] \in {"global", "steal"}
    /\ \/ \E b \in usable_blocks :
            /\ usable_blocks' = usable_blocks \ {b}
            /\ block' = [block EXCEPT ![m] = b]
            /\ cursor' = [cursor EXCEPT ![m] = BlockStart(b)]
            /\ limit' = [limit EXCEPT ![m] = BlockStart(b)]
            /\ line' = [line EXCEPT ![m] = 0]
            /\ Goto(m, "alloc")
       \/ /\ usable_blocks = {}
          /\ Goto(m, "global")
          /\ UNCHANGED <<usable_blocks, locals>>
    /\ UNCHANGED <<world, used_blocks, line_mark_table, layout, objects, sweeping>>

\* The last reference to an object disappears from the stacks.
Forget(o) ==
    /\ phase = "running"
    /\ objects' = objects \ {o}
    /\ UNCHANGED <<world, queues, line_mark_table, pc, layout, locals, sweeping>>

(***************************************************************************)
(* Mutators that come, leave and stop.  The yieldpoints are the user's own *)
(* and the one in the loop of alloc_from_global.                           *)
(***************************************************************************)
\* Variant of ResetLocals: reset() forgets the block but not cursor and limit.
ResetBlockOnly(S) ==
    /\ block' = [m \in Mutator |-> IF m \in S THEN None ELSE block[m]]
    /\ line' = [m \in Mutator |-> IF m \in S THEN LINES_IN_BLOCK ELSE line[m]]
    /\ UNCHANGED <<cursor, limit>>

ResetLocals(S) ==
    /\ block' = [m \in Mutator |-> IF m \in S THEN None ELSE block[m]]
    /\ cursor' = [m \in Mutator |-> IF m \in S THEN Null ELSE cursor[m]]
    /\ limit' = [m \in Mutator |-> IF m \in S THEN Null ELSE limit[m]]
    /\ line' = [m \in Mutator |-> IF m \in S THEN LINES_IN_BLOCK ELSE line[m]]

New(m) ==
    /\ SP!Join(m)
    /\ ResetLocals({m})
    /\ UNCHANGED <<queues, line_mark_table, pc, layout, objects, sweeping>>

Destroy(m) ==
    /\ Running(m) /\ At(m, "mutator")
    /\ SP!Leave(m)
    /\ ReturnBlock(m)
    /\ UNCHANGED <<usable_blocks, line_mark_table, pc, layout, cursor, limit,
                   line, objects, sweeping>>

\* Variant of PrepareForGC: the block is not returned.
PrepareKeepsBlock(m) ==
    /\ pc[m] \in {"mutator", "global"}
    /\ Goto(m, IF At(m, "global") THEN "steal" ELSE "mutator")
    /\ UNCHANGED <<queues, line_mark_table, layout, locals, objects,
                   live_blocks, n_usable, n_full>>

\* prepare_for_gc at a yieldpoint.  In alloc_from_global the mutator goes on to
\* get_next_usable_block when it runs again.
PrepareForGC(m) ==
    /\ pc[m] \in {"mutator", "global"}
    /\ ReturnBlock(m)
    /\ Goto(m, IF At(m, "global") THEN "steal" ELSE "mutator")
    /\ UNCHANGED <<usable_blocks, line_mark_table, layout, cursor, limit, line,
                   objects, live_blocks, n_usable, n_full>>

\* A follower: prepare_for_gc, then block_current_thread.
StopAtSafepoint(m) ==
    /\ SP!Park(m)
    /\ PrepareForGC(m)
    /\ UNCHANGED gc

\* The controller: prepare_for_gc, then gc().
StartGC(m) ==
    /\ SP!Collect(m)
    /\ PrepareForGC(m)
    /\ gc' = "trace"

(***************************************************************************)
(* gc(): trace and sweep.                                                  *)
(***************************************************************************)
\* The lines of the roots.  stack_scan takes only addresses inside the space,
\* which the address of an empty object need not be.
StartLines == {LineOf(o.start) : o \in {p \in objects : InSpace(p)}}
NextLines == {l + 1 : l \in {k \in StartLines : k < TotalLines - 1}}

\* mark_line_live for every root: the line of its address becomes Live and the
\* one after it ConservLive.  A line that is both gets the mark of whichever
\* tracing thread writes last.  The marks of earlier collections stay.
Trace ==
    /\ phase = "collecting" /\ gc = "trace"
    /\ \E late \in SUBSET (StartLines \cap NextLines) :
        line_mark_table' = [l \in Line |->
            IF l \in StartLines \ late THEN "Live"
            ELSE IF l \in NextLines THEN "ConservLive"
            ELSE line_mark_table[l]]
    /\ gc' = "sweep"
    /\ n_usable' = 0
    /\ n_full' = 0
    /\ UNCHANGED <<world, queues, pc, layout, locals, objects, live_blocks>>

\* Variant of Kept: the sweep overlooks the conservative mark.
KeptIfLive(l) == line_mark_table[l] = "Live"

Kept(l) == line_mark_table[l] \in {"Live", "ConservLive"}

\* One turn of the loop of sweep.
SweepBlock ==
    /\ gc = "sweep"
    /\ \E b \in used_blocks :
        /\ used_blocks' = used_blocks \ {b}
        /\ line_mark_table' = [l \in Line |->
                IF l \in LinesOf(b) /\ ~ Kept(l) THEN "Free"
                ELSE line_mark_table[l]]
        /\ IF \E l \in LinesOf(b) : ~ Kept(l)
           THEN /\ usable_blocks' = usable_blocks \cup {b}
                /\ n_usable' = n_usable + 1
                /\ UNCHANGED <<live_blocks, n_full>>
           ELSE /\ live_blocks' = live_blocks \cup {b}
                /\ n_full' = n_full + 1
                /\ UNCHANGED <<usable_blocks, n_usable>>
    /\ UNCHANGED <<world, pc, layout, locals, objects, gc>>

\* Variant of EndSweep: no check for a full space.
EndSweepUnchecked ==
    /\ gc = "sweep"
    /\ used_blocks = {}
    /\ used_blocks' = live_blocks
    /\ live_blocks' = {}
    /\ gc' = "swept"
    /\ UNCHANGED <<world, usable_blocks, line_mark_table, pc, layout, locals,
                   objects, n_usable, n_full>>

\* After the loop: the full blocks go back to used_blocks, and if that is all
\* of them the collector panics.
EndSweep ==
    /\ gc = "sweep"
    /\ used_blocks = {}
    /\ used_blocks' = live_blocks
    /\ live_blocks' = {}
    /\ gc' = IF n_full = BLOCKS THEN "panicked" ELSE "swept"
    /\ UNCHANGED <<world, usable_blocks, line_mark_table, pc, layout, locals,
                   objects, n_usable, n_full>>

\* gc() returns and CONTROLLER is given up.
FinishGC ==
    /\ gc = "swept"
    /\ gc' = "idle"
    /\ SP!Finish
    /\ UNCHANGED <<queues, line_mark_table, pc, layout, locals, objects,
                   live_blocks, n_usable, n_full>>

\* The waiters are notified; the controller and every follower reset themselves
\* before they do anything else.
Resume ==
    /\ SP!Release
    /\ ResetLocals(registered)
    /\ UNCHANGED <<queues, line_mark_table, pc, layout, objects, sweeping>>

-----------------------------------------------------------------------------
Next ==
    \/ \E m \in Mutator :
        \/ \E lo \in Layouts : Alloc(m, lo)
        \/ AllocAgain(m) \/ TryAllocFromLocal(m) \/ AllocFromGlobal(m)
        \/ New(m) \/ Destroy(m) \/ StopAtSafepoint(m) \/ StartGC(m)
    \/ \E o \in objects : Forget(o)
    \/ Trace \/ SweepBlock \/ EndSweep \/ FinishGC \/ Resume

Spec == Init /\ [][Next]_vars

(***************************************************************************)
(* Fairness, for programs that do allocate: the scheduler runs every       *)
(* thread; a turn of alloc_from_global that finds no block has called      *)
(* trigger_gc, which module StopTheWorld shows to be followed by a         *)
(* collection; and the collector does not stop half way.                   *)
(***************************************************************************)
NoBlockLeft == usable_blocks = {} /\ \E m \in registered : At(m, "global")

Slowpath(m) ==
    \/ AllocAgain(m) \/ TryAllocFromLocal(m) \/ AllocFromGlobal(m)
    \/ NoBlockLeft /\ (StopAtSafepoint(m) \/ StartGC(m))

Collector == Trace \/ SweepBlock \/ EndSweep \/ FinishGC \/ Resume

FairSpec ==
    /\ Spec
    /\ \A m \in Mutator : WF_vars(Slowpath(m))
    /\ WF_vars(Collector)

(***************************************************************************)
(* Properties.                                                             *)
(***************************************************************************)

\* The bounds of a region: both null, or in the space and in order.
InBounds(c, l) ==
    \/ c = Null /\ l = Null
    \/ SpaceStart <= c /\ c <= l /\ l <= BlockStart(BLOCKS)

\* Type invariant.
TypeOK ==
    /\ registered \subseteq Mutator
    /\ parked \subseteq registered
    /\ phase \in {"running", "collecting", "releasing"}
    /\ usable_blocks \subseteq Block
    /\ used_blocks \subseteq Block
    /\ live_blocks \subseteq Block
    /\ line_mark_table \in [Line -> LineMark]
    /\ pc \in [Mutator -> {"mutator", "alloc", "local", "global", "steal"}]
    /\ layout \in [Mutator -> Layouts \cup {None}]
    /\ block \in [Mutator -> Block \cup {None}]
    /\ cursor \in [Mutator -> Nat]
    /\ limit \in [Mutator -> Nat]
    /\ \A m \in Mutator : InBounds(cursor[m], limit[m])
    /\ line \in [Mutator -> 0 .. LINES_IN_BLOCK]
    /\ objects \subseteq [start : Nat, size : 0 .. BYTES_IN_LINE]
    /\ \A o \in objects : Extent(o) \subseteq SpaceStart .. BlockStart(BLOCKS) - 1
    /\ gc \in {"idle", "trace", "sweep", "swept", "panicked"}
    /\ n_usable \in 0 .. BLOCKS
    /\ n_full \in 0 .. BLOCKS

Held == {block[m] : m \in Mutator} \ {None}

\* No block is lost or handed out twice on its way through the queues, the
\* mutators and the sweep.  (reset() forgets the mutator's block: it must have
\* been returned by then.)
BlocksConserved ==
    /\ usable_blocks \cup used_blocks \cup live_blocks \cup Held = Block
    /\ usable_blocks \cap (used_blocks \cup live_blocks \cup Held) = {}
    /\ used_blocks \cap (live_blocks \cup Held) = {}
    /\ live_blocks \cap Held = {}
    /\ \A m, n \in Mutator : m # n /\ block[m] # None => block[m] # block[n]

\* The bytes alloc may hand out without leaving its fast path.
Region(m) == cursor[m] .. limit[m] - 1

\* A mutator that runs and is not between two blocks.
Allocating(m) == Running(m) /\ pc[m] \notin {"global", "steal"}

\* A mutator bumps only through lines of a block it holds, which it has marked
\* FreshAlloc: never through a block it has returned, although return_block
\* leaves cursor, limit and line as they were.  And block().unwrap() in
\* try_alloc_from_local finds a block.
RegionOwned ==
    \A m \in registered : Allocating(m) =>
        /\ \A a \in Region(m) : /\ BlockOf(a) = block[m]
                                /\ line_mark_table[LineOf(a)] = "FreshAlloc"
        /\ line[m] < LINES_IN_BLOCK => block[m] # None

\* A mutator that is new or comes back from a collection has a null cursor and a
\* null limit, and 0 <= 0 passes the test of alloc: null, or the end of the
\* space, is handed out for an object of size zero and for no other.
OutsideOnlyIfEmpty == \A o \in objects : ~ InSpace(o) => o.size = 0

\* Two objects in use never share a byte, and no mutator is about to hand out a
\* byte of one.
ObjectsDisjoint ==
    /\ \A o, p \in objects : o # p => Extent(o) \cap Extent(p) = {}
    /\ \A o \in objects, m \in registered : Extent(o) \cap Region(m) = {}

\* No line that an object in use lies on is ever free: FreshAlloc protects it
\* until the next collection, and from then on the marks of the object's first
\* line and of the one after it are enough for the sweep.
LiveLinesKept ==
    \A o \in objects : \A l \in Covers(o) : line_mark_table[l] # "Free"

\* Who is stopped, gone or between two blocks holds no block, and the slow path
\* has a layout to allocate.
PlacesInv ==
    \A m \in Mutator :
        /\ ~ Allocating(m) => block[m] = None
        /\ pc[m] # "mutator" => layout[m] \in Layouts

\* The bytes between a cursor and its limit are in the mutator's own block or,
\* once return_block has left the two behind, in a block that nobody can take
\* before they are reset.
RegionInv ==
    \A m \in registered : \A a \in Region(m) :
        IF Allocating(m) THEN block[m] # None
        ELSE phase = "running" => BlockOf(a) \in used_blocks

\* The sweep runs while the world is stopped, finds every line of an object in
\* use marked by the trace, and counts no block twice.
SweepInv ==
    /\ gc # "idle" => phase = "collecting"
    /\ gc = "sweep" =>
        /\ \A o \in objects : \A l \in Covers(o) : Kept(l)
        /\ n_usable + n_full + Cardinality(used_blocks) <= BLOCKS

\* The inductive invariant: what the steps of alloc, of a mutator that stops and
\* of the collector preserve together.
SpaceInv ==
    /\ TypeOK /\ BlocksConserved /\ RegionOwned
    /\ ObjectsDisjoint /\ LiveLinesKept /\ OutsideOnlyIfEmpty
    /\ PlacesInv /\ RegionInv /\ SweepInv

\* The debug_assert! at the end of sweep.
SweepCountsEveryBlock == gc = "swept" => n_full + n_usable = BLOCKS

\* panic!("Out of memory in Immix Space"): every line holds, or is marked
\* conservatively for, an object in use.
OutOfMemoryIsReal ==
    gc = "panicked" => StartLines \cup NextLines = Line

\* An allocation that had to leave the fast path returns, or the collector runs
\* out of memory: the loop of alloc_from_global ends.
AllocReturns ==
    \A m \in Mutator : At(m, "local") ~> At(m, "mutator") \/ gc = "panicked"
=============================================================================
