------------------------------ MODULE RootScan ------------------------------
(***************************************************************************)
(* Conservative roots: the programs of module Benchmarks run on stacks and *)
(* a heap of words, and what a collection finds decides what it keeps.     *)
(*                                                                         *)
(* A mutator that enters the barrier scans its stack from the stack        *)
(* pointer to its low water mark, and its registers, for words whose       *)
(* alloc_map byte has the bit OBJ_START.  Nothing clears that byte when an *)
(* object dies, and nothing clears memory that is allocated again, so      *)
(* stale words are looked up in stale maps.                                *)
(*                                                                         *)
(* The stop-the-world steps are those of Safepoint.  Threads register      *)
(* whenever they come to it, and the model follows a program up to the     *)
(* first registration that finds a collection under way, which the         *)
(* handshake does not survive (see StopTheWorld).  The trace marks what    *)
(* ParallelTrace shows a trace to mark.  Allocation is more liberal than   *)
(* ImmixSpace: a mutator takes any hole, not only those of its own block.  *)
(* A line is "Free", "FreshAlloc" or "Kept" (Live or ConservLive).         *)
(***************************************************************************)
EXTENDS Benchmarks, AddressMap, FiniteSets

CONSTANTS
    Mutator,         \* the threads, numbered from 1
    None,            \* no controller
    Programs,        \* which benchmarks
    BYTES_IN_LINE,
    LINES_IN_BLOCK,
    MarkFrames,      \* how many frames above the marked one may reach beyond
                     \* the mark, see Scanned
    MaxFrames,       \* bound: the depth of a stack
    MaxChance        \* bound: dead words taken for roots, and collections
                     \* triggered while there are free lines, in a run

ASSUME ScanAssumption ==
    /\ 1 \in Mutator /\ None \notin Mutator
    /\ Programs \subseteq Program
    /\ BYTES_IN_LINE \in Nat \ {0} /\ BYTES_IN_LINE % POINTER_SIZE = 0
    /\ \A p \in Programs : Layout(p).size <= BYTES_IN_LINE
    /\ (END - START) % BYTES_IN_LINE = 0
    /\ LINES_IN_BLOCK \in Nat \ {0}
    /\ MarkFrames \in Nat /\ MaxFrames \in Nat \ {0} /\ MaxChance \in Nat

VARIABLES
    registered, parked, phase,   \* see Safepoint
    program,                     \* the benchmark that runs
    stack,                       \* frames; those above sp are what calls left
    sp,                          \* how many of them are in use
    ret,                         \* the register with the last result
    low_water_mark,              \* frames up to this one are not scanned
    memory,                      \* the words of the space
    alloc_map, trace_map, mark_state,
    line_mark_table,
    cursor, limit,
    take_yield, leader,          \* the flags, and the CONTROLLER
    ROOTS,
    gc,                          \* the controller's place in gc()
    marked,                      \* what the last trace has marked
    chance                       \* counts towards MaxChance

\* The threads of the program exist from the start; they register themselves.
Initial == {}

SP == INSTANCE Safepoint

world == <<registered, parked, phase, take_yield, leader>>
thread == <<stack, sp, ret, low_water_mark>>
maps == <<alloc_map, trace_map, mark_state>>
bump == <<cursor, limit>>
collector == <<ROOTS, gc, marked>>
vars == <<world, program, thread, memory, maps, line_mark_table, bump, collector,
          chance>>

Line == 0 .. diff(END, START) \div BYTES_IN_LINE - 1
LineOf(addr) == diff(addr, START) \div BYTES_IN_LINE
LineStart(l) == START + l * BYTES_IN_LINE

\* A word of memory; what lies behind the space is zero.
Peek(w) == IF w \in Word THEN memory[w] ELSE Null

(***************************************************************************)
(* objectmodel.rs: the byte of alloc_map.                                  *)
(***************************************************************************)
RefBits(byte) == byte % 64
HasObjStart(byte) == (byte \div 64) % 2 = 1
HasShortEncode(byte) == byte \div 128 = 1

\* The reference fields that the patterns the tracer knows stand for.
KnownPattern(byte) == RefBits(byte) \in {1, 3, 15}
RefFields(byte) ==
    0 .. (CASE RefBits(byte) = 1 -> 0 [] RefBits(byte) = 3 -> 1 [] OTHER -> 3)

get_ref_byte(obj) == alloc_map[Index(obj)]

\* Variant of is_valid_object: any address of the space will do.
is_valid_object_untested(addr) == InSpace(addr)

is_valid_object(addr) == InSpace(addr) /\ HasObjStart(alloc_map[Index(addr)])

is_untraced_and_valid(addr) ==
    HasEntry(addr) /\ trace_map[SafeIndex(addr)] # mark_state

(***************************************************************************)
(* Threads.                                                                *)
(***************************************************************************)
\* The first frame of a thread, and what lies above it.
NewFrame == [fn |-> program, d |-> 0, pc |-> 1, a |-> Null, b |-> Null, vec |-> <<>>]

Threads(p) == IF p = "mt_gcbench" THEN Mutator ELSE {1}

Init ==
    /\ SP!Init
    /\ program \in Programs
    /\ stack = [m \in Mutator |-> [k \in 1 .. MaxFrames |-> NewFrame]]
    /\ sp = [m \in Mutator |-> 1]
    /\ ret = [m \in Mutator |-> Null]
    /\ low_water_mark = [m \in Mutator |-> Null]
    /\ memory = [w \in Word |-> Null]
    /\ alloc_map = [w \in Word |-> 0]
    /\ trace_map = [w \in Word |-> 0]
    /\ mark_state = 0
    /\ line_mark_table = [l \in Line |-> "Free"]
    /\ cursor = [m \in Mutator |-> Null]
    /\ limit = [m \in Mutator |-> Null]
    /\ take_yield = [m \in Mutator |-> FALSE]
    /\ leader = None
    /\ ROOTS = {}
    /\ gc = "idle"
    /\ marked = {}
    /\ chance = 0

Top(m) == stack[m][sp[m]]
Instr(m) == Text[<<Top(m).fn, Top(m).d>>][Top(m).pc]

\* A mutator stops in sync_barrier; a thread without one runs on.
Stopped(m) == m \in registered /\ (phase # "running" \/ m \in parked \/ leader = m)

\* m executes its program, and comes next to an instruction op.
At(m, op) ==
    /\ m \in Threads(program)
    /\ ~ Stopped(m)
    /\ Instr(m)[1] = op

\* The top frame becomes f, at its next instruction.
Advance(m, f) == stack' = [stack EXCEPT ![m][sp[m]] = [f EXCEPT !.pc = @ + 1]]

Quiet == UNCHANGED <<world, program, maps, line_mark_table, bump, collector, chance>>

set_low_water_mark(m) ==
    /\ At(m, "set_low_water_mark")
    /\ low_water_mark' = [low_water_mark EXCEPT ![m] = sp[m]]
    /\ Advance(m, Top(m))
    /\ UNCHANGED <<sp, ret, memory>>
    /\ Quiet

\* save, store, load, init_Node and the operations on a Vec.
Field(f) == Layout(program)[f]
Compute(m) ==
    LET f == Top(m)
        i == Instr(m)
        word(x, field) == Index(x + Field(field))
    IN  /\ \/ /\ At(m, "save")
              /\ Advance(m, [f EXCEPT ![i[2]] = ret[m]])
              /\ UNCHANGED <<ret, memory>>
           \/ /\ At(m, "use")
              /\ Advance(m, f)
              /\ UNCHANGED <<ret, memory>>
           \/ /\ At(m, "store")
              /\ memory' = [memory EXCEPT ![word(f[i[2]], i[3])] = ret[m]]
              /\ Advance(m, f)
              /\ UNCHANGED ret
           \/ /\ At(m, "load")
              /\ ret' = [ret EXCEPT ![m] = Peek(word(f[i[2]], i[3]))]
              /\ Advance(m, f)
              /\ UNCHANGED memory
           \/ /\ At(m, "init_Node")
              /\ memory' = [memory EXCEPT ![word(ret[m], "left")] = f.a,
                                          ![word(ret[m], "right")] = f.b]
              /\ Advance(m, f)
              /\ UNCHANGED ret
           \/ /\ At(m, "push")
              /\ Advance(m, [f EXCEPT !.vec = Append(@, ret[m])])
              /\ UNCHANGED <<ret, memory>>
           \/ /\ At(m, "fill")
              /\ memory' = [w \in Word |->
                    LET n == w - Index(ret[m]) IN
                    IF n \in 0 .. Len(f.vec) - 1 THEN f.vec[Len(f.vec) - n]
                    ELSE memory[w]]
              /\ Advance(m, [f EXCEPT !.vec = <<>>])
              /\ UNCHANGED ret
        /\ UNCHANGED <<sp, low_water_mark>>
        /\ Quiet

\* A call pushes a frame, whose locals other than the argument hold what was
\* there before; a return leaves its frame behind.
CallReturn(m) ==
    /\ \/ /\ At(m, "call")
          /\ sp[m] < MaxFrames
          /\ LET k == sp[m] + 1
                 i == Instr(m)
             IN  /\ stack' = [stack EXCEPT
                        ![m][sp[m]].pc = @ + 1,
                        ![m][k] = [fn |-> i[2], d |-> i[3], pc |-> 1,
                                   a |-> IF i[2] = "Populate" THEN ret[m] ELSE @.a,
                                   b |-> @.b, vec |-> <<>>]]
                 /\ sp' = [sp EXCEPT ![m] = k]
       \/ /\ At(m, "return")
          /\ sp' = [sp EXCEPT ![m] = @ - 1]
          /\ UNCHANGED stack
    /\ UNCHANGED <<ret, low_water_mark, memory>>
    /\ Quiet

(***************************************************************************)
(* Allocation, and the registration of mutators.                           *)
(***************************************************************************)
size == Layout(program).size

\* Variant of Fits: the size of the object is forgotten.
FitsCursor(m) == cursor[m] < limit[m]

Fits(m) == cursor[m] + size <= limit[m]

init_object(S) ==
    alloc_map' = [w \in Word |-> IF \E addr \in S : Index(addr) = w
                                 THEN Layout(program).encode ELSE alloc_map[w]]

\* The fast path of alloc, with the init_object that follows it.
AllocFast(m) ==
    /\ At(m, "alloc") \/ At(m, "alloc_raw")
    /\ Fits(m)
    /\ cursor' = [cursor EXCEPT ![m] = @ + size]
    /\ ret' = [ret EXCEPT ![m] = cursor[m]]
    /\ IF At(m, "alloc") THEN init_object({cursor[m]}) ELSE UNCHANGED alloc_map
    /\ Advance(m, Top(m))
    /\ UNCHANGED <<world, program, sp, low_water_mark, memory, trace_map, mark_state,
                   line_mark_table, limit, collector, chance>>

\* init_loop of obj_init.rs.
InitLoop(m) ==
    /\ At(m, "init_vec")
    /\ init_object({Top(m).vec[i] : i \in DOMAIN Top(m).vec})
    /\ Advance(m, Top(m))
    /\ UNCHANGED <<world, program, sp, ret, low_water_mark, memory, trace_map,
                   mark_state, line_mark_table, bump, collector, chance>>

InAlloc(m) == (At(m, "alloc") \/ At(m, "alloc_raw")) /\ ~ Fits(m)

IsFree(l) == line_mark_table[l] = "Free"
BlockOf(l) == l \div LINES_IN_BLOCK

\* A maximal run of free lines of one block.
Hole(first, end) ==
    /\ \A l \in first .. end - 1 : IsFree(l) /\ BlockOf(l) = BlockOf(first)
    /\ first > 0 => ~ IsFree(first - 1) \/ BlockOf(first - 1) # BlockOf(first)
    /\ end \in Line => ~ IsFree(end) \/ BlockOf(end) # BlockOf(first)

TakeHole(m) ==
    /\ InAlloc(m)
    /\ \E first \in Line : \E end \in first + 1 .. Cardinality(Line) :
        /\ Hole(first, end)
        /\ cursor' = [cursor EXCEPT ![m] = LineStart(first)]
        /\ limit' = [limit EXCEPT ![m] = LineStart(end)]
        /\ line_mark_table' = [l \in Line |->
                IF l \in first .. end - 1 THEN "FreshAlloc" ELSE line_mark_table[l]]
    /\ UNCHANGED <<world, program, thread, memory, maps, collector, chance>>

\* get_next_usable_block finds none: trigger_gc.  Free lines may be left, in
\* the blocks of other mutators.
TriggerGC(m) ==
    /\ InAlloc(m)
    /\ ~ take_yield[m]
    /\ IF \E l \in Line : IsFree(l)
       THEN chance < MaxChance /\ chance' = chance + 1
       ELSE UNCHANGED chance
    /\ take_yield' = [n \in Mutator |-> take_yield[n] \/ n \in registered]
    /\ UNCHANGED <<registered, parked, phase, leader, program, thread, memory, maps,
                   line_mark_table, bump, collector>>

\* new takes no notice of a collection; only a controller that still counts
\* takes notice of the new mutator.
NewMutator(m) ==
    /\ At(m, "new")
    /\ registered' = registered \cup {m}
    /\ Advance(m, Top(m))
    /\ UNCHANGED <<parked, phase, take_yield, leader, program, sp, ret, low_water_mark,
                   memory, maps, line_mark_table, bump, collector, chance>>

DestroyMutator(m) ==
    /\ At(m, "destroy")
    /\ registered' = registered \ {m}
    /\ Advance(m, Top(m))
    /\ UNCHANGED <<parked, phase, take_yield, leader, program, sp, ret, low_water_mark,
                   memory, maps, line_mark_table, bump, collector, chance>>

(***************************************************************************)
(* sync_barrier: stack_scan, then wait.                                    *)
(***************************************************************************)
\* The locals of frame k that m will still read.
LiveLocals(m, k) ==
    LET f == stack[m][k] IN LiveBefore[<<f.fn, f.d>>][f.pc]
HeldBy(m, frames) ==
    UNION {{stack[m][k][x] : x \in LiveLocals(m, k)} : k \in frames}

\* The frames that lie wholly between the stack pointer and the low water mark.
\* The mark is the stack pointer inside set_low_water_mark: the frame of its
\* caller, and all below, are beyond it, and so may be the first frames (or parts
\* of them) of the calls that come later to where set_low_water_mark had its own.
\* None if the mark was never set.
Scanned(m) ==
    IF low_water_mark[m] = Null THEN {}
    ELSE low_water_mark[m] + MarkFrames + 1 .. sp[m]

\* The words the scan reads for certain.  A local that is alive is in its
\* frame, or in a register that a deeper frame has saved, or in a register.
Must(m) == HeldBy(m, Scanned(m))

\* The words it may read: dead words that frames and calls have left in the
\* stack or in registers, and registers that hold the locals of other frames.
May(m) == {stack[m][k][x] : k \in 1 .. MaxFrames, x \in Local} \cup {ret[m]}

\* Variant of stack_scan: the loop compares the wrong way round, and ends at once.
stack_scan_nothing(m, seen) == {v \in seen : is_valid_object(v)}

stack_scan(m, seen) == {v \in Must(m) \cup seen : is_valid_object(v)}

EnterBarrier(m) ==
    /\ InAlloc(m)
    /\ take_yield[m]
    /\ \E seen \in SUBSET {v \in May(m) \ Must(m) : is_valid_object(v)} :
        /\ chance + Cardinality(seen) <= MaxChance
        /\ chance' = chance + Cardinality(seen)
        /\ ROOTS' = ROOTS \cup stack_scan(m, seen)
    /\ \/ /\ leader = None
          /\ leader' = m
          /\ UNCHANGED <<registered, parked, phase>>
       \/ /\ leader # None
          /\ SP!Park(m)
          /\ UNCHANGED leader
    /\ UNCHANGED <<take_yield, program, thread, memory, maps, line_mark_table, bump,
                   gc, marked>>

StartGC(m) ==
    /\ leader = m
    /\ SP!Collect(m)
    /\ gc' = "trace"
    /\ marked' = {}
    /\ UNCHANGED <<take_yield, leader, program, thread, memory, maps, line_mark_table,
                   bump, ROOTS, chance>>

(***************************************************************************)
(* gc().                                                                   *)
(***************************************************************************)

\* The words in the reference fields of obj.
Fields(obj) == {Peek(Index(obj) + k) : k \in RefFields(get_ref_byte(obj))}

\* panic!("unexpected ref_bits patterns") and assert!(short_encode).
TracerPanics(obj) ==
    ~ KnownPattern(get_ref_byte(obj)) \/ ~ HasShortEncode(get_ref_byte(obj))

\* mark_line_live: the line of every object in S, and the next one.
MarkedLines(S) == {LineOf(obj) : obj \in S} \cup {LineOf(obj) + 1 : obj \in S}

\* The trace, round by round: the objects in the injector are marked, and the
\* untraced ones they refer to take their place.  ParallelTrace has the steps
\* of the workers, and that their order does not matter.
TraceRound ==
    /\ gc = "trace"
    /\ ROOTS # {}
    /\ marked' = marked \cup ROOTS
    /\ trace_map' = [w \in Word |-> IF \E obj \in ROOTS : Index(obj) = w
                                    THEN mark_state ELSE trace_map[w]]
    /\ line_mark_table' = [l \in Line |-> IF l \in MarkedLines(ROOTS)
                                          THEN "Kept" ELSE line_mark_table[l]]
    /\ IF \E obj \in ROOTS : TracerPanics(obj)
       THEN gc' = "panicked" /\ UNCHANGED ROOTS
       ELSE /\ ROOTS' = {v \in UNION {Fields(obj) : obj \in ROOTS} \ ROOTS :
                            is_untraced_and_valid(v)}
            /\ UNCHANGED gc
    /\ UNCHANGED <<world, program, thread, memory, alloc_map, mark_state, bump, chance>>

\* Variant of flip_mark_state: it counts.
count_mark_state == mark_state' = mark_state + 1

flip_mark_state == mark_state' = 1 - mark_state

\* sweep, flip_mark_state and the end of gc().  What the sweep frees keeps its
\* words and its bytes in alloc_map.
SweepAndFlip ==
    /\ gc = "trace"
    /\ ROOTS = {}
    /\ line_mark_table' = [l \in Line |->
            IF line_mark_table[l] = "Kept" THEN "Kept" ELSE "Free"]
    /\ IF \A l \in Line : line_mark_table[l] = "Kept"
       THEN gc' = "out of memory" /\ UNCHANGED <<phase, registered, parked, mark_state>>
       ELSE /\ gc' = "idle"
            /\ flip_mark_state
            /\ SP!Finish
    /\ UNCHANGED <<take_yield, leader, program, thread, memory, alloc_map, trace_map,
                   bump, ROOTS, marked, chance>>

Resume ==
    /\ SP!Release
    /\ take_yield' = [m \in Mutator |-> FALSE]
    /\ leader' = None
    /\ cursor' = [m \in Mutator |-> Null]
    /\ limit' = [m \in Mutator |-> Null]
    /\ UNCHANGED <<program, thread, memory, maps, line_mark_table, collector, chance>>

-----------------------------------------------------------------------------
ThreadStep(m) ==
    \/ set_low_water_mark(m) \/ Compute(m) \/ CallReturn(m)
    \/ AllocFast(m) \/ InitLoop(m) \/ TakeHole(m) \/ TriggerGC(m)
    \/ NewMutator(m) \/ DestroyMutator(m)
    \/ EnterBarrier(m) \/ StartGC(m)

\* A thread has registered during a collection: somebody neither collects nor is
\* parked.
Late == phase # "running" /\ parked # registered \ {leader}

Next ==
    /\ ~ Late
    /\ \/ \E m \in Mutator : ThreadStep(m)
       \/ TraceRound \/ SweepAndFlip \/ Resume

Spec == Init /\ [][Next]_vars

(***************************************************************************)
(* Properties.                                                             *)
(***************************************************************************)

\* What the program's pointers hold: null, or an object that lies in the space.
Object == START .. END - size
Pointer == Object \cup {Null}

Frame == [fn : Name, d : Nat, pc : Nat, a : Pointer, b : Pointer, vec : Seq(Pointer)]

\* Type invariant.
TypeOK ==
    /\ program \in Programs
    /\ registered \subseteq Threads(program) /\ parked \subseteq registered
    /\ phase \in {"running", "collecting", "releasing"}
    /\ stack \in [Mutator -> [1 .. MaxFrames -> Frame]]
    /\ sp \in [Mutator -> 1 .. MaxFrames]
    /\ ret \in [Mutator -> Pointer]
    /\ low_water_mark \in [Mutator -> 0 .. MaxFrames]
    /\ memory \in [Word -> Pointer]
    /\ alloc_map \in [Word -> {0, Layout(program).encode}]
    /\ trace_map \in [Word -> {0, 1}] /\ mark_state \in {0, 1}
    /\ line_mark_table \in [Line -> {"Free", "FreshAlloc", "Kept"}]
    /\ cursor \in [Mutator -> Address] /\ limit \in [Mutator -> Address]
    /\ take_yield \in [Mutator -> BOOLEAN] /\ leader \in registered \cup {None}
    /\ ROOTS \cup marked \subseteq Object
    /\ gc \in {"idle", "trace", "panicked", "out of memory"}
    /\ chance \in 0 .. MaxChance

\* assert!(addr >= space_start && addr < space_end) in the tracer: whatever
\* words it meets in stacks, registers and uninitialised fields, null among
\* them, it only goes on with addresses of the space.  AddressMap, which does
\* not check, has an entry for each, and SafeAddressMap has it at the same index.
TracedInSpace ==
    \A obj \in ROOTS \cup marked :
        InSpace(obj) /\ Index(obj) < MapLen /\ Index(obj) = SafeIndex(obj)

\* The tracer never meets an unexpected ref_bits pattern, although fields of a
\* new object hold old words (the memset of a new hole is commented out) and
\* alloc_map has the bytes of dead objects: every word it follows was once the
\* address of an object, and its byte has stayed.
PatternsExpected == gc # "panicked"

\* The benchmarks never write or read through a pointer that is null or not an
\* object of the space (the unsafe blocks of rust_benchmarks/), although the
\* fields of a new object hold old words and other threads write to objects that
\* a collection has freed too early: what is loaded was stored before, and is
\* never replaced by null.
DereferencesObjects ==
    \A m \in Threads(program) :
        /\ At(m, "store") \/ At(m, "load") => Top(m)[Instr(m)[2]] \in Object
        /\ At(m, "init_Node") \/ At(m, "fill") => ret[m] \in Object

\* No byte of the object at x is free, or about to be handed out again.
Safe(x) ==
    \A k \in 0 .. size \div POINTER_SIZE - 1 :
        LET addr == x + k * POINTER_SIZE
        IN  /\ ~ IsFree(LineOf(addr))
            /\ \A m \in registered : ~ (cursor[m] <= addr /\ addr < limit[m])

\* An object that a live local of a frame below the mark (a node that Populate
\* fills, the subtrees MakeTree has in its hands) refers to stays allocated as
\* long as the local lives, through every collection, whoever starts it and
\* whoever registers or leaves meanwhile, until a thread registers during one.
\* Nothing is said of the frames at the mark: their locals may be lost.
HeldSurvives ==
    [][\A m \in Mutator : \A x \in Must(m) \ {Null} :
        Safe(x) /\ x \in Must(m)' => Safe(x)']_vars

(***************************************************************************)
(* The inductive invariant.                                                *)
(***************************************************************************)

\* The first frame of a thread runs the program, the others its functions.
FramesInv ==
    \A m \in Mutator :
        /\ stack[m][1].fn = program
        /\ \A k \in 1 .. sp[m] :
            LET f == stack[m][k]
            IN  /\ <<f.fn, f.d>> \in Function
                /\ f.pc \in 1 .. Len(Text[<<f.fn, f.d>>])
                /\ k > 1 => f.fn \notin Program

\* Where in its program a thread is, and what it has therefore done: whoever
\* allocates or calls is registered, whoever is yet to register has no region.
EnrolledInv ==
    \A m \in Mutator :
        /\ m \in Threads(program) =>
            (m \in registered <=> Enrolled(program, stack[m][1].pc))
        /\ sp[m] > 1 => m \in registered
        /\ NotYetNew(program, stack[m][1].pc) => cursor[m] = Null /\ limit[m] = Null

\* A region lies in the space.
BumpInv ==
    \A m \in Mutator :
        \/ cursor[m] = Null /\ limit[m] = Null
        \/ START <= cursor[m] /\ cursor[m] <= limit[m] /\ limit[m] <= END

\* The byte of the object at v is there, except for the objects of obj_init.rs,
\* of which nothing but locals knows before init_loop.
Known(v) == v \in Object => get_ref_byte(v) = Layout(program).encode
KnownInv ==
    /\ \A w \in Word : Known(memory[w])
    /\ \A obj \in ROOTS : Known(obj)
    /\ program = "initobj" => \A m \in Mutator : sp[m] = 1 /\ low_water_mark[m] = Null
    /\ program # "initobj" =>
        \A m \in Mutator :
            /\ Known(ret[m])
            /\ \A k \in 1 .. MaxFrames :
                LET f == stack[m][k]
                IN  Known(f.a) /\ Known(f.b) /\ \A j \in DOMAIN f.vec : Known(f.vec[j])

\* The handshake and the collector.
PhaseInv ==
    /\ phase = "collecting" <=> gc # "idle"
    /\ phase # "running" => leader # None
    /\ leader \notin parked
    /\ parked # {} => leader # None

\* What live locals of a stopped thread refer to is a root, or has been marked,
\* and what has been marked is on lines that are kept.
HeldInv ==
    /\ phase = "running" =>
        \A m \in parked \cup ({leader} \ {None}) : Must(m) \cap Object \subseteq ROOTS
    /\ gc = "trace" =>
        /\ \A m \in parked \cup {leader} : Must(m) \cap Object \subseteq ROOTS \cup marked
        /\ \A l \in MarkedLines(marked) \cap Line : line_mark_table[l] = "Kept"

ScanInv ==
    /\ TypeOK /\ FramesInv /\ EnrolledInv /\ BumpInv /\ KnownInv /\ PhaseInv /\ HeldInv
    /\ PatternsExpected
=============================================================================
