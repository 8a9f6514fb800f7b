----------------------------- MODULE CBaseline -----------------------------
(***************************************************************************)
(* The C version of the allocator (c_src/), the baseline of the            *)
(* benchmarks: block lists of the Immix space, mutators, and the free list *)
(* space of large objects.  It allocates under three mutexes and never     *)
(* collects: a space that is exhausted ends the process.                   *)
(*                                                                         *)
(* Four accesses may reach memory that is not the allocator's, see Stray:  *)
(* through two pointers that malloc leaves as they are (next of the last   *)
(* block, and used_blocks, each NULL or Wild, any other value), into the   *)
(* part of the last block behind the mapping, and behind the end of        *)
(* MUTATORS.  Each is a crash, or it goes unnoticed: the process goes on,  *)
(* with Wild where a block should be, and from here on nothing is certain. *)
(* The history variable stray counts them.                                 *)
(*                                                                         *)
(* All lines of a block are free when a mutator takes it, so its first     *)
(* hole is the whole block; room counts the objects that still fit.        *)
(***************************************************************************)
EXTENDS Integers, Sequences, FiniteSets

CONSTANTS
    Thread,
    MAX_MUTATORS,
    BLOCKS,          \* total_blocks
    OBJECTS,         \* how many objects fit into a block
    INT_MAX,         \* the largest int
    LO_SPACE_SIZE,
    Sizes,           \* sizes of large objects, ints
    MaxNodes,        \* bound: how many large objects are allocated
    MaxStray,        \* bound: how many stray accesses go unnoticed
    NULL, Wild

Block == 0 .. BLOCKS - 1
Pointer == Block \cup {NULL, Wild}

ASSUME BaselineAssumption ==
    /\ IsFiniteSet(Thread) /\ MAX_MUTATORS \in Nat
    /\ BLOCKS \in Nat \ {0} /\ OBJECTS \in Nat \ {0}
    /\ INT_MAX \in Nat \ {0} /\ LO_SPACE_SIZE \in 0 .. INT_MAX
    /\ Sizes \subseteq 1 .. INT_MAX
    /\ MaxNodes \in Nat /\ MaxStray \in Nat
    /\ {NULL, Wild} \cap (Thread \cup Block) = {} /\ NULL # Wild

VARIABLES
    process,              \* "running", "crashed", or why it has called exit(1)
    stray,                \* history: how many accesses were to memory of others
    lock,                 \* who holds id_lock, and the locks of the two spaces
    pc,
    N_MUTATORS, MUTATORS,
    overhang,             \* 1 if the last block ends behind the mapping, or 0
    usable_blocks, used_blocks, next, prev,
    block, room,          \* a mutator's block; while it takes it, new_block
    head, last, nodes,    \* the FreeListSpace; nodes are numbered, 0 is NULL
    used_size,
    size                  \* the large object a thread allocates

lists == <<overhang, usable_blocks, used_blocks, next, prev>>
mutators == <<N_MUTATORS, MUTATORS>>
locals == <<block, room>>
lo_space == <<head, last, nodes, used_size>>
vars == <<process, stray, lock, pc, mutators, lists, locals, lo_space, size>>

\* gc_init, with ImmixSpace_new, init_blocks and FreeListSpace_new.
Init ==
    /\ process = "running" /\ stray = 0
    /\ lock = [l \in {"id", "immix", "lo"} |-> NULL]
    /\ pc = [t \in Thread |-> "start"]
    /\ N_MUTATORS = 0
    /\ MUTATORS = [i \in 0 .. MAX_MUTATORS - 1 |-> NULL]
    /\ overhang \in {0, 1}
    /\ usable_blocks = 0
    /\ used_blocks \in {NULL, Wild}
    /\ \E garbage \in {NULL, Wild} :
        next = [b \in Block |-> IF b = BLOCKS - 1 THEN garbage ELSE b + 1]
    /\ prev = [b \in Block |-> IF b = 0 THEN NULL ELSE b - 1]
    /\ block = [t \in Thread |-> NULL]
    /\ room = [t \in Thread |-> 0]
    /\ head = 0 /\ last = 0 /\ nodes = <<>> /\ used_size = 0
    /\ size = [t \in Thread |-> 0]

At(t, l) == process = "running" /\ pc[t] = l
Goto(t, l) == pc' = [pc EXCEPT ![t] = l]

pthread_mutex_lock(t, l) == lock[l] = NULL /\ lock' = [lock EXCEPT ![l] = t]
pthread_mutex_unlock(l) == lock' = [lock EXCEPT ![l] = NULL]

\* exit(1), whoever holds what.
Exit(why) ==
    /\ process' = why
    /\ UNCHANGED <<stray, lock, pc, mutators, lists, locals, lo_space, size>>

\* The value of new_block->next; Wild is the address of anything.
NextOf(p) == IF p \in Block THEN {next[p]} ELSE Pointer

\* The next access of t is to memory that is not the allocator's: a slot that
\* MUTATORS does not have, new_block or new_block->next or used_blocks when it
\* is garbage, or a last block that starts inside the mapping and ends outside
\* (start is rounded up, and end is as far from it as if it were not).
Stray(t) ==
    \/ pc[t] = "new" /\ N_MUTATORS >= MAX_MUTATORS
    \/ pc[t] = "unlink" /\ block[t] # NULL /\ Wild \in {block[t]} \cup NextOf(block[t])
    \/ pc[t] = "push" /\ Wild \in {block[t], used_blocks}
    \/ pc[t] = "hole" /\ (block[t] = Wild \/ (block[t] = BLOCKS - 1 /\ overhang = 1))

Access(t) ==
    IF Stray(t) THEN stray < MaxStray /\ stray' = stray + 1 ELSE UNCHANGED stray

Crash(t) ==
    /\ process = "running" /\ Stray(t)
    /\ process' = "crashed" /\ stray' = stray + 1
    /\ UNCHANGED <<lock, pc, mutators, lists, locals, lo_space, size>>

(***************************************************************************)
(* ImmixMutatorLocal_new.                                                  *)
(***************************************************************************)
EnterNew(t) ==
    /\ At(t, "start")
    /\ pthread_mutex_lock(t, "id")
    /\ Goto(t, "new")
    /\ UNCHANGED <<process, stray, mutators, lists, locals, lo_space, size>>

LeaveNew(t) ==
    /\ At(t, "new")
    /\ Access(t)
    /\ MUTATORS' = [i \in DOMAIN MUTATORS |-> IF i = N_MUTATORS THEN t ELSE MUTATORS[i]]
    /\ N_MUTATORS' = N_MUTATORS + 1
    /\ pthread_mutex_unlock("id")
    /\ Goto(t, "mutator")
    /\ UNCHANGED <<process, lists, locals, lo_space, size>>

(***************************************************************************)
(* ImmixMutatorLocal_alloc and ImmixSpace_get_next_usable_block.           *)
(***************************************************************************)
\* Variant of Alloc: one object past the limit.
AllocPastLimit(t) ==
    /\ At(t, "mutator") /\ room[t] >= 0
    /\ room' = [room EXCEPT ![t] = @ - 1]
    /\ UNCHANGED <<process, stray, lock, pc, mutators, lists, block, lo_space, size>>

Alloc(t) ==
    /\ At(t, "mutator") /\ room[t] > 0
    /\ room' = [room EXCEPT ![t] = @ - 1]
    /\ UNCHANGED <<process, stray, lock, pc, mutators, lists, block, lo_space, size>>

\* Variant of AllocFromGlobal: without the lock of the space.
AllocFromGlobalUnlocked(t) ==
    /\ At(t, "mutator") /\ room[t] = 0
    /\ block' = [block EXCEPT ![t] = usable_blocks]
    /\ Goto(t, "unlink")
    /\ UNCHANGED <<process, stray, lock, mutators, lists, room, lo_space, size>>

AllocFromGlobal(t) ==
    /\ At(t, "mutator") /\ room[t] = 0
    /\ pthread_mutex_lock(t, "immix")
    /\ block' = [block EXCEPT ![t] = usable_blocks]
    /\ Goto(t, "unlink")
    /\ UNCHANGED <<process, stray, mutators, lists, room, lo_space, size>>

\* Variant of NoneUsable: the early exit keeps the mutex.
NoneUsableKeepsLock(t) ==
    /\ At(t, "unlink") /\ block[t] = NULL
    /\ Goto(t, "exhausted")
    /\ UNCHANGED <<process, stray, lock, mutators, lists, locals, lo_space, size>>

\* new_block is NULL.
NoneUsable(t) ==
    /\ At(t, "unlink") /\ block[t] = NULL
    /\ pthread_mutex_unlock("immix")
    /\ Goto(t, "exhausted")
    /\ UNCHANGED <<process, stray, mutators, lists, locals, lo_space, size>>

Exhausted(t) == At(t, "exhausted") /\ Exit("immix_exhausted")

\* Variant of Unlink: new_block->next is read after it has been overwritten.
UnlinkLate(t) ==
    /\ At(t, "unlink") /\ block[t] # NULL
    /\ Access(t)
    /\ usable_blocks' = used_blocks
    /\ prev' = [b \in Block |-> IF b = used_blocks THEN NULL ELSE prev[b]]
    /\ Goto(t, "push")
    /\ UNCHANGED <<process, lock, mutators, overhang, used_blocks, next, locals, lo_space,
                   size>>

\* remove from usable_blocks
Unlink(t) ==
    /\ At(t, "unlink") /\ block[t] # NULL
    /\ Access(t)
    /\ \E n \in NextOf(block[t]) :
        /\ usable_blocks' = n
        /\ prev' = [b \in Block |-> IF b = n THEN NULL ELSE prev[b]]
    /\ Goto(t, "push")
    /\ UNCHANGED <<process, lock, mutators, overhang, used_blocks, next, locals, lo_space,
                   size>>

\* Variant of PushUsed: the old head of used_blocks keeps its prev.
PushUsedKeepsPrev(t) ==
    /\ At(t, "push")
    /\ Access(t)
    /\ next' = [b \in Block |-> IF b = block[t] THEN used_blocks ELSE next[b]]
    /\ prev' = [b \in Block |-> IF b = block[t] THEN NULL ELSE prev[b]]
    /\ used_blocks' = block[t]
    /\ pthread_mutex_unlock("immix")
    /\ Goto(t, "hole")
    /\ UNCHANGED <<process, mutators, overhang, usable_blocks, locals, lo_space, size>>

\* add to used block
PushUsed(t) ==
    /\ At(t, "push")
    /\ Access(t)
    /\ next' = [b \in Block |-> IF b = block[t] THEN used_blocks ELSE next[b]]
    /\ prev' = [b \in Block |-> IF b = used_blocks THEN block[t]
                                ELSE IF b = block[t] THEN NULL ELSE prev[b]]
    /\ used_blocks' = block[t]
    /\ pthread_mutex_unlock("immix")
    /\ Goto(t, "hole")
    /\ UNCHANGED <<process, mutators, overhang, usable_blocks, locals, lo_space, size>>

\* ImmixMutatorLocal_try_alloc_from_local: the lines are cleared and marked.  What
\* it finds in garbage, or in a block that somebody has taken before, is open.
TakeHole(t) ==
    /\ At(t, "hole")
    /\ Access(t)
    /\ \E n \in 0 .. OBJECTS :
        /\ stray' = 0 => n = OBJECTS
        /\ room' = [room EXCEPT ![t] = n]
    /\ Goto(t, "mutator")
    /\ UNCHANGED <<process, lock, mutators, lists, block, lo_space, size>>

(***************************************************************************)
(* alloc_large and FreeListSpace_alloc.                                    *)
(***************************************************************************)
AllocLarge(t) ==
    /\ At(t, "mutator") /\ Len(nodes) < MaxNodes
    /\ pthread_mutex_lock(t, "lo")
    /\ \E s \in Sizes : size' = [size EXCEPT ![t] = s]
    /\ Goto(t, "check")
    /\ UNCHANGED <<process, stray, mutators, lists, locals, lo_space>>

\* used_size + size, of ints: what does not fit wraps around.
Sum(t) ==
    IF used_size + size[t] > INT_MAX THEN used_size + size[t] - 2 * (INT_MAX + 1)
    ELSE used_size + size[t]

\* Variant of TooLarge: the object itself is not counted.
TooLargeBefore(t) == used_size > LO_SPACE_SIZE

TooLarge(t) == Sum(t) > LO_SPACE_SIZE

\* Variant of NoRoom: the early return keeps the mutex.
NoRoomKeepsLock(t) ==
    /\ At(t, "check") /\ TooLarge(t)
    /\ Goto(t, "full")
    /\ UNCHANGED <<process, stray, lock, mutators, lists, locals, lo_space, size>>

\* return 0
NoRoom(t) ==
    /\ At(t, "check") /\ TooLarge(t)
    /\ pthread_mutex_unlock("lo")
    /\ Goto(t, "full")
    /\ UNCHANGED <<process, stray, mutators, lists, locals, lo_space, size>>

ExhaustedLarge(t) == At(t, "full") /\ Exit("lo_exhausted")

\* posix_memalign fails: exit(1) inside the critical section.
FailedAlloc(t) ==
    /\ At(t, "check") /\ ~ TooLarge(t)
    /\ Exit("memalign_failed")

\* Variant of LinkNode: every node becomes the head.
LinkNodeAtHead(t) ==
    /\ At(t, "check") /\ ~ TooLarge(t)
    /\ LET node == Len(nodes) + 1
           new == [size |-> size[t], next |-> 0]
       IN  /\ nodes' = IF last = 0 THEN Append(nodes, new)
                       ELSE Append([nodes EXCEPT ![last].next = node], new)
           /\ head' = node
           /\ last' = IF last = 0 THEN node ELSE last
    /\ Goto(t, "account")
    /\ UNCHANGED <<process, stray, lock, mutators, lists, locals, used_size, size>>

LinkNode(t) ==
    /\ At(t, "check") /\ ~ TooLarge(t)
    /\ LET node == Len(nodes) + 1
           new == [size |-> size[t], next |-> 0]
       IN  IF last = 0
           THEN nodes' = Append(nodes, new) /\ head' = node /\ last' = node
           ELSE /\ nodes' = Append([nodes EXCEPT ![last].next = node], new)
                /\ UNCHANGED <<head, last>>
    /\ Goto(t, "account")
    /\ UNCHANGED <<process, stray, lock, mutators, lists, locals, used_size, size>>

Account(t) ==
    /\ At(t, "account")
    /\ used_size' = Sum(t)
    /\ pthread_mutex_unlock("lo")
    /\ Goto(t, "mutator")
    /\ UNCHANGED <<process, stray, mutators, lists, locals, head, last, nodes, size>>

-----------------------------------------------------------------------------
\* What a thread does once it is inside a function that locks.
Inside(t) ==
    \/ LeaveNew(t) \/ NoneUsable(t) \/ Exhausted(t) \/ Unlink(t) \/ PushUsed(t)
    \/ TakeHole(t) \/ NoRoom(t) \/ ExhaustedLarge(t) \/ FailedAlloc(t) \/ LinkNode(t)
    \/ Account(t) \/ Crash(t)

Next ==
    \E t \in Thread :
        Inside(t) \/ EnterNew(t) \/ Alloc(t) \/ AllocFromGlobal(t) \/ AllocLarge(t)

Spec == Init /\ [][Next]_vars

(***************************************************************************)
(* Properties.  What they say of the allocator's own state they say up to  *)
(* the first access to memory of others.                                   *)
(***************************************************************************)
\* Type invariant.
TypeOK ==
    /\ process \in {"running", "crashed", "immix_exhausted", "lo_exhausted",
                    "memalign_failed"}
    /\ stray \in Nat /\ overhang \in {0, 1}
    /\ lock \in [{"id", "immix", "lo"} -> Thread \cup {NULL}]
    /\ pc \in [Thread -> {"start", "new", "mutator", "unlink", "push", "hole", "exhausted",
                          "check", "account", "full"}]
    /\ N_MUTATORS \in Nat
    /\ MUTATORS \in [0 .. MAX_MUTATORS - 1 -> Thread \cup {NULL}]
    /\ {usable_blocks, used_blocks} \subseteq Pointer
    /\ next \in [Block -> Pointer] /\ prev \in [Block -> Pointer]
    /\ block \in [Thread -> Pointer] /\ room \in [Thread -> 0 .. OBJECTS]
    /\ nodes \in Seq([size : Nat, next : Nat])
    /\ {head, last} \subseteq 0 .. Len(nodes)
    /\ used_size \in -(INT_MAX + 1) .. INT_MAX
    /\ size \in [Thread -> 0 .. INT_MAX]

\* The blocks on the list that starts at p.
ListFrom(p) ==
    {b \in Block : \A S \in SUBSET Block :
        /\ p \in Block => p \in S
        /\ \A c \in S : next[c] \in Block => next[c] \in S
        => b \in S}

\* Outside the critical section every block is on one of the two lists, which
\* are linked both ways, and the blocks in use are on the second.
ListsSound ==
    lock["immix"] = NULL /\ stray = 0 =>
        /\ ListFrom(usable_blocks) \cap ListFrom(used_blocks) = {}
        /\ ListFrom(usable_blocks) \cup ListFrom(used_blocks) = Block
        /\ \A b \in Block : /\ next[b] \in Block => prev[next[b]] = b
                            /\ prev[b] = NULL <=> b \in {usable_blocks, used_blocks}
        /\ \A t \in Thread : block[t] # NULL => block[t] \in ListFrom(used_blocks)

\* Two mutators never bump through the same block.
BlockOwnedOnce ==
    stray = 0 =>
        \A t, u \in Thread : t # u /\ block[t] \in Block /\ block[u] \in Block =>
            block[t] # block[u]

\* The uninitialised pointers and the end of the mapping are met with the first
\* block or with the last one, never in between; nothing else but a mutator more
\* than MAX_MUTATORS leads out of the allocator's memory; and until then "Space
\* exhausted" means that every block is in use.
EndsAtTheEnds ==
    [][/\ stray = 0 /\ stray' # 0 =>
            \/ N_MUTATORS >= MAX_MUTATORS
            \/ Cardinality(ListFrom(used_blocks)) \in {0, BLOCKS - 1, BLOCKS}
       /\ stray = 0 /\ process' = "immix_exhausted" => ListFrom(used_blocks) = Block]_vars

\* The sizes of the nodes ns, added up one by one.
Total(ns) == LET sum[i \in 0 .. Len(ns)] ==
                   IF i = 0 THEN 0 ELSE sum[i - 1] + ns[i].size
             IN  sum[Len(ns)]

\* used_size is what has been granted, up to the width of int.  The limit holds
\* as long as no object is so large that the sum of ints can wrap: one that is
\* larger than INT_MAX - LO_SPACE_SIZE may be granted, and turns used_size
\* negative.
NoneWraps == \A i \in 1 .. Len(nodes) : nodes[i].size <= INT_MAX - LO_SPACE_SIZE
LargeAccounted ==
    lock["lo"] = NULL /\ stray = 0 =>
        /\ \E k \in 0 .. Len(nodes) : Total(nodes) = used_size + k * (2 * (INT_MAX + 1))
        /\ NoneWraps => used_size = Total(nodes) /\ Total(nodes) <= LO_SPACE_SIZE

\* last stays at the first node: the list is the first node and the latest one,
\* ends there, and the nodes in between are on no list.
FirstAndLatest ==
    nodes # <<>> /\ stray = 0 =>
        /\ head = 1 /\ last = 1
        /\ nodes[1].next = IF Len(nodes) = 1 THEN 0 ELSE Len(nodes)
        /\ \A i \in 2 .. Len(nodes) : nodes[i].next = 0

\* No function returns with a mutex that it has locked, on any of its paths.
ReturnsUnlocked ==
    stray = 0 => \A t \in Thread :
        /\ lock["id"] = t => pc[t] = "new"
        /\ lock["immix"] = t => pc[t] \in {"unlink", "push"}
        /\ lock["lo"] = t => pc[t] \in {"check", "account"}

(***************************************************************************)
(* The inductive invariant.  Blocks are taken in the order of their        *)
(* addresses: so far Taken of them have left usable_blocks and Pushed have *)
(* reached used_blocks, the latest one first.                              *)
(***************************************************************************)
Taken == IF usable_blocks \in Block THEN usable_blocks ELSE BLOCKS
Pushed == IF used_blocks \in Block THEN used_blocks + 1 ELSE 0

\* Who is inside a critical section holds its mutex, and nobody else does.
LocksInv ==
    /\ \A t \in Thread :
        /\ pc[t] = "new" <=> lock["id"] = t
        /\ pc[t] \in {"unlink", "push"} <=> lock["immix"] = t
        /\ pc[t] \in {"check", "account"} <=> lock["lo"] = t
    /\ N_MUTATORS = Cardinality({t \in Thread : pc[t] \notin {"start", "new"}})

\* The blocks that are left are linked in order, both ways.
UsableLinked ==
    \A b \in Taken .. BLOCKS - 1 :
        /\ IF b = BLOCKS - 1 THEN next[b] \in {NULL, Wild} ELSE next[b] = b + 1
        /\ prev[b] = IF b = Taken THEN NULL ELSE b - 1

\* Those in use are linked from the latest to the first.
UsedLinked ==
    \A b \in 0 .. Pushed - 1 :
        /\ next[b] = IF b = 0 THEN NULL ELSE b - 1
        /\ prev[b] = IF b = Pushed - 1 THEN NULL ELSE b + 1

\* At most one block is between the lists, with the thread that holds the mutex.
TakenInOrder ==
    /\ usable_blocks # Wild
    /\ \A t \in Thread :
        /\ block[t] # Wild
        /\ pc[t] = "unlink" => block[t] = usable_blocks
        /\ pc[t] = "push" => block[t] = Pushed /\ Taken = Pushed + 1
        /\ pc[t] \notin {"unlink", "push"} /\ block[t] # NULL => block[t] < Pushed
        /\ pc[t] = "exhausted" => Pushed = BLOCKS
    /\ (\A t \in Thread : pc[t] # "push") => Taken = Pushed

LargeInv ==
    /\ nodes = <<>> => head = 0 /\ last = 0
    /\ used_size <= LO_SPACE_SIZE
    /\ \A t \in Thread : pc[t] = "account" =>
        /\ ~ TooLarge(t)
        /\ \E k \in 0 .. Len(nodes) : Total(nodes) = Sum(t) + k * (2 * (INT_MAX + 1))
        /\ NoneWraps => Sum(t) = Total(nodes)
    /\ (\A t \in Thread : pc[t] # "account") =>
        /\ \E k \in 0 .. Len(nodes) : Total(nodes) = used_size + k * (2 * (INT_MAX + 1))
        /\ NoneWraps => used_size = Total(nodes)

BaselineInv ==
    /\ TypeOK
    /\ BlockOwnedOnce /\ FirstAndLatest
    /\ stray = 0 =>
        /\ process # "crashed"
        /\ LocksInv /\ UsableLinked /\ UsedLinked /\ TakenInOrder /\ LargeInv
=============================================================================
