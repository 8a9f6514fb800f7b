----------------------------- MODULE Benchmarks -----------------------------
(***************************************************************************)
(* The programs of rust_benchmarks/, as code for the machine of module     *)
(* RootScan.  A function is a sequence of instructions; what alloc or a    *)
(* call returns is in the register ret until the next instruction; a frame *)
(* has two pointer locals a and b, and a Vec, whose elements are on the    *)
(* malloc heap.  Iteration counts and depths are constants, their loops    *)
(* are unrolled.                                                           *)
(***************************************************************************)
EXTENDS Integers, Sequences

CONSTANTS
    LongLivedDepth, StretchDepth,   \* kLongLivedTreeDepth, kStretchTreeDepth
    TimeDepth,                      \* the only turn of `while d <= kMaxTreeDepth`
    iNumIters,                      \* of TimeConstruction
    K, TREE_DEPTH, TREE_COUNT,      \* mt_trace.rs
    ALLOCATION_TIMES                \* of the programs with a single loop

ASSUME BenchmarkAssumption ==
    /\ {LongLivedDepth, StretchDepth, TimeDepth, iNumIters} \subseteq Nat
    /\ {K, TREE_DEPTH, TREE_COUNT} \subseteq Nat
    /\ ALLOCATION_TIMES \in Nat \ {0}

Program == {"gcbench", "mt_gcbench", "exhaust", "initobj", "trace", "mt-trace"}

Alloc == <<"alloc">>                \* mutator.alloc and init_object
AllocRaw == <<"alloc_raw">>         \* mutator.alloc alone
InitVec == <<"init_vec">>           \* init_object for every element of the Vec
Save(x) == <<"save", x>>            \* local x := ret
Use(x) == <<"use", x>>
Store(x, f) == <<"store", x, f>>    \* (*x).f := ret
Load(x, f) == <<"load", x, f>>      \* ret := (*x).f
InitNode == <<"init_Node">>         \* (*ret).left := a; (*ret).right := b
PushVec == <<"push">>
FillFromVec == <<"fill">>           \* pop every element into a field of ret
Call(fn, d) == <<"call", fn, d>>    \* with ret as argument
Return == <<"return">>
SetLowWaterMark == <<"set_low_water_mark">>
New == <<"new">>
Destroy == <<"destroy">>
Exit == <<"exit">>

Local == {"a", "b"}                 \* the pointer locals of a frame

\* The locals an instruction reads.
Reads(i) ==
    CASE i[1] \in {"store", "load", "use"} -> {i[2]}
      [] i[1] = "init_Node" -> {"a", "b"}
      [] OTHER -> {}

Loop(n, body) == [i \in 1 .. n * Len(body) |-> body[((i - 1) % Len(body)) + 1]]

(***************************************************************************)
(* gcbench.rs and mt_gcbench.rs.                                           *)
(***************************************************************************)
Populate(d) ==
    IF d = 0 THEN <<Return>>
    ELSE <<Alloc, Store("a", "left"), Alloc, Store("a", "right"),
           Load("a", "left"), Call("Populate", d - 1),
           Load("a", "right"), Call("Populate", d - 1), Return>>

MakeTree(d) ==
    IF d = 0 THEN <<Alloc, Return>>
    ELSE <<Call("MakeTree", d - 1), Save("a"), Call("MakeTree", d - 1), Save("b"),
           Alloc, InitNode, Return>>

TimeConstruction(d) ==
    Loop(iNumIters, <<Alloc, Call("Populate", d)>>)
    \o Loop(iNumIters, <<Call("MakeTree", d)>>)
    \o <<Return>>

run_one_test ==
    <<SetLowWaterMark, New, Alloc, Call("Populate", LongLivedDepth),
      Call("TimeConstruction", TimeDepth), Destroy, Exit>>

gcbench_start ==
    <<SetLowWaterMark, New, Call("MakeTree", StretchDepth),
      Alloc, Save("a"), Call("Populate", LongLivedDepth),
      Call("TimeConstruction", TimeDepth), Use("a"), Exit>>

(***************************************************************************)
(* The programs with a single loop, which never set a low water mark.      *)
(***************************************************************************)
exhaust_alloc == <<New>> \o Loop(ALLOCATION_TIMES, <<Alloc>>) \o <<Exit>>

alloc_init == <<New>> \o Loop(ALLOCATION_TIMES, <<AllocRaw, PushVec>>) \o <<InitVec, Exit>>

\* trace.rs: a is root and b is prev.
trace_list ==
    <<New, Alloc, Save("a"), Save("b")>>
    \o Loop(ALLOCATION_TIMES - 1, <<Alloc, Store("b", "left"), Save("b")>>)
    \o <<Use("a"), Exit>>

make_tree(d) ==
    IF d = 0 THEN <<Alloc, Return>>
    ELSE Loop(K, <<Call("make_tree", d - 1), PushVec>>)
         \o <<Alloc, FillFromVec, Return>>

mt_trace == <<New>> \o Loop(TREE_COUNT, <<Call("make_tree", TREE_DEPTH), PushVec>>) \o <<Exit>>

(***************************************************************************)
(* What they allocate: sizes and offsets in bytes, and the encoding given  *)
(* to init_object.                                                         *)
(***************************************************************************)
OneRef == 193     \* 0b1100_0001
TwoRefs == 195    \* 0b1100_0011
FourRefs == 207   \* 0b1100_1111

gcbench_Node == [size |-> 24, left |-> 0, right |-> 8, encode |-> TwoRefs]
mt_gcbench_Node == [size |-> 32, left |-> 8, right |-> 16, encode |-> TwoRefs]
exhaust_object == [size |-> 24, left |-> 0, right |-> 8, encode |-> TwoRefs]
trace_object == [size |-> 24, left |-> 0, right |-> 8, encode |-> OneRef]
k_ary_object == [size |-> 32, left |-> 0, right |-> 8, encode |-> FourRefs]

Layout(p) ==
    CASE p = "gcbench" -> gcbench_Node
      [] p = "mt_gcbench" -> mt_gcbench_Node
      [] p \in {"exhaust", "initobj"} -> exhaust_object
      [] p = "trace" -> trace_object
      [] p = "mt-trace" -> k_ary_object

Code(fn, d) ==
    CASE fn = "Populate" -> Populate(d)
      [] fn = "MakeTree" -> MakeTree(d)
      [] fn = "TimeConstruction" -> TimeConstruction(d)
      [] fn = "make_tree" -> make_tree(d)
      [] fn = "gcbench" -> gcbench_start
      [] fn = "mt_gcbench" -> run_one_test
      [] fn = "exhaust" -> exhaust_alloc
      [] fn = "initobj" -> alloc_init
      [] fn = "trace" -> trace_list
      [] fn = "mt-trace" -> mt_trace

\* The functions that run, with their depths.
Function ==
    {"Populate", "MakeTree"} \X (0 .. LongLivedDepth + StretchDepth + TimeDepth)
    \cup {<<"TimeConstruction", TimeDepth>>}
    \cup {"make_tree"} \X (0 .. TREE_DEPTH)
    \cup Program \X {0}

Name == {f[1] : f \in Function}

Text == [f \in Function |-> Code(f[1], f[2])]

\* The locals still needed before each instruction of a function.
LiveBefore ==
    [f \in Function |-> [pc \in 1 .. Len(Text[f]) |->
        {x \in Local : \E j \in pc .. Len(Text[f]) :
            /\ x \in Reads(Text[f][j])
            /\ \A i \in pc .. j - 1 : Text[f][i] # Save(x)}]]

\* Before instruction pc the program p has no mutator yet, or has one.
NotYetNew(p, pc) == \A j \in 1 .. pc - 1 : Text[<<p, 0>>][j] # New
Enrolled(p, pc) ==
    ~ NotYetNew(p, pc) /\ \A j \in 1 .. pc - 1 : Text[<<p, 0>>][j] # Destroy
=============================================================================
