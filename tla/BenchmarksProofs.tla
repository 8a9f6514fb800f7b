--------------------------- MODULE BenchmarksProofs ---------------------------
(***************************************************************************)
(* What the code of the benchmark programs looks like, for every depth and *)
(* number of iterations.                                                   *)
(***************************************************************************)
EXTENDS Benchmarks, SequenceTheorems, TLAPS

FieldNames == {"left", "right"}

\* The instructions of the functions, of the programs, and of obj_init.rs.
Calls == {Call(f[1], f[2]) : f \in {g \in Function : g[1] \notin Program}}
Shared == {Alloc, PushVec} \cup {Save(x) : x \in Local} \cup Calls
          \cup {Store(x, n) : x \in Local, n \in FieldNames}
FunctionCode == Shared \cup {InitNode, FillFromVec, Return}
                \cup {Load(x, n) : x \in Local, n \in FieldNames}
ProgramCode == Shared \cup {SetLowWaterMark, New, Destroy, Use("a"), Exit}
InitCode == {New, AllocRaw, PushVec, InitVec, Exit}

Ends(s, i) == Len(s) > 0 /\ s[Len(s)] = i

LEMMA SharedFacts ==
    ASSUME NEW i \in Shared
    PROVE  /\ i[1] \in {"alloc", "push", "save", "call", "store"}
           /\ i[1] = "save" => i[2] \in Local
           /\ i[1] = "store" => i[2] \in Local /\ i[3] \in FieldNames
           /\ i[1] = "call" => <<i[2], i[3]>> \in Function /\ i[2] \notin Program
<1>1. CASE i \in {Alloc, PushVec}
    BY <1>1 DEF Alloc, PushVec
<1>2. CASE i \in {Save(x) : x \in Local}
    BY <1>2 DEF Save
<1>3. CASE i \in {Store(x, n) : x \in Local, n \in FieldNames}
    BY <1>3 DEF Store
<1>4. CASE i \in Calls
    <2>1. PICK g \in Function : g[1] \notin Program /\ i = <<"call", g[1], g[2]>>
        BY <1>4 DEF Calls, Call
    <2>2. g = <<g[1], g[2]>>
        BY DEF Function
    <2>3. QED
        BY <2>1, <2>2
<1>5. QED
    BY <1>1, <1>2, <1>3, <1>4 DEF Shared

LEMMA FunctionCodeFacts ==
    ASSUME NEW i \in FunctionCode
    PROVE  /\ i[1] \in {"alloc", "push", "save", "call", "store", "load", "init_Node",
                        "fill", "return"}
           /\ i[1] = "save" => i[2] \in Local
           /\ i[1] \in {"store", "load"} => i[2] \in Local /\ i[3] \in FieldNames
           /\ i[1] = "call" => <<i[2], i[3]>> \in Function /\ i[2] \notin Program
<1>1. CASE i \in Shared
    BY <1>1, SharedFacts
<1>2. CASE i \in {InitNode, FillFromVec, Return}
    BY <1>2 DEF InitNode, FillFromVec, Return
<1>3. CASE i \in {Load(x, n) : x \in Local, n \in FieldNames}
    BY <1>3 DEF Load
<1>4. QED
    BY <1>1, <1>2, <1>3 DEF FunctionCode

LEMMA ProgramCodeFacts ==
    ASSUME NEW i \in ProgramCode
    PROVE  /\ i[1] \in {"alloc", "push", "save", "call", "store", "set_low_water_mark",
                        "new", "destroy", "use", "exit"}
           /\ i[1] = "save" => i[2] \in Local
           /\ i[1] = "store" => i[2] \in Local /\ i[3] \in FieldNames
           /\ i[1] = "call" => <<i[2], i[3]>> \in Function /\ i[2] \notin Program
<1>1. CASE i \in Shared
    BY <1>1, SharedFacts
<1>2. CASE i \in {SetLowWaterMark, New, Destroy, Use("a"), Exit}
    BY <1>2 DEF SetLowWaterMark, New, Destroy, Use, Exit
<1>3. QED
    BY <1>1, <1>2 DEF ProgramCode

LEMMA InitCodeFacts ==
    ASSUME NEW i \in InitCode
    PROVE  i[1] \in {"new", "alloc_raw", "push", "init_vec", "exit"}
BY DEF InitCode, New, AllocRaw, PushVec, InitVec, Exit

\* Loop repeats its body.
LEMMA LoopCode ==
    ASSUME NEW S, NEW n \in Nat, NEW body \in Seq(S), Len(body) \in {1, 2, 3}
    PROVE  /\ Loop(n, body) \in Seq(S)
           /\ Len(Loop(n, body)) = n * Len(body)
           /\ \A i \in 1 .. n * Len(body) :
                \E j \in 1 .. Len(body) : Loop(n, body)[i] = body[j]
<1>1. n * Len(body) \in Nat
    OBVIOUS
<1>2. \A i \in 1 .. n * Len(body) : ((i - 1) % Len(body)) + 1 \in 1 .. Len(body)
    OBVIOUS
<1>3. \A i \in 1 .. n * Len(body) : body[((i - 1) % Len(body)) + 1] \in S
    BY <1>2
<1>4. Loop(n, body) \in [1 .. n * Len(body) -> S]
    BY <1>3 DEF Loop
<1>5. Loop(n, body) \in Seq(S) /\ Len(Loop(n, body)) = n * Len(body)
    BY <1>1, <1>4
<1>6. \A i \in 1 .. n * Len(body) : Loop(n, body)[i] = body[((i - 1) % Len(body)) + 1]
    BY DEF Loop
<1>7. QED
    BY <1>2, <1>5, <1>6

\* The code of a function, and of a program, ends with its last instruction.
LEMMA ConcatEnds ==
    ASSUME NEW S, NEW s \in Seq(S), NEW i \in S
    PROVE  s \o <<i>> \in Seq(S) /\ Ends(s \o <<i>>, i)
BY DEF Ends

LEMMA FunctionIs ==
    ASSUME NEW fn, NEW d, <<fn, d>> \in Function
    PROVE  \/ fn \in {"Populate", "MakeTree", "make_tree"} /\ d \in Nat
           \/ fn = "TimeConstruction" /\ d = TimeDepth
           \/ fn \in Program /\ d = 0
BY BenchmarkAssumption DEF Function

LEMMA FunctionTyped ==
    ASSUME NEW fn, NEW d, <<fn, d>> \in Function
    PROVE  fn \in Name /\ d \in Nat
<1>1. fn \in Name
    BY DEF Name
<1>2. d \in Nat
    BY FunctionIs, BenchmarkAssumption
<1>3. QED
    BY <1>1, <1>2

LEMMA CallsPopulate ==
    ASSUME NEW fn \in {"Populate", "MakeTree"},
           NEW d \in 0 .. LongLivedDepth + StretchDepth + TimeDepth
    PROVE  Call(fn, d) \in Calls
<1>1. <<fn, d>> \in Function /\ fn \notin Program
    BY DEF Function, Program
<1>2. QED
    BY <1>1 DEF Calls

LEMMA Calls_make_tree ==
    ASSUME NEW d \in 0 .. TREE_DEPTH
    PROVE  Call("make_tree", d) \in Calls
<1>1. <<"make_tree", d>> \in Function /\ "make_tree" \notin Program
    BY DEF Function, Program
<1>2. QED
    BY <1>1 DEF Calls

LEMMA CallsTimeConstruction == Call("TimeConstruction", TimeDepth) \in Calls
<1>1. <<"TimeConstruction", TimeDepth>> \in Function /\ "TimeConstruction" \notin Program
    BY DEF Function, Program
<1>2. QED
    BY <1>1 DEF Calls

LEMMA PopulateCode ==
    ASSUME NEW d \in 0 .. LongLivedDepth + StretchDepth + TimeDepth
    PROVE  Populate(d) \in Seq(FunctionCode) /\ Ends(Populate(d), Return)
<1>1. CASE d = 0
    BY <1>1 DEF Populate, Ends, FunctionCode
<1>2. CASE d # 0
    <2>1. Call("Populate", d - 1) \in FunctionCode
        <3>1. d - 1 \in 0 .. LongLivedDepth + StretchDepth + TimeDepth
            BY <1>2, BenchmarkAssumption
        <3>2. QED
            BY <3>1, CallsPopulate DEF FunctionCode, Shared
    <2>2. {Alloc, Return, Store("a", "left"), Store("a", "right"), Load("a", "left"),
           Load("a", "right")} \subseteq FunctionCode
        BY DEF FunctionCode, Shared, Local, FieldNames
    <2>3. QED
        BY <1>2, <2>1, <2>2 DEF Populate, Ends
<1>3. QED
    BY <1>1, <1>2

LEMMA MakeTreeCode ==
    ASSUME NEW d \in 0 .. LongLivedDepth + StretchDepth + TimeDepth
    PROVE  MakeTree(d) \in Seq(FunctionCode) /\ Ends(MakeTree(d), Return)
<1>0. {Alloc, Return, InitNode, Save("a"), Save("b")} \subseteq FunctionCode
    BY DEF FunctionCode, Shared, Local
<1>1. CASE d = 0
    BY <1>0, <1>1 DEF MakeTree, Ends
<1>2. CASE d # 0
    <2>1. Call("MakeTree", d - 1) \in FunctionCode
        <3>1. d - 1 \in 0 .. LongLivedDepth + StretchDepth + TimeDepth
            BY <1>2, BenchmarkAssumption
        <3>2. QED
            BY <3>1, CallsPopulate DEF FunctionCode, Shared
    <2>2. QED
        BY <1>0, <1>2, <2>1 DEF MakeTree, Ends
<1>3. QED
    BY <1>1, <1>2

LEMMA TimeConstructionCode ==
    /\ TimeConstruction(TimeDepth) \in Seq(FunctionCode)
    /\ Ends(TimeConstruction(TimeDepth), Return)
<1>1. TimeDepth \in 0 .. LongLivedDepth + StretchDepth + TimeDepth
    BY BenchmarkAssumption
<1>2. {Alloc, Return, Call("Populate", TimeDepth), Call("MakeTree", TimeDepth)}
        \subseteq FunctionCode
    BY <1>1, CallsPopulate DEF FunctionCode, Shared
<1> DEFINE p == <<Alloc, Call("Populate", TimeDepth)>>
           t == <<Call("MakeTree", TimeDepth)>>
<1>3. p \in Seq(FunctionCode) /\ Len(p) = 2 /\ t \in Seq(FunctionCode) /\ Len(t) = 1
    BY <1>2
<1> HIDE DEF p, t
<1>4. Loop(iNumIters, p) \in Seq(FunctionCode) /\ Loop(iNumIters, t) \in Seq(FunctionCode)
    BY <1>3, LoopCode, BenchmarkAssumption
<1>5. Loop(iNumIters, p) \o Loop(iNumIters, t) \in Seq(FunctionCode)
    BY <1>4
<1>6. TimeConstruction(TimeDepth) = (Loop(iNumIters, p) \o Loop(iNumIters, t)) \o <<Return>>
    BY DEF TimeConstruction, p, t
<1>7. QED
    BY <1>2, <1>5, <1>6, ConcatEnds

LEMMA make_treeCode ==
    ASSUME NEW d \in 0 .. TREE_DEPTH
    PROVE  make_tree(d) \in Seq(FunctionCode) /\ Ends(make_tree(d), Return)
<1>0. {Alloc, Return, FillFromVec, PushVec} \subseteq FunctionCode
    BY DEF FunctionCode, Shared
<1>1. CASE d = 0
    BY <1>0, <1>1 DEF make_tree, Ends
<1>2. CASE d # 0
    <2> DEFINE c == <<Call("make_tree", d - 1), PushVec>>
    <2>1. Call("make_tree", d - 1) \in FunctionCode
        <3>1. d - 1 \in 0 .. TREE_DEPTH
            BY <1>2, BenchmarkAssumption
        <3>2. QED
            BY <3>1, Calls_make_tree DEF FunctionCode, Shared
    <2>2. c \in Seq(FunctionCode) /\ Len(c) = 2
        BY <1>0, <2>1
    <2> HIDE DEF c
    <2>3. Loop(K, c) \in Seq(FunctionCode)
        BY <2>2, LoopCode, BenchmarkAssumption
    <2>4. make_tree(d) = Loop(K, c) \o <<Alloc, FillFromVec, Return>>
        BY <1>2 DEF make_tree, c
    <2>5. QED
        BY <1>0, <2>3, <2>4 DEF Ends
<1>3. QED
    BY <1>1, <1>2

(***************************************************************************)
(* The programs: a mutator is created once, before anything is allocated,  *)
(* and destroyed at the end, if at all.                                    *)
(***************************************************************************)
Shape(s) ==
    \E n \in 1 .. Len(s) :
        /\ s[n] = New
        /\ \A j \in 1 .. n - 1 : s[j] = SetLowWaterMark
        /\ \A j \in n + 1 .. Len(s) : s[j] # New
        /\ \A j \in 1 .. Len(s) : s[j] = Destroy => j = Len(s) - 1

\* What a program does once it has its mutator.
Later == Shared \cup {Use("a"), Exit}

LEMMA LaterFacts ==
    /\ Later \subseteq ProgramCode
    /\ \A i \in Later : i # New /\ i # Destroy
<1>1. Later \subseteq ProgramCode
    BY DEF Later, ProgramCode
<1>2. ASSUME NEW i \in Later PROVE i # New /\ i # Destroy
    <2>1. CASE i \in Shared
        <3>1. i[1] # "new" /\ i[1] # "destroy"
            BY <2>1, SharedFacts
        <3>2. New[1] = "new" /\ Destroy[1] = "destroy"
            BY DEF New, Destroy
        <3>3. QED
            BY <3>1, <3>2
    <2>2. CASE i \in {Use("a"), Exit}
        BY <2>2 DEF Use, Exit, New, Destroy
    <2>3. QED
        BY <1>2, <2>1, <2>2 DEF Later
<1>3. QED
    BY <1>1, <1>2

LEMMA NewFirst ==
    ASSUME NEW s \in Seq(Later), s # <<>>, Ends(s, Exit)
    PROVE  /\ <<New>> \o s \in Seq(ProgramCode)
           /\ Ends(<<New>> \o s, Exit)
           /\ Shape(<<New>> \o s)
<1> DEFINE t == <<New>> \o s
<1>1. s \in Seq(ProgramCode)
    BY LaterFacts
<1>2. New \in ProgramCode
    BY DEF ProgramCode
<1>3. t \in Seq(ProgramCode) /\ Len(t) = Len(s) + 1 /\ Ends(t, Exit)
    BY <1>1, <1>2 DEF Ends
<1>4. t[1] = New /\ \A j \in 2 .. Len(t) : t[j] \in Later
    BY <1>3
<1>5. New # Destroy
    BY DEF New, Destroy
<1>6. \A j \in 1 .. Len(t) : t[j] # Destroy
    BY <1>3, <1>4, <1>5, LaterFacts
<1> HIDE DEF t
<1>7. Shape(t)
    <2>1. 1 \in 1 .. Len(t) /\ \A j \in 1 + 1 .. Len(t) : t[j] # New
        BY <1>3, <1>4, LaterFacts
    <2>2. QED
        BY <1>4, <1>6, <2>1 DEF Shape
<1>8. QED
    BY <1>3, <1>7 DEF t

LEMMA exhaust_allocCode ==
    /\ exhaust_alloc \in Seq(ProgramCode)
    /\ Ends(exhaust_alloc, Exit)
    /\ Shape(exhaust_alloc)
<1> DEFINE s == Loop(ALLOCATION_TIMES, <<Alloc>>) \o <<Exit>>
<1>1. Loop(ALLOCATION_TIMES, <<Alloc>>) \in Seq(Later) /\ Exit \in Later
    <2>1. <<Alloc>> \in Seq(Later) /\ Len(<<Alloc>>) = 1 /\ Exit \in Later
        BY DEF Later, Shared
    <2>2. QED
        BY <2>1, LoopCode, BenchmarkAssumption
<1>2. s \in Seq(Later) /\ Ends(s, Exit) /\ s # <<>>
    BY <1>1, ConcatEnds DEF Ends
<1>3. exhaust_alloc = <<New>> \o s
    BY <1>1 DEF exhaust_alloc
<1>4. QED
    BY <1>2, <1>3, NewFirst

LEMMA trace_listCode ==
    /\ trace_list \in Seq(ProgramCode)
    /\ Ends(trace_list, Exit)
    /\ Shape(trace_list)
<1> DEFINE body == <<Alloc, Store("b", "left"), Save("b")>>
           first == <<Alloc, Save("a"), Save("b")>>
           l == Loop(ALLOCATION_TIMES - 1, body)
           s == first \o l \o <<Use("a"), Exit>>
<1>1. {Alloc, Save("a"), Save("b"), Store("b", "left"), Use("a"), Exit} \subseteq Later
    BY DEF Later, Shared, Local, FieldNames
<1>2. body \in Seq(Later) /\ Len(body) = 3 /\ first \in Seq(Later)
    BY <1>1
<1>3. l \in Seq(Later)
    <2> HIDE DEF body
    <2>1. QED
        BY <1>2, LoopCode, BenchmarkAssumption
<1> HIDE DEF l
<1>4. s \in Seq(Later) /\ Ends(s, Exit) /\ s # <<>>
    BY <1>1, <1>2, <1>3 DEF Ends
<1>5. trace_list = <<New>> \o s
    <2>1. trace_list = <<New, Alloc, Save("a"), Save("b")>> \o l \o <<Use("a"), Exit>>
        BY DEF trace_list, l
    <2>2. <<New, Alloc, Save("a"), Save("b")>> = <<New>> \o first
        OBVIOUS
    <2> HIDE DEF first
    <2>3. QED
        BY <1>2, <1>3, <2>1, <2>2
<1> HIDE DEF s
<1>6. QED
    BY <1>4, <1>5, NewFirst

LEMMA mt_traceCode ==
    /\ mt_trace \in Seq(ProgramCode)
    /\ Ends(mt_trace, Exit)
    /\ Shape(mt_trace)
<1> DEFINE body == <<Call("make_tree", TREE_DEPTH), PushVec>>
           l == Loop(TREE_COUNT, body)
           s == l \o <<Exit>>
<1>1. {Call("make_tree", TREE_DEPTH), PushVec, Exit} \subseteq Later
    BY Calls_make_tree, BenchmarkAssumption DEF Later, Shared
<1>2. body \in Seq(Later) /\ Len(body) = 2
    BY <1>1
<1>3. l \in Seq(Later)
    <2> HIDE DEF body
    <2>1. QED
        BY <1>2, LoopCode, BenchmarkAssumption
<1>4. mt_trace = <<New>> \o s
    BY <1>3 DEF mt_trace
<1> HIDE DEF l
<1>5. s \in Seq(Later) /\ Ends(s, Exit) /\ s # <<>>
    BY <1>1, <1>3, ConcatEnds DEF Ends
<1> HIDE DEF s
<1>6. QED
    BY <1>4, <1>5, NewFirst

LEMMA gcbench_startCode ==
    /\ gcbench_start \in Seq(ProgramCode)
    /\ Ends(gcbench_start, Exit)
    /\ Shape(gcbench_start)
<1>1. {Call("MakeTree", StretchDepth), Call("Populate", LongLivedDepth),
       Call("TimeConstruction", TimeDepth), Alloc, Save("a"), Use("a"), Exit} \subseteq Later
    <2>1. {StretchDepth, LongLivedDepth}
            \subseteq 0 .. LongLivedDepth + StretchDepth + TimeDepth
        BY BenchmarkAssumption
    <2>2. QED
        BY <2>1, CallsPopulate, CallsTimeConstruction DEF Later, Shared, Local
<1>2. {SetLowWaterMark, New} \subseteq ProgramCode /\ SetLowWaterMark # Destroy /\ New # Destroy
    BY DEF ProgramCode, SetLowWaterMark, New, Destroy
<1>3. gcbench_start \in Seq(ProgramCode) /\ Ends(gcbench_start, Exit)
    BY <1>1, <1>2, LaterFacts DEF gcbench_start, Ends
<1>4. /\ Len(gcbench_start) = 9
      /\ gcbench_start[1] = SetLowWaterMark
      /\ gcbench_start[2] = New
      /\ \A j \in 3 .. 9 : gcbench_start[j] \in Later
    BY <1>1 DEF gcbench_start
<1>5. \A j \in 3 .. 9 : gcbench_start[j] # New /\ gcbench_start[j] # Destroy
    BY <1>4, LaterFacts
<1>6. \A j \in 1 .. 9 : gcbench_start[j] # Destroy
    BY <1>2, <1>4, <1>5
<1>7. QED
    BY <1>3, <1>4, <1>5, <1>6 DEF Shape

LEMMA run_one_testCode ==
    /\ run_one_test \in Seq(ProgramCode)
    /\ Ends(run_one_test, Exit)
    /\ Shape(run_one_test)
<1>1. {Call("Populate", LongLivedDepth), Call("TimeConstruction", TimeDepth), Alloc, Exit}
        \subseteq Later
    <2>1. LongLivedDepth \in 0 .. LongLivedDepth + StretchDepth + TimeDepth
        BY BenchmarkAssumption
    <2>2. QED
        BY <2>1, CallsPopulate, CallsTimeConstruction DEF Later, Shared
<1>2. /\ {SetLowWaterMark, New, Destroy} \subseteq ProgramCode
      /\ SetLowWaterMark # Destroy /\ New # Destroy
    BY DEF ProgramCode, SetLowWaterMark, New, Destroy
<1>3. run_one_test \in Seq(ProgramCode) /\ Ends(run_one_test, Exit)
    BY <1>1, <1>2, LaterFacts DEF run_one_test, Ends
<1>4. /\ Len(run_one_test) = 7
      /\ run_one_test[1] = SetLowWaterMark
      /\ run_one_test[2] = New
      /\ \A j \in {3, 4, 5, 7} : run_one_test[j] \in Later
      /\ run_one_test[6] = Destroy
    BY <1>1 DEF run_one_test
<1>5. \A j \in {3, 4, 5, 7} : run_one_test[j] # New /\ run_one_test[j] # Destroy
    BY <1>4, LaterFacts
<1>6. \A j \in 1 .. 7 : run_one_test[j] = Destroy => j = 6
    BY <1>2, <1>4, <1>5
<1>7. \A j \in 3 .. 7 : run_one_test[j] # New
    BY <1>2, <1>4, <1>5
<1>8. QED
    BY <1>3, <1>4, <1>6, <1>7 DEF Shape

LEMMA alloc_initCode ==
    /\ alloc_init \in Seq(InitCode)
    /\ Ends(alloc_init, Exit)
    /\ Shape(alloc_init)
<1> DEFINE body == <<AllocRaw, PushVec>>
           Rest == InitCode \ {New}
           l == Loop(ALLOCATION_TIMES, body)
<1>1. {AllocRaw, PushVec, InitVec, Exit} \subseteq Rest /\ New \in InitCode
    BY DEF InitCode, New, AllocRaw, PushVec, InitVec, Exit
<1>2. body \in Seq(Rest) /\ Len(body) = 2
    BY <1>1
<1> HIDE DEF body, Rest
<1>3. l \in Seq(Rest)
    BY <1>2, LoopCode, BenchmarkAssumption
<1>4. alloc_init = <<New>> \o l \o <<InitVec, Exit>>
    BY DEF alloc_init, body
<1> HIDE DEF l
<1>5. /\ Len(alloc_init) = Len(l) + 3 /\ Len(l) \in Nat
      /\ alloc_init[1] = New /\ alloc_init[Len(alloc_init)] = Exit
      /\ \A j \in 2 .. Len(alloc_init) : alloc_init[j] \in Rest
    BY <1>1, <1>3, <1>4
<1>6. alloc_init \in Seq(InitCode)
    <2>1. l \in Seq(InitCode) /\ {InitVec, Exit} \subseteq InitCode
        BY <1>1, <1>3 DEF Rest
    <2>2. QED
        BY <1>1, <1>4, <2>1
<1>7. \A i \in InitCode : i # Destroy
    BY DEF InitCode, New, AllocRaw, PushVec, InitVec, Exit, Destroy
<1>8. \A j \in 1 .. Len(alloc_init) : alloc_init[j] # Destroy
    BY <1>6, <1>7
<1>9. \A j \in 2 .. Len(alloc_init) : alloc_init[j] # New
    BY <1>5 DEF Rest
<1>10. QED
    BY <1>5, <1>6, <1>8, <1>9 DEF Ends, Shape

(***************************************************************************)
(* What the machine of RootScan needs to know of the code it executes.     *)
(***************************************************************************)
LEMMA ProgramText ==
    ASSUME NEW p \in Program
    PROVE  /\ <<p, 0>> \in Function
           /\ p = "initobj" => Text[<<p, 0>>] \in Seq(InitCode)
           /\ p # "initobj" => Text[<<p, 0>>] \in Seq(ProgramCode)
           /\ Ends(Text[<<p, 0>>], Exit)
           /\ Shape(Text[<<p, 0>>])
<1>1. <<p, 0>> \in Function
    BY DEF Function
<1>2. Text[<<p, 0>>] = Code(p, 0)
    BY <1>1 DEF Text
<1>3. CASE p = "gcbench"
    BY <1>1, <1>2, <1>3, gcbench_startCode DEF Code
<1>4. CASE p = "mt_gcbench"
    BY <1>1, <1>2, <1>4, run_one_testCode DEF Code
<1>5. CASE p = "exhaust"
    BY <1>1, <1>2, <1>5, exhaust_allocCode DEF Code
<1>6. CASE p = "initobj"
    BY <1>1, <1>2, <1>6, alloc_initCode DEF Code
<1>7. CASE p = "trace"
    BY <1>1, <1>2, <1>7, trace_listCode DEF Code
<1>8. CASE p = "mt-trace"
    BY <1>1, <1>2, <1>8, mt_traceCode DEF Code
<1>9. QED
    BY <1>3, <1>4, <1>5, <1>6, <1>7, <1>8 DEF Program

LEMMA FunctionText ==
    ASSUME NEW fn, NEW d, <<fn, d>> \in Function, fn \notin Program
    PROVE  Text[<<fn, d>>] \in Seq(FunctionCode) /\ Ends(Text[<<fn, d>>], Return)
<1>1. Text[<<fn, d>>] = Code(fn, d)
    BY DEF Text
<1>2. CASE fn = "Populate" /\ d \in 0 .. LongLivedDepth + StretchDepth + TimeDepth
    BY <1>1, <1>2, PopulateCode DEF Code
<1>3. CASE fn = "MakeTree" /\ d \in 0 .. LongLivedDepth + StretchDepth + TimeDepth
    BY <1>1, <1>3, MakeTreeCode DEF Code
<1>4. CASE fn = "TimeConstruction" /\ d = TimeDepth
    BY <1>1, <1>4, TimeConstructionCode DEF Code
<1>5. CASE fn = "make_tree" /\ d \in 0 .. TREE_DEPTH
    BY <1>1, <1>5, make_treeCode DEF Code
<1>6. QED
    BY <1>2, <1>3, <1>4, <1>5 DEF Function

LEMMA InstructionFacts ==
    ASSUME NEW fn, NEW d, <<fn, d>> \in Function, NEW pc \in 1 .. Len(Text[<<fn, d>>])
    PROVE  LET i == Text[<<fn, d>>][pc] IN
           /\ i[1] = "save" => i[2] \in Local
           /\ i[1] \in {"store", "load"} => i[2] \in Local /\ i[3] \in FieldNames
           /\ i[1] = "call" => <<i[2], i[3]>> \in Function /\ i[2] \notin Program
           /\ i[1] \notin {"return", "exit"} => pc + 1 \in 1 .. Len(Text[<<fn, d>>])
           /\ i[1] = "return" => fn \notin Program
           /\ i[1] = "alloc_raw" => fn = "initobj"
           /\ i[1] \in {"new", "destroy", "set_low_water_mark"} => fn \in Program
           /\ fn = "initobj" => i[1] \in {"new", "alloc_raw", "push", "init_vec", "exit"}
<1> DEFINE s == Text[<<fn, d>>]
           i == s[pc]
<1>1. CASE fn \notin Program
    <2>1. s \in Seq(FunctionCode) /\ Len(s) > 0 /\ s[Len(s)] = Return
        BY <1>1, FunctionText DEF Ends
    <2>2. i \in FunctionCode
        BY <2>1
    <2>3. Return[1] = "return"
        BY DEF Return
    <2>4. i[1] \notin {"return", "exit"} => pc + 1 \in 1 .. Len(s)
        BY <2>1, <2>3
    <2> HIDE DEF i
    <2>5. i[1] # "alloc_raw" /\ i[1] \notin {"new", "destroy", "set_low_water_mark"}
        BY <2>2, FunctionCodeFacts
    <2>6. fn # "initobj"
        BY <1>1 DEF Program
    <2>7. QED
        BY <1>1, <2>2, <2>4, <2>5, <2>6, FunctionCodeFacts DEF i
<1>2. CASE fn \in Program
    <2>0. d = 0
        BY <1>2, FunctionIs DEF Program
    <2>1. Len(s) > 0 /\ s[Len(s)] = Exit /\ (s \in Seq(ProgramCode) \/ s \in Seq(InitCode))
        BY <1>2, <2>0, ProgramText DEF Ends
    <2>2. Exit[1] = "exit"
        BY DEF Exit
    <2>3. i[1] \notin {"return", "exit"} => pc + 1 \in 1 .. Len(s)
        BY <2>1, <2>2
    <2>4. CASE fn = "initobj"
        <3>1. i \in InitCode
            BY <1>2, <2>0, <2>4, ProgramText
        <3> HIDE DEF i
        <3>2. i[1] \in {"new", "alloc_raw", "push", "init_vec", "exit"}
            BY <3>1, InitCodeFacts
        <3>3. QED
            BY <1>2, <2>3, <2>4, <3>2 DEF i
    <2>5. CASE fn # "initobj"
        <3>1. i \in ProgramCode
            BY <1>2, <2>0, <2>5, ProgramText
        <3> HIDE DEF i
        <3>2. i[1] # "load" /\ i[1] # "return" /\ i[1] # "alloc_raw"
            BY <3>1, ProgramCodeFacts
        <3>3. QED
            BY <1>2, <2>3, <2>5, <3>1, <3>2, ProgramCodeFacts DEF i
    <2>6. QED
        BY <2>4, <2>5
<1>3. QED
    BY <1>1, <1>2

LEMMA MutatorFacts ==
    ASSUME NEW p \in Program, NEW pc \in 1 .. Len(Text[<<p, 0>>])
    PROVE  LET i == Text[<<p, 0>>][pc] IN
           /\ i[1] = "new" => NotYetNew(p, pc) /\ Enrolled(p, pc + 1)
           /\ i[1] = "destroy" => ~ Enrolled(p, pc + 1)
           /\ i[1] \notin {"new", "destroy"} => (Enrolled(p, pc + 1) <=> Enrolled(p, pc))
           /\ NotYetNew(p, pc + 1) => NotYetNew(p, pc)
           /\ i[1] \in {"alloc", "alloc_raw", "call"} => Enrolled(p, pc)
           /\ Enrolled(p, pc) => ~ NotYetNew(p, pc)
<1> DEFINE s == Text[<<p, 0>>]
           i == s[pc]
<1>1. /\ Len(s) \in Nat /\ s[Len(s)] = Exit /\ Shape(s)
      /\ s \in Seq(ProgramCode) \/ s \in Seq(InitCode)
    BY ProgramText DEF Ends
<1>2. PICK n \in 1 .. Len(s) :
        /\ s[n] = New
        /\ \A j \in 1 .. n - 1 : s[j] = SetLowWaterMark
        /\ \A j \in n + 1 .. Len(s) : s[j] # New
        /\ \A j \in 1 .. Len(s) : s[j] = Destroy => j = Len(s) - 1
    BY <1>1 DEF Shape
<1>3. /\ New[1] = "new" /\ Destroy[1] = "destroy" /\ Exit[1] = "exit"
      /\ SetLowWaterMark[1] = "set_low_water_mark"
    BY DEF New, Destroy, Exit, SetLowWaterMark
<1>4. (i[1] = "new" => i = New) /\ (i[1] = "destroy" => i = Destroy)
    <2>1. i \in ProgramCode \/ i \in InitCode
        BY <1>1
    <2> HIDE DEF i
    <2>2. CASE i \in Shared
        BY <2>2, SharedFacts
    <2>3. CASE i \in {SetLowWaterMark, New, Destroy, Use("a"), Exit}
        BY <2>3 DEF SetLowWaterMark, New, Destroy, Use, Exit
    <2>4. CASE i \in InitCode
        BY <2>4 DEF InitCode, New, AllocRaw, PushVec, InitVec, Exit
    <2>5. QED
        BY <2>1, <2>2, <2>3, <2>4 DEF ProgramCode
<1>5. \A j \in 1 .. pc : j = pc \/ j \in 1 .. pc - 1
    OBVIOUS
<1>6. \A j \in 1 .. pc - 1 : j \in 1 .. (pc + 1) - 1
    OBVIOUS
<1>7. pc \in 1 .. (pc + 1) - 1 /\ \A j \in 1 .. (pc + 1) - 1 : j \in 1 .. pc
    OBVIOUS
<1> DEFINE new(k) == \A j \in 1 .. k - 1 : s[j] # New
           kept(k) == \A j \in 1 .. k - 1 : s[j] # Destroy
<1>8. (new(pc + 1) <=> new(pc) /\ i # New) /\ (kept(pc + 1) <=> kept(pc) /\ i # Destroy)
    BY <1>5, <1>6, <1>7
<1>9. ASSUME i = New PROVE new(pc) /\ kept(pc)
    <2>1. pc = n
        <3>1. ~ pc < n
            BY <1>2, <1>3, <1>9
        <3>2. ~ pc > n
            BY <1>1, <1>2, <1>9
        <3>3. QED
            BY <1>1, <3>1, <3>2
    <2>2. \A j \in 1 .. pc - 1 : s[j] = SetLowWaterMark
        BY <1>2, <2>1
    <2>3. SetLowWaterMark # New /\ SetLowWaterMark # Destroy
        BY <1>3
    <2>4. QED
        BY <2>2, <2>3
<1>10. ASSUME i[1] \in {"alloc", "alloc_raw", "call"} PROVE ~ new(pc) /\ kept(pc)
    <2>1. n < pc
        <3>1. ~ pc < n
            BY <1>2, <1>3, <1>10
        <3>2. pc # n
            BY <1>2, <1>3, <1>10
        <3>3. QED
            BY <1>1, <3>1, <3>2
    <2>2. ~ new(pc)
        BY <1>2, <2>1
    <2>3. pc # Len(s)
        BY <1>1, <1>3, <1>10
    <2>4. \A j \in 1 .. pc - 1 : j \in 1 .. Len(s) /\ j # Len(s) - 1
        BY <1>1, <2>3
    <2>5. QED
        BY <1>2, <2>2, <2>4
<1>11. New # Destroy
    BY <1>3
<1>12. /\ \A k : NotYetNew(p, k) <=> new(k)
       /\ \A k : Enrolled(p, k) <=> ~ new(k) /\ kept(k)
    BY DEF NotYetNew, Enrolled
<1> HIDE DEF new, kept, i
<1>13. QED
    <2>1. i[1] = "new" => NotYetNew(p, pc) /\ Enrolled(p, pc + 1)
        BY <1>4, <1>8, <1>9, <1>11, <1>12
    <2>2. i[1] = "destroy" => ~ Enrolled(p, pc + 1)
        BY <1>4, <1>8, <1>12
    <2>3. i[1] \notin {"new", "destroy"} => (Enrolled(p, pc + 1) <=> Enrolled(p, pc))
        BY <1>3, <1>8, <1>12
    <2>4. NotYetNew(p, pc + 1) => NotYetNew(p, pc)
        BY <1>8, <1>12
    <2>5. i[1] \in {"alloc", "alloc_raw", "call"} => Enrolled(p, pc)
        BY <1>10, <1>12
    <2>6. Enrolled(p, pc) => ~ NotYetNew(p, pc)
        BY <1>12
    <2>7. QED
        BY <2>1, <2>2, <2>3, <2>4, <2>5, <2>6 DEF i

LEMMA LiveFacts ==
    ASSUME NEW fn, NEW d, <<fn, d>> \in Function, NEW pc \in 1 .. Len(Text[<<fn, d>>])
    PROVE  LiveBefore[<<fn, d>>][pc] \subseteq Local
BY DEF LiveBefore

(***************************************************************************)
(* No instruction uses a result, a local or a field before there is one.   *)
(***************************************************************************)

\* Functions that are called with an object.
WithArgument == {"Populate", "TimeConstruction"}

NeedsRet(i) ==
    \/ i[1] \in {"save", "store", "push", "init_Node", "fill", "return"}
    \/ i[1] = "call" /\ i[2] \in WithArgument
Gives(i) == i[1] \in {"alloc", "alloc_raw", "call"}

\* Before instruction pc of s something has been returned, or x has been set.
Given(s, pc) == \E j \in 1 .. pc - 1 : Gives(s[j])
IsSet(s, pc, x) == \E j \in 1 .. pc - 1 : s[j] = Save(x)

SetBeforeUse(fn, s) ==
    \A pc \in 1 .. Len(s) :
        /\ NeedsRet(s[pc]) => fn \in WithArgument \/ Given(s, pc)
        /\ s[pc][1] \in {"store", "load"} =>
            (fn = "Populate" /\ s[pc][2] = "a") \/ IsSet(s, pc, s[pc][2])
        /\ s[pc][1] = "init_Node" => IsSet(s, pc, "a") /\ IsSet(s, pc, "b")
        /\ s[pc][1] = "load" => fn = "Populate"

\* The instructions that need no local, and those that need no result either.
NoLocal(i) == i[1] \notin {"store", "load", "init_Node"}
Needless(i) == NoLocal(i) /\ ~ NeedsRet(i)

\* The first instruction that needs a result comes after one that gives one.
LEMMA GivenFirst ==
    ASSUME NEW fn, NEW S, NEW s \in Seq(S), NEW n \in Nat,
           \A i \in S : NoLocal(i),
           \A j \in 1 .. n : j <= Len(s) => ~ NeedsRet(s[j]),
           n \in 1 .. Len(s) => Gives(s[n]),
           n = 0 => fn \in WithArgument
    PROVE  SetBeforeUse(fn, s)
<1> SUFFICES ASSUME NEW pc \in 1 .. Len(s)
             PROVE  /\ NoLocal(s[pc])
                    /\ NeedsRet(s[pc]) => fn \in WithArgument \/ Given(s, pc)
    BY DEF SetBeforeUse, NoLocal
<1>1. s[pc] \in S
    OBVIOUS
<1>2. CASE pc <= n
    BY <1>1, <1>2
<1>3. CASE n < pc /\ n # 0
    <2>1. n \in 1 .. Len(s) /\ n \in 1 .. pc - 1
        BY <1>3
    <2>2. QED
        BY <1>1, <2>1 DEF Given
<1>4. CASE n = 0
    BY <1>1, <1>4
<1>5. QED
    BY <1>2, <1>3, <1>4

\* What single instructions need and give.
LEMMA InstrNeeds ==
    /\ Gives(Alloc) /\ Needless(Alloc) /\ Gives(AllocRaw) /\ Needless(AllocRaw)
    /\ \A fn, d : Gives(Call(fn, d)) /\ NoLocal(Call(fn, d))
    /\ \A fn, d : fn \notin WithArgument => ~ NeedsRet(Call(fn, d))
    /\ Needless(SetLowWaterMark) /\ Needless(New) /\ Needless(Destroy) /\ Needless(Exit)
    /\ Needless(InitVec) /\ \A x : Needless(Use(x)) /\ NoLocal(Save(x))
    /\ NoLocal(PushVec) /\ NoLocal(FillFromVec) /\ NoLocal(Return)
BY DEF Gives, Needless, NoLocal, NeedsRet, Alloc, AllocRaw, Call, SetLowWaterMark, New,
    Destroy, Exit, InitVec, Use, Save, PushVec, FillFromVec, Return

\* A loop starts with the first instruction of its body.
LEMMA LoopFirst ==
    ASSUME NEW S, NEW n \in Nat \ {0}, NEW body \in Seq(S), Len(body) \in {1, 2, 3}
    PROVE  Len(Loop(n, body)) >= 1 /\ Loop(n, body)[1] = body[1]
<1>1. Len(Loop(n, body)) = n * Len(body) /\ n * Len(body) >= 1
    <2>1. Len(Loop(n, body)) = n * Len(body)
        BY LoopCode
    <2>2. n * 1 >= 1 /\ n * 2 >= 1 /\ n * 3 >= 1
        OBVIOUS
    <2>3. QED
        BY <2>1, <2>2
<1>2. 1 \in 1 .. n * Len(body) /\ ((1 - 1) % Len(body)) + 1 = 1
    BY <1>1
<1>3. Loop(n, body)[1] = body[((1 - 1) % Len(body)) + 1]
    BY <1>2 DEF Loop
<1>4. QED
    BY <1>1, <1>2, <1>3

LEMMA ConcatFirst ==
    ASSUME NEW S, NEW l \in Seq(S), NEW e \in Seq(S)
    PROVE  /\ l \o e \in Seq(S)
           /\ Len(e) >= 1 => /\ Len(l \o e) >= 1
                            /\ (l \o e)[1] = IF Len(l) = 0 THEN e[1] ELSE l[1]
<1>1. l \o e \in Seq(S) /\ Len(l \o e) = Len(l) + Len(e)
    OBVIOUS
<1>2. Len(l) \in Nat /\ Len(e) \in Nat
    OBVIOUS
<1>3. ASSUME Len(e) >= 1 PROVE (l \o e)[1] = IF Len(l) = 0 THEN e[1] ELSE l[1]
    BY <1>1, <1>2, <1>3
<1>4. QED
    BY <1>1, <1>2, <1>3

LEMMA PopulateSets ==
    ASSUME NEW d \in Nat
    PROVE  SetBeforeUse("Populate", Populate(d))
<1>1. CASE d = 0
    <2>1. Populate(d) = <<Return>>
        BY <1>1 DEF Populate
    <2>2. QED
        BY <2>1 DEF SetBeforeUse, Return, WithArgument
<1>2. CASE d # 0
    <2>1. Populate(d) =
            <<Alloc, Store("a", "left"), Alloc, Store("a", "right"), Load("a", "left"),
              Call("Populate", d - 1), Load("a", "right"), Call("Populate", d - 1), Return>>
        BY <1>2 DEF Populate
    <2>2. QED
        BY <2>1 DEF SetBeforeUse, WithArgument, Alloc, Store, Load, Call, Return
<1>3. QED
    BY <1>1, <1>2

LEMMA MakeTreeSets ==
    ASSUME NEW d \in Nat
    PROVE  SetBeforeUse("MakeTree", MakeTree(d))
<1>1. CASE d = 0
    <2> DEFINE S == {Alloc, Return}
    <2>1. MakeTree(d) = <<Alloc, Return>>
        BY <1>1 DEF MakeTree
    <2>2. \A i \in S : NoLocal(i)
        BY InstrNeeds DEF Needless
    <2>3. MakeTree(d) \in Seq(S) /\ MakeTree(d)[1] = Alloc /\ Len(MakeTree(d)) = 2
        BY <2>1
    <2> HIDE DEF S
    <2>4. Gives(MakeTree(d)[1]) /\ ~ NeedsRet(MakeTree(d)[1])
        BY <2>3, InstrNeeds DEF Needless
    <2>5. \A j \in 1 .. 1 : j = 1
        OBVIOUS
    <2>6. QED
        BY <2>2, <2>3, <2>4, <2>5, GivenFirst
<1>2. CASE d # 0
    <2> DEFINE s == <<Call("MakeTree", d - 1), Save("a"), Call("MakeTree", d - 1), Save("b"),
                      Alloc, InitNode, Return>>
    <2>1. MakeTree(d) = s
        BY <1>2 DEF MakeTree
    <2>2. /\ Len(s) = 7 /\ s[1] = Call("MakeTree", d - 1) /\ s[2] = Save("a")
          /\ s[4] = Save("b") /\ s[6] = InitNode
        OBVIOUS
    <2>3. \A pc \in {1, 2, 3, 4, 5, 7} : NoLocal(s[pc])
        BY InstrNeeds DEF Needless
    <2>4. ~ NeedsRet(s[1]) /\ Gives(s[1])
        BY InstrNeeds DEF WithArgument
    <2> HIDE DEF s
    <2>5. \A pc \in 2 .. 7 : Given(s, pc)
        BY <2>4 DEF Given
    <2>6. IsSet(s, 6, "a") /\ IsSet(s, 6, "b")
        BY <2>2 DEF IsSet
    <2>7. s[6][1] = "init_Node"
        BY <2>2 DEF InitNode
    <2>8. ASSUME NEW pc \in 1 .. 7
          PROVE  /\ NeedsRet(s[pc]) => Given(s, pc)
                 /\ s[pc][1] \notin {"store", "load"}
                 /\ s[pc][1] = "init_Node" => IsSet(s, pc, "a") /\ IsSet(s, pc, "b")
        <3>1. CASE pc = 6
            BY <2>5, <2>6, <2>7, <3>1
        <3>2. CASE pc # 6
            <4>1. NoLocal(s[pc])
                BY <2>3, <3>2
            <4>2. NeedsRet(s[pc]) => Given(s, pc)
                BY <2>4, <2>5
            <4>3. QED
                BY <4>1, <4>2 DEF NoLocal
        <3>3. QED
            BY <3>1, <3>2
    <2>9. QED
        BY <2>1, <2>2, <2>8 DEF SetBeforeUse
<1>3. QED
    BY <1>1, <1>2

LEMMA TimeConstructionSets == SetBeforeUse("TimeConstruction", TimeConstruction(TimeDepth))
<1> DEFINE p == <<Alloc, Call("Populate", TimeDepth)>>
           t == <<Call("MakeTree", TimeDepth)>>
           S == {Alloc, Return, Call("Populate", TimeDepth), Call("MakeTree", TimeDepth)}
<1>1. \A i \in S : NoLocal(i)
    BY InstrNeeds DEF Needless
<1>2. p \in Seq(S) /\ Len(p) = 2 /\ t \in Seq(S) /\ Len(t) = 1 /\ Return \in S
    OBVIOUS
<1>3. TimeConstruction(TimeDepth) = (Loop(iNumIters, p) \o Loop(iNumIters, t)) \o <<Return>>
    BY DEF TimeConstruction
<1> HIDE DEF p, t, S
<1>4. Loop(iNumIters, p) \in Seq(S) /\ Loop(iNumIters, t) \in Seq(S)
    BY <1>2, LoopCode, BenchmarkAssumption
<1>5. TimeConstruction(TimeDepth) \in Seq(S)
    BY <1>2, <1>3, <1>4
<1>6. \A j \in 1 .. 0 : FALSE
    OBVIOUS
<1>7. QED
    BY <1>1, <1>5, <1>6, GivenFirst DEF WithArgument

LEMMA make_treeSets ==
    ASSUME NEW d \in Nat
    PROVE  SetBeforeUse("make_tree", make_tree(d))
<1> DEFINE S == {Alloc, FillFromVec, Return, PushVec, Call("make_tree", d - 1)}
<1>1. \A i \in S : NoLocal(i)
    BY InstrNeeds DEF Needless
<1>2. make_tree(d) \in Seq(S) /\ Len(make_tree(d)) >= 1
        /\ make_tree(d)[1] \in {Alloc, Call("make_tree", d - 1)}
    <2>1. CASE d = 0
        BY <2>1 DEF make_tree
    <2>2. CASE d # 0
        <3> DEFINE c == <<Call("make_tree", d - 1), PushVec>>
                   e == <<Alloc, FillFromVec, Return>>
        <3>1. c \in Seq(S) /\ Len(c) = 2 /\ c[1] = Call("make_tree", d - 1)
            OBVIOUS
        <3>2. e \in Seq(S) /\ Len(e) = 3 /\ e[1] = Alloc
            OBVIOUS
        <3>3. make_tree(d) = Loop(K, c) \o e
            BY <2>2 DEF make_tree
        <3> HIDE DEF c, e, S
        <3>4. K \in Nat /\ Loop(K, c) \in Seq(S) /\ (K = 0 => Len(Loop(K, c)) = 0)
            <4>1. K \in Nat
                BY BenchmarkAssumption
            <4>2. Loop(K, c) \in Seq(S) /\ Len(Loop(K, c)) = K * Len(c)
                BY <3>1, <4>1, LoopCode
            <4>3. QED
                BY <3>1, <4>1, <4>2
        <3>5. K # 0 => Len(Loop(K, c)) >= 1 /\ Loop(K, c)[1] = c[1]
            BY <3>1, <3>4, LoopFirst
        <3> DEFINE l == Loop(K, c)
        <3> HIDE DEF l
        <3>6. l \in Seq(S) /\ (Len(l) = 0 \/ l[1] = c[1]) /\ make_tree(d) = l \o e
            BY <3>3, <3>4, <3>5 DEF l
        <3>7. l \o e \in Seq(S) /\ Len(l \o e) >= 1 /\ (l \o e)[1] \in {e[1], c[1]}
            <4>1. l \in Seq(S) /\ e \in Seq(S) /\ Len(e) = 3
                BY <3>2, <3>6
            <4>2. QED
                BY <3>6, <4>1, ConcatFirst
        <3>8. QED
            BY <3>1, <3>2, <3>6, <3>7
    <2>3. QED
        BY <2>1, <2>2
<1>3. ~ NeedsRet(make_tree(d)[1]) /\ Gives(make_tree(d)[1])
    BY <1>2, InstrNeeds DEF Needless, WithArgument
<1>4. \A j \in 1 .. 1 : j = 1
    OBVIOUS
<1> HIDE DEF S
<1>5. QED
    BY <1>1, <1>2, <1>3, <1>4, GivenFirst

LEMMA gcbench_startSets == SetBeforeUse("gcbench", gcbench_start)
<1> DEFINE S == {SetLowWaterMark, New, Call("MakeTree", StretchDepth), Alloc, Save("a"),
                 Call("Populate", LongLivedDepth), Call("TimeConstruction", TimeDepth),
                 Use("a"), Exit}
<1>1. \A i \in S : NoLocal(i)
    BY InstrNeeds DEF Needless
<1>2. /\ gcbench_start \in Seq(S) /\ Len(gcbench_start) = 9
      /\ gcbench_start[1] = SetLowWaterMark /\ gcbench_start[2] = New
      /\ gcbench_start[3] = Call("MakeTree", StretchDepth)
    BY DEF gcbench_start
<1>3. /\ \A j \in 1 .. 3 : ~ NeedsRet(gcbench_start[j])
      /\ Gives(gcbench_start[3])
    <2>1. \A j \in 1 .. 3 : j \in {1, 2, 3}
        OBVIOUS
    <2>2. ~ NeedsRet(Call("MakeTree", StretchDepth))
        BY InstrNeeds DEF WithArgument
    <2>3. QED
        BY <1>2, <2>1, <2>2, InstrNeeds DEF Needless
<1> HIDE DEF S
<1>4. QED
    BY <1>1, <1>2, <1>3, GivenFirst

LEMMA run_one_testSets == SetBeforeUse("mt_gcbench", run_one_test)
<1> DEFINE S == {SetLowWaterMark, New, Alloc, Call("Populate", LongLivedDepth),
                 Call("TimeConstruction", TimeDepth), Destroy, Exit}
<1>1. \A i \in S : NoLocal(i)
    BY InstrNeeds DEF Needless
<1>2. /\ run_one_test \in Seq(S) /\ Len(run_one_test) = 7
      /\ run_one_test[1] = SetLowWaterMark /\ run_one_test[2] = New
      /\ run_one_test[3] = Alloc
    BY DEF run_one_test
<1>3. /\ \A j \in 1 .. 3 : ~ NeedsRet(run_one_test[j])
      /\ Gives(run_one_test[3])
    <2>1. \A j \in 1 .. 3 : j \in {1, 2, 3}
        OBVIOUS
    <2>2. QED
        BY <1>2, <2>1, InstrNeeds DEF Needless
<1> HIDE DEF S
<1>4. QED
    BY <1>1, <1>2, <1>3, GivenFirst

\* A program that creates its mutator and starts with s.
LEMMA NewGives ==
    ASSUME NEW fn, NEW S, NEW s \in Seq(S), \A i \in S : NoLocal(i),
           Len(s) >= 1, ~ NeedsRet(s[1]), Gives(s[1]) \/ Len(s) = 1
    PROVE  SetBeforeUse(fn, <<New>> \o s)
<1> DEFINE t == <<New>> \o s
           T == S \cup {New}
<1>1. t \in Seq(T) /\ Len(t) = Len(s) + 1 /\ Len(s) \in Nat
    OBVIOUS
<1>2. t[1] = New /\ t[2] = s[1]
    BY <1>1
<1>3. \A i \in T : NoLocal(i)
    BY InstrNeeds DEF Needless
<1>4. \A j \in 1 .. 2 : j \in {1, 2}
    OBVIOUS
<1> HIDE DEF t, T
<1>5. \A j \in 1 .. 2 : ~ NeedsRet(t[j])
    BY <1>2, <1>4, InstrNeeds DEF Needless
<1>6. CASE Gives(s[1])
    <2>1. SetBeforeUse(fn, t)
        BY <1>1, <1>2, <1>3, <1>5, <1>6, GivenFirst
    <2>2. QED
        BY <2>1 DEF t
<1>7. CASE Len(s) = 1
    <2>1. \A j \in 1 .. 3 : j <= Len(t) => j \in 1 .. 2
        BY <1>1, <1>7
    <2>2. 3 \notin 1 .. Len(t)
        BY <1>1, <1>7
    <2>3. SetBeforeUse(fn, t)
        BY <1>1, <1>3, <1>5, <2>1, <2>2, GivenFirst
    <2>4. QED
        BY <2>3 DEF t
<1>8. QED
    BY <1>6, <1>7

\* A loop whose body gives a result first, and an end that needs none.
LEMMA LoopGives ==
    ASSUME NEW fn, NEW S, NEW n \in Nat, NEW body \in Seq(S), NEW e \in Seq(S),
           \A i \in S : NoLocal(i), Len(body) \in {1, 2, 3}, Gives(body[1]),
           ~ NeedsRet(body[1]), Len(e) >= 1, n = 0 => Len(e) = 1 /\ ~ NeedsRet(e[1])
    PROVE  SetBeforeUse(fn, <<New>> \o (Loop(n, body) \o e))
<1> DEFINE l == Loop(n, body)
           s == l \o e
<1>1. l \in Seq(S) /\ (n = 0 => Len(l) = 0)
    BY LoopCode
<1>2. n # 0 => Len(l) >= 1 /\ l[1] = body[1]
    BY LoopFirst
<1> HIDE DEF l
<1>3. s \in Seq(S) /\ Len(s) >= 1 /\ s[1] = IF Len(l) = 0 THEN e[1] ELSE l[1]
    BY <1>1, ConcatFirst
<1>4. Len(s) = Len(l) + Len(e) /\ Len(l) \in Nat
    <2>1. l \in Seq(S) /\ e \in Seq(S)
        BY <1>1
    <2>2. QED
        BY <2>1
<1> HIDE DEF s
<1>5. ~ NeedsRet(s[1]) /\ (Gives(s[1]) \/ Len(s) = 1)
    <2>1. CASE n = 0
        BY <1>1, <1>3, <1>4, <2>1
    <2>2. CASE n # 0
        BY <1>2, <1>3, <1>4, <2>2
    <2>3. QED
        BY <2>1, <2>2
<1>6. SetBeforeUse(fn, <<New>> \o s)
    BY <1>3, <1>5, NewGives
<1>7. QED
    BY <1>6 DEF s, l

LEMMA exhaust_allocSets == SetBeforeUse("exhaust", exhaust_alloc)
<1> DEFINE S == {Alloc, Exit}
           body == <<Alloc>>
           e == <<Exit>>
<1>1. \A i \in S : NoLocal(i)
    BY InstrNeeds DEF Needless
<1>2. /\ body \in Seq(S) /\ Len(body) = 1 /\ body[1] = Alloc
      /\ e \in Seq(S) /\ Len(e) = 1 /\ e[1] = Exit
    OBVIOUS
<1>3. Gives(Alloc) /\ ~ NeedsRet(Alloc) /\ ~ NeedsRet(Exit)
    BY InstrNeeds DEF Needless
<1>4. exhaust_alloc = <<New>> \o (Loop(ALLOCATION_TIMES, body) \o e)
    <2>1. exhaust_alloc = <<New>> \o Loop(ALLOCATION_TIMES, body) \o e
        BY DEF exhaust_alloc
    <2> HIDE DEF body, e, S
    <2>2. Loop(ALLOCATION_TIMES, body) \in Seq(S)
        BY <1>2, LoopCode, BenchmarkAssumption
    <2>3. QED
        BY <1>2, <2>1, <2>2
<1> HIDE DEF S, body, e
<1>5. /\ body \in Seq(S) /\ e \in Seq(S) /\ Len(body) \in {1, 2, 3}
      /\ Gives(body[1]) /\ ~ NeedsRet(body[1]) /\ Len(e) >= 1 /\ ~ NeedsRet(e[1]) /\ Len(e) = 1
    BY <1>2, <1>3
<1>6. ALLOCATION_TIMES \in Nat
    BY BenchmarkAssumption
<1>7. QED
    BY <1>1, <1>4, <1>5, <1>6, LoopGives

LEMMA alloc_initSets == SetBeforeUse("initobj", alloc_init)
<1> DEFINE S == {AllocRaw, PushVec, InitVec, Exit}
           body == <<AllocRaw, PushVec>>
           e == <<InitVec, Exit>>
<1>1. \A i \in S : NoLocal(i)
    BY InstrNeeds DEF Needless
<1>2. /\ body \in Seq(S) /\ Len(body) = 2 /\ body[1] = AllocRaw
      /\ e \in Seq(S) /\ Len(e) = 2
    OBVIOUS
<1>3. Gives(AllocRaw) /\ ~ NeedsRet(AllocRaw)
    BY InstrNeeds DEF Needless
<1>4. alloc_init = <<New>> \o (Loop(ALLOCATION_TIMES, body) \o e)
    <2>1. alloc_init = <<New>> \o Loop(ALLOCATION_TIMES, body) \o e
        BY DEF alloc_init
    <2> HIDE DEF body, e, S
    <2>2. Loop(ALLOCATION_TIMES, body) \in Seq(S)
        BY <1>2, LoopCode, BenchmarkAssumption
    <2>3. QED
        BY <1>2, <2>1, <2>2
<1> HIDE DEF S, body, e
<1>5. /\ body \in Seq(S) /\ e \in Seq(S) /\ Len(body) \in {1, 2, 3}
      /\ Gives(body[1]) /\ ~ NeedsRet(body[1]) /\ Len(e) >= 1
    BY <1>2, <1>3
<1>6. ALLOCATION_TIMES \in Nat \ {0}
    BY BenchmarkAssumption
<1>7. QED
    BY <1>1, <1>4, <1>5, <1>6, LoopGives

LEMMA mt_traceSets == SetBeforeUse("mt-trace", mt_trace)
<1> DEFINE S == {Call("make_tree", TREE_DEPTH), PushVec, Exit}
           body == <<Call("make_tree", TREE_DEPTH), PushVec>>
           e == <<Exit>>
<1>1. \A i \in S : NoLocal(i)
    BY InstrNeeds DEF Needless
<1>2. /\ body \in Seq(S) /\ Len(body) = 2 /\ body[1] = Call("make_tree", TREE_DEPTH)
      /\ e \in Seq(S) /\ Len(e) = 1 /\ e[1] = Exit
    OBVIOUS
<1>3. /\ Gives(Call("make_tree", TREE_DEPTH)) /\ ~ NeedsRet(Call("make_tree", TREE_DEPTH))
      /\ ~ NeedsRet(Exit)
    BY InstrNeeds DEF Needless, WithArgument
<1>4. mt_trace = <<New>> \o (Loop(TREE_COUNT, body) \o e)
    <2>1. mt_trace = <<New>> \o Loop(TREE_COUNT, body) \o e
        BY DEF mt_trace
    <2> HIDE DEF body, e, S
    <2>2. Loop(TREE_COUNT, body) \in Seq(S)
        BY <1>2, LoopCode, BenchmarkAssumption
    <2>3. QED
        BY <1>2, <2>1, <2>2
<1> HIDE DEF S, body, e
<1>5. /\ body \in Seq(S) /\ e \in Seq(S) /\ Len(body) \in {1, 2, 3}
      /\ Gives(body[1]) /\ ~ NeedsRet(body[1]) /\ Len(e) >= 1 /\ ~ NeedsRet(e[1]) /\ Len(e) = 1
    BY <1>2, <1>3
<1>6. TREE_COUNT \in Nat
    BY BenchmarkAssumption
<1>7. QED
    BY <1>1, <1>4, <1>5, <1>6, LoopGives

LEMMA trace_listSets == SetBeforeUse("trace", trace_list)
<1> DEFINE body == <<Alloc, Store("b", "left"), Save("b")>>
           first == <<New, Alloc, Save("a"), Save("b")>>
           e == <<Use("a"), Exit>>
           S == {Alloc, Store("b", "left"), Save("b"), Use("a"), Exit}
           l == Loop(ALLOCATION_TIMES - 1, body)
           s == l \o e
           t == first \o s
<1>1. body \in Seq(S) /\ Len(body) = 3 /\ e \in Seq(S)
    OBVIOUS
<1>2. trace_list = first \o l \o e
    BY DEF trace_list
<1>3. Len(first) = 4 /\ first[1] = New /\ first[2] = Alloc /\ first[3] = Save("a")
        /\ first[4] = Save("b") /\ first \in Seq({New, Alloc, Save("a"), Save("b")})
    OBVIOUS
<1>4. /\ \A i \in S : i[1] # "load" /\ i[1] # "init_Node"
      /\ \A i \in S : i[1] = "store" => i[2] = "b"
    BY DEF Alloc, Store, Save, Use, Exit
<1> HIDE DEF S, body, e, first
<1>5. l \in Seq(S)
    BY <1>1, LoopCode, BenchmarkAssumption
<1> HIDE DEF l
<1>6. s \in Seq(S)
    BY <1>1, <1>5
<1>7. trace_list = t
    BY <1>1, <1>2, <1>3, <1>5
<1> HIDE DEF s
<1>8. /\ Len(t) = Len(s) + 4 /\ Len(s) \in Nat
      /\ t[1] = New /\ t[2] = Alloc /\ t[3] = Save("a") /\ t[4] = Save("b")
      /\ \A pc \in 5 .. Len(t) : t[pc] = s[pc - 4]
    <2> DEFINE U == S \cup {New, Alloc, Save("a"), Save("b")}
    <2>1. s \in Seq(U) /\ first \in Seq(U)
        BY <1>3, <1>6
    <2> HIDE DEF U
    <2>2. /\ Len(t) = Len(first) + Len(s) /\ Len(s) \in Nat
          /\ \A i \in 1 .. Len(first) + Len(s) :
                t[i] = IF i <= Len(first) THEN first[i] ELSE s[i - Len(first)]
        BY <2>1, ConcatProperties
    <2> HIDE DEF t
    <2>3. QED
        BY <1>3, <2>2
<1>9. \A pc \in 5 .. Len(t) : t[pc] \in S
    BY <1>6, <1>8
<1> HIDE DEF t
<1>10. SetBeforeUse("trace", t)
    <2> SUFFICES ASSUME NEW pc \in 1 .. Len(t)
                 PROVE  /\ NeedsRet(t[pc]) => Given(t, pc)
                        /\ t[pc][1] \notin {"load", "init_Node"}
                        /\ t[pc][1] = "store" => IsSet(t, pc, t[pc][2])
        BY DEF SetBeforeUse
    <2>1. ~ NeedsRet(t[1]) /\ ~ NeedsRet(t[2]) /\ Gives(t[2])
        BY <1>8, InstrNeeds DEF Needless
    <2>2. NeedsRet(t[pc]) => Given(t, pc)
        <3>1. CASE pc \in {1, 2}
            BY <2>1, <3>1
        <3>2. CASE pc \notin {1, 2}
            <4>1. 2 \in 1 .. pc - 1
                BY <1>8, <3>2
            <4>2. QED
                BY <2>1, <4>1 DEF Given
        <3>3. QED
            BY <3>1, <3>2
    <2>3. CASE pc \in {1, 2, 3, 4}
        <3>1. NoLocal(t[pc])
            BY <1>8, <2>3, InstrNeeds DEF Needless
        <3>2. QED
            BY <2>2, <3>1 DEF NoLocal
    <2>4. CASE pc \notin {1, 2, 3, 4}
        <3>1. pc \in 5 .. Len(t) /\ 4 \in 1 .. pc - 1
            BY <1>8, <2>4
        <3>2. t[pc] \in S /\ IsSet(t, pc, "b")
            BY <1>8, <1>9, <3>1 DEF IsSet
        <3>3. QED
            BY <1>4, <2>2, <3>2
    <2>5. QED
        BY <2>3, <2>4
<1>11. QED
    BY <1>7, <1>10

LEMMA TextSets ==
    ASSUME NEW fn, NEW d, <<fn, d>> \in Function
    PROVE  SetBeforeUse(fn, Text[<<fn, d>>])
<1>1. Text[<<fn, d>>] = Code(fn, d)
    BY DEF Text
<1>2. \/ fn \in {"Populate", "MakeTree", "make_tree"} /\ d \in Nat
      \/ fn = "TimeConstruction" /\ d = TimeDepth
      \/ fn \in Program /\ d = 0
    BY FunctionIs
<1>3. CASE fn = "Populate"
    BY <1>1, <1>2, <1>3, PopulateSets DEF Code, Program
<1>4. CASE fn = "MakeTree"
    BY <1>1, <1>2, <1>4, MakeTreeSets DEF Code, Program
<1>5. CASE fn = "make_tree"
    BY <1>1, <1>2, <1>5, make_treeSets DEF Code, Program
<1>6. CASE fn = "TimeConstruction"
    BY <1>1, <1>2, <1>6, TimeConstructionSets DEF Code, Program
<1>7. CASE fn = "gcbench"
    BY <1>1, <1>7, gcbench_startSets DEF Code
<1>8. CASE fn = "mt_gcbench"
    BY <1>1, <1>8, run_one_testSets DEF Code
<1>9. CASE fn = "exhaust"
    BY <1>1, <1>9, exhaust_allocSets DEF Code
<1>10. CASE fn = "initobj"
    BY <1>1, <1>10, alloc_initSets DEF Code
<1>11. CASE fn = "trace"
    BY <1>1, <1>11, trace_listSets DEF Code
<1>12. CASE fn = "mt-trace"
    BY <1>1, <1>12, mt_traceSets DEF Code
<1>13. QED
    BY <1>2, <1>3, <1>4, <1>5, <1>6, <1>7, <1>8, <1>9, <1>10, <1>11, <1>12 DEF Program

\* Populate stores both fields of its node before it loads them, and keeps its node.
LEMMA PopulateText ==
    ASSUME NEW d, <<"Populate", d>> \in Function, NEW pc \in 1 .. Len(Text[<<"Populate", d>>])
    PROVE  LET i == Text[<<"Populate", d>>][pc] IN
           /\ i[1] \notin {"save", "push", "fill", "init_Node"}
           /\ pc = 2 => i = Store("a", "left")
           /\ pc = 4 => i = Store("a", "right")
           /\ i[1] = "load" => \/ i = Load("a", "left") /\ pc > 2
                               \/ i = Load("a", "right") /\ pc > 4
<1>1. Text[<<"Populate", d>>] = Populate(d) /\ d \in Nat
    BY FunctionIs DEF Text, Code, Program
<1>2. CASE d = 0
    <2>1. Populate(d) = <<Return>>
        BY <1>2 DEF Populate
    <2>2. QED
        BY <1>1, <2>1 DEF Return
<1>3. CASE d # 0
    <2>1. Populate(d) =
            <<Alloc, Store("a", "left"), Alloc, Store("a", "right"), Load("a", "left"),
              Call("Populate", d - 1), Load("a", "right"), Call("Populate", d - 1), Return>>
        BY <1>3 DEF Populate
    <2>2. QED
        BY <1>1, <2>1 DEF Alloc, Store, Load, Call, Return
<1>4. QED
    BY <1>2, <1>3
===============================================================================
