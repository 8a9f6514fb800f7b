---------------------------- MODULE RootScanProofs ----------------------------
(***************************************************************************)
(* The conservative roots, for every set of threads, space, depth and      *)
(* number of iterations.                                                   *)
(***************************************************************************)
EXTENDS RootScan, AddressMapProofs, BenchmarksProofs, NumberFacts, FiniteSetTheorems

(***************************************************************************)
(* The space: words, objects and lines.                                    *)
(***************************************************************************)
Lines == (END - START) \div BYTES_IN_LINE

LEMMA SpaceFacts ==
    /\ (END - START) % POINTER_SIZE = 0
    /\ Lines \in Nat /\ END - START = Lines * BYTES_IN_LINE
    /\ Line = 0 .. Lines - 1
<1> DEFINE r == BYTES_IN_LINE \div 8
<1>1. Lines \in Nat /\ END - START = Lines * BYTES_IN_LINE
    BY AddressAssumption, ScanAssumption DEF Lines
<1>2. r \in Nat /\ BYTES_IN_LINE = r * 8
    BY ScanAssumption DEF POINTER_SIZE
<1> HIDE DEF r
<1>3. END - START = (Lines * r) * 8 /\ Lines * r \in Nat
    BY <1>1, <1>2
<1>4. \A n \in Nat : (n * 8) % 8 = 0
    OBVIOUS
<1>5. (END - START) % POINTER_SIZE = 0
    BY <1>3, <1>4 DEF POINTER_SIZE
<1>6. QED
    BY <1>1, <1>5 DEF Line, diff, Lines

\* What the benchmarks allocate: whole words, at most a line, and an encoding
\* the tracer knows.
LEMMA LayoutFacts ==
    ASSUME program \in Programs
    PROVE  /\ size \in {24, 32} /\ size <= BYTES_IN_LINE
           /\ Layout(program).encode \in {193, 195, 207}
           /\ Field("left") \in Nat /\ Field("right") \in Nat
<1>1. program \in Program /\ size <= BYTES_IN_LINE
    BY ScanAssumption DEF size
<1>2. Layout(program) \in {gcbench_Node, mt_gcbench_Node, exhaust_object, trace_object,
                           k_ary_object}
    BY <1>1 DEF Layout, Program
<1>3. QED
    BY <1>1, <1>2 DEF size, Field, gcbench_Node, mt_gcbench_Node, exhaust_object,
        trace_object, k_ary_object, OneRef, TwoRefs, FourRefs

\* An object of the space has an entry in both maps, at the same index.
LEMMA ObjectFacts ==
    ASSUME program \in Programs, NEW v \in Object
    PROVE  /\ v \in Address /\ v # Null /\ InSpace(v)
           /\ HasEntry(v) /\ Index(v) = SafeIndex(v)
           /\ Index(v) \in Word /\ Index(v) < MapLen
<1>1. v \in Address /\ v # Null /\ InSpace(v)
    BY LayoutFacts, AddressAssumption DEF Object, Address, Null, InSpace, POINTER_SIZE
<1>2. HasEntry(v) /\ Index(v) = SafeIndex(v)
    BY <1>1, SameEntry
<1>3. Index(v) \in 0 .. MapLen - 1
    BY <1>1, SpaceFacts, UncheckedGetInside
<1>4. MapLen \in Int
    BY AddressAssumption DEF MapLen, diff, POINTER_SIZE
<1>5. Index(v) \in Word
    BY <1>2, <1>3, <1>4, SafeLenNat DEF Word, HasEntry
<1>6. QED
    BY <1>1, <1>2, <1>3, <1>4, <1>5

\* Null has no entry, so a pointer that has one is an object.
LEMMA PointerFacts ==
    ASSUME program \in Programs, NEW v \in Pointer
    PROVE  /\ v \in Address
           /\ HasEntry(v) \/ InSpace(v) => v \in Object
<1>1. Null \in Address /\ ~ HasEntry(Null) /\ ~ InSpace(Null)
    BY SafeGetExact, AddressAssumption DEF Null, Address, InSpace, POINTER_SIZE
<1>2. QED
    BY <1>1, ObjectFacts DEF Pointer

\* The words of an object are on its first line and the next.
LEMMA TwoLines ==
    ASSUME program \in Programs, NEW x \in Object, NEW k \in 0 .. size \div POINTER_SIZE - 1
    PROVE  LET addr == x + k * POINTER_SIZE
           IN  /\ START <= addr /\ addr < END
               /\ LineOf(addr) \in Line
               /\ LineOf(addr) \in {LineOf(x), LineOf(x) + 1}
<1> DEFINE B == BYTES_IN_LINE
           o == x - START
           e == o + k * 8
           p == o \div B
           q == e \div B
<1>1. /\ B \in Nat \ {0} /\ START \in Nat /\ END \in Nat
      /\ size \in {24, 32} /\ size <= B
    BY AddressAssumption, ScanAssumption, LayoutFacts
<1>2. k \in Nat /\ k * 8 + 8 <= size
    BY <1>1 DEF POINTER_SIZE
<1>3. x \in Int /\ START <= x /\ x + size <= END
    BY <1>1 DEF Object
<1>4. o \in Nat /\ e \in Nat /\ o <= e /\ e < o + B /\ e < END - START
    BY <1>1, <1>2, <1>3
<1> HIDE DEF B, o, e
<1>5. p \in Int /\ p * B <= o /\ o < (p + 1) * B
    BY <1>1, <1>4, DivBounds
<1>6. q \in Int /\ q * B <= e /\ e < (q + 1) * B
    BY <1>1, <1>4, DivBounds
<1> HIDE DEF p, q
<1>7. p < q + 1
    <2>1. p * B < (q + 1) * B
        BY <1>1, <1>4, <1>5, <1>6
    <2>2. QED
        BY <1>1, <1>5, <1>6, <2>1, MulLess
<1>8. q < p + 2
    <2>1. q * B < (p + 2) * B
        BY <1>1, <1>4, <1>5, <1>6
    <2>2. QED
        BY <1>1, <1>5, <1>6, <2>1, MulLess
<1>9. q < Lines
    <2>1. q * B < Lines * B
        BY <1>1, <1>4, <1>6, SpaceFacts DEF B
    <2>2. QED
        BY <1>1, <1>6, <2>1, MulLess, SpaceFacts
<1>10. 0 <= p
    <2>1. 0 * B < (p + 1) * B
        BY <1>1, <1>4, <1>5
    <2>2. 0 < p + 1
        BY <1>1, <1>5, <2>1, MulLess
    <2>3. QED
        BY <1>5, <2>2
<1>11. LineOf(x) = p /\ LineOf(x + k * POINTER_SIZE) = q
    <2>1. (x + k * 8) - START = e
        BY <1>1, <1>2, <1>3 DEF e, o
    <2>2. QED
        BY <2>1 DEF LineOf, diff, POINTER_SIZE, B, o, p, q
<1>12. START <= x + k * POINTER_SIZE /\ x + k * POINTER_SIZE < END
    BY <1>1, <1>2, <1>3 DEF POINTER_SIZE
<1>13. q \in 0 .. Lines - 1 /\ q \in {p, p + 1}
    BY <1>5, <1>6, <1>7, <1>8, <1>9, <1>10, SpaceFacts
<1>14. QED
    BY <1>11, <1>12, <1>13, SpaceFacts

\* The bytes between the starts of two lines are on the lines between them.
LEMMA RegionLines ==
    ASSUME NEW addr \in Int, NEW first \in Nat, NEW end \in Nat,
           LineStart(first) <= addr, addr < LineStart(end)
    PROVE  LineOf(addr) \in first .. end - 1
<1> DEFINE B == BYTES_IN_LINE
           o == addr - START
           q == o \div B
<1>1. B \in Nat \ {0} /\ START \in Nat
    BY AddressAssumption, ScanAssumption
<1>2. o \in Int /\ first * B <= o /\ o < end * B
    BY <1>1 DEF LineStart
<1> HIDE DEF B, o
<1>3. q \in Int /\ q * B <= o /\ o < (q + 1) * B
    BY <1>1, <1>2, DivBounds
<1> HIDE DEF q
<1>4. first * B < (q + 1) * B /\ q * B < end * B
    BY <1>1, <1>2, <1>3
<1>5. first < q + 1
    BY <1>1, <1>3, <1>4, MulLess
<1>6. q < end
    BY <1>1, <1>3, <1>4, MulLess
<1>7. LineOf(addr) = q
    BY DEF LineOf, diff, B, o, q
<1>8. QED
    BY <1>3, <1>5, <1>6, <1>7

\* The start of a line, or the end of the last, is in the space.
LEMMA LineStartFacts ==
    ASSUME NEW first \in 0 .. Lines, NEW end \in first .. Lines
    PROVE  /\ LineStart(first) \in Address /\ LineStart(end) \in Address
           /\ START <= LineStart(first) /\ LineStart(first) <= LineStart(end)
           /\ LineStart(end) <= END
<1> DEFINE B == BYTES_IN_LINE
<1>1. B \in Nat \ {0} /\ Lines \in Nat /\ END - START = Lines * B
    BY ScanAssumption, SpaceFacts
<1> HIDE DEF B
<1>2. 0 * B <= first * B /\ first * B <= end * B /\ end * B <= Lines * B
    BY <1>1, MulLeq
<1>3. first * B \in Int /\ end * B \in Int /\ Lines * B \in Int /\ 0 * B = 0
    BY <1>1
<1>4. LineStart(first) = START + first * B /\ LineStart(end) = START + end * B
    BY DEF LineStart, B
<1>5. QED
    BY <1>1, <1>2, <1>3, <1>4, AddressAssumption DEF Address, POINTER_SIZE

(***************************************************************************)
(* A thread and its stack.                                                 *)
(***************************************************************************)

LEMMA BoundFacts == MaxFrames \in Nat \ {0} /\ MaxChance \in Nat /\ MarkFrames \in Nat
BY ScanAssumption

\* A thread that executes an instruction is not stopped, and a mutator among
\* them does so while the world runs.
LEMMA AtFacts ==
    ASSUME TypeOK, NEW m \in Mutator, NEW op, At(m, op)
    PROVE  /\ m \in Threads(program) /\ m \notin parked /\ leader # m
           /\ Instr(m)[1] = op
           /\ m \in registered => phase = "running"
BY ScanAssumption DEF At, Stopped, TypeOK

\* What is known of the instruction a thread comes to next.
LEMMA InstrFacts ==
    ASSUME TypeOK, FramesInv, NEW m \in Mutator
    PROVE  /\ sp[m] \in 1 .. MaxFrames
           /\ Top(m) \in Frame
           /\ <<Top(m).fn, Top(m).d>> \in Function
           /\ Top(m).pc \in 1 .. Len(Text[<<Top(m).fn, Top(m).d>>])
           /\ sp[m] = 1 => Top(m).fn = program /\ Top(m).d = 0
           /\ sp[m] > 1 => Top(m).fn \notin Program
           /\ Instr(m)[1] = "save" => Instr(m)[2] \in Local
           /\ Instr(m)[1] \in {"store", "load"} =>
                Instr(m)[2] \in Local /\ Instr(m)[3] \in FieldNames
           /\ Instr(m)[1] = "call" =>
                <<Instr(m)[2], Instr(m)[3]>> \in Function /\ Instr(m)[2] \notin Program
           /\ Instr(m)[1] \notin {"return", "exit"} =>
                Top(m).pc + 1 \in 1 .. Len(Text[<<Top(m).fn, Top(m).d>>])
           /\ Instr(m)[1] = "return" => sp[m] > 1
           /\ Instr(m)[1] = "alloc_raw" => Top(m).fn = "initobj"
           /\ Instr(m)[1] \in {"new", "destroy", "set_low_water_mark"} => sp[m] = 1
           /\ Top(m).fn = "initobj" =>
                Instr(m)[1] \in {"new", "alloc_raw", "push", "init_vec", "exit"}
<1> DEFINE f == Top(m)
<1>1. sp[m] \in 1 .. MaxFrames /\ program \in Program
    BY ScanAssumption DEF TypeOK
<1>2. f \in Frame
    BY <1>1 DEF TypeOK, Top
<1>3. sp[m] \in 1 .. sp[m]
    BY <1>1, ScanAssumption
<1>4. /\ <<f.fn, f.d>> \in Function
      /\ f.pc \in 1 .. Len(Text[<<f.fn, f.d>>])
      /\ sp[m] > 1 => f.fn \notin Program
      /\ sp[m] = 1 => f.fn = program
    BY <1>3 DEF FramesInv, Top
<1>5. sp[m] = 1 => f.d = 0
    BY <1>1, <1>4, FunctionIs DEF Program
<1>6. sp[m] = 1 \/ sp[m] > 1
    BY <1>1, ScanAssumption
<1>7. Instr(m) = Text[<<f.fn, f.d>>][f.pc]
    BY DEF Instr
<1> HIDE DEF f
<1> DEFINE i == Instr(m)
<1>8. /\ i[1] = "save" => i[2] \in Local
      /\ i[1] \in {"store", "load"} => i[2] \in Local /\ i[3] \in FieldNames
      /\ i[1] = "call" => <<i[2], i[3]>> \in Function /\ i[2] \notin Program
      /\ i[1] \notin {"return", "exit"} => f.pc + 1 \in 1 .. Len(Text[<<f.fn, f.d>>])
      /\ i[1] = "return" => f.fn \notin Program
      /\ i[1] = "alloc_raw" => f.fn = "initobj"
      /\ i[1] \in {"new", "destroy", "set_low_water_mark"} => f.fn \in Program
      /\ f.fn = "initobj" => i[1] \in {"new", "alloc_raw", "push", "init_vec", "exit"}
    BY <1>4, <1>7, InstructionFacts
<1> HIDE DEF i
<1>9. /\ i[1] = "return" => sp[m] > 1
      /\ i[1] \in {"new", "destroy", "set_low_water_mark"} => sp[m] = 1
    BY <1>1, <1>4, <1>6, <1>8
<1>10. QED
    BY <1>1, <1>2, <1>4, <1>5, <1>8, <1>9 DEF f, i

\* The program, and with it sizes and types, stays the same.
LEMMA SameProgram ==
    ASSUME program' = program
    PROVE  /\ size' = size /\ Object' = Object /\ Pointer' = Pointer /\ Frame' = Frame
           /\ Threads(program)' = Threads(program)
BY DEF size, Object, Pointer, Frame, Threads

\* A step to the next instruction leaves the stack well-formed.
LEMMA StackAdvance ==
    ASSUME TypeOK, FramesInv, NEW m \in Mutator, NEW f \in Frame,
           f.fn = Top(m).fn, f.d = Top(m).d, f.pc = Top(m).pc,
           Instr(m)[1] \notin {"return", "exit"},
           Advance(m, f), sp' = sp, program' = program
    PROVE  /\ stack' \in [Mutator -> [1 .. MaxFrames -> Frame]]
           /\ FramesInv'
           /\ \A n \in Mutator \ {m} : stack'[n] = stack[n]
           /\ stack'[m][1].pc = IF sp[m] = 1 THEN stack[m][1].pc + 1 ELSE stack[m][1].pc
           /\ \A k \in 1 .. MaxFrames :
                stack'[m][k] = IF k = sp[m] THEN [f EXCEPT !.pc = @ + 1] ELSE stack[m][k]
<1> DEFINE g == [f EXCEPT !.pc = @ + 1]
<1>1. /\ g \in Frame /\ g.fn = Top(m).fn /\ g.d = Top(m).d /\ g.pc = Top(m).pc + 1
      /\ g.a = f.a /\ g.b = f.b /\ g.vec = f.vec
    BY DEF Frame
<1> HIDE DEF g
<1>2. /\ stack \in [Mutator -> [1 .. MaxFrames -> Frame]]
      /\ sp \in [Mutator -> 1 .. MaxFrames] /\ MaxFrames \in Nat \ {0}
    BY ScanAssumption DEF TypeOK
<1>3. stack' = [stack EXCEPT ![m][sp[m]] = g]
    BY DEF Advance, g
<1>4. stack' \in [Mutator -> [1 .. MaxFrames -> Frame]]
    BY <1>1, <1>2, <1>3
<1>5. \A n \in Mutator \ {m} : stack'[n] = stack[n]
    BY <1>2, <1>3
<1>6. \A k \in 1 .. MaxFrames : stack'[m][k] = IF k = sp[m] THEN g ELSE stack[m][k]
    BY <1>2, <1>3
<1>7. 1 \in 1 .. MaxFrames /\ (sp[m] = 1 => Top(m) = stack[m][1])
    BY <1>2 DEF Top
<1>8. stack'[m][1].pc = IF sp[m] = 1 THEN stack[m][1].pc + 1 ELSE stack[m][1].pc
    BY <1>1, <1>6, <1>7
<1>9. FramesInv'
    <2> SUFFICES ASSUME NEW n \in Mutator
                 PROVE  /\ stack'[n][1].fn = program
                        /\ \A k \in 1 .. sp[n] :
                            /\ <<stack'[n][k].fn, stack'[n][k].d>> \in Function
                            /\ stack'[n][k].pc \in 1 .. Len(Text[<<stack'[n][k].fn, stack'[n][k].d>>])
                            /\ k > 1 => stack'[n][k].fn \notin Program
        BY DEF FramesInv
    <2>1. CASE n # m
        BY <1>5, <2>1 DEF FramesInv
    <2>2. CASE n = m
        <3>1. stack'[m][1].fn = program
            BY <1>1, <1>6, <1>7 DEF FramesInv
        <3>2. ASSUME NEW k \in 1 .. sp[m], k # sp[m]
              PROVE  stack'[m][k] = stack[m][k]
            BY <1>2, <1>6, <3>2
        <3>3. stack'[m][sp[m]] = g
            BY <1>2, <1>6
        <3>4. /\ <<g.fn, g.d>> \in Function
              /\ g.pc \in 1 .. Len(Text[<<g.fn, g.d>>])
              /\ sp[m] > 1 => g.fn \notin Program
            BY <1>1, InstrFacts
        <3>5. QED
            BY <2>2, <3>1, <3>2, <3>3, <3>4 DEF FramesInv
    <2>3. QED
        BY <2>1, <2>2
<1>10. QED
    BY <1>4, <1>5, <1>6, <1>8, <1>9 DEF g

\* Who allocates, calls or has called is registered.
LEMMA AllocRegistered ==
    ASSUME TypeOK, FramesInv, EnrolledInv, NEW m \in Mutator, m \in Threads(program),
           Instr(m)[1] \in {"alloc", "alloc_raw", "call"} \/ sp[m] > 1
    PROVE  m \in registered /\ ~ NotYetNew(program, stack[m][1].pc)
<1> DEFINE pc == stack[m][1].pc
<1>1. program \in Program /\ sp[m] \in 1 .. MaxFrames
    BY ScanAssumption DEF TypeOK
<1>2. /\ m \in registered <=> Enrolled(program, pc)
      /\ sp[m] > 1 => m \in registered
    BY DEF EnrolledInv
<1>3. Enrolled(program, pc) => ~ NotYetNew(program, pc)
    BY DEF Enrolled
<1>4. CASE sp[m] > 1
    BY <1>2, <1>3, <1>4
<1>5. CASE sp[m] = 1
    <2>1. /\ Top(m) = stack[m][1] /\ Top(m).fn = program /\ Top(m).d = 0
          /\ pc \in 1 .. Len(Text[<<program, 0>>])
          /\ Instr(m) = Text[<<program, 0>>][pc]
        BY <1>5, InstrFacts DEF Top, Instr
    <2>2. Instr(m)[1] \in {"alloc", "alloc_raw", "call"}
        BY <1>5
    <2>3. Enrolled(program, pc)
        BY <1>1, <2>1, <2>2, MutatorFacts
    <2>4. QED
        BY <1>2, <1>3, <2>3
<1>6. QED
    BY <1>1, <1>4, <1>5, ScanAssumption

\* An instruction that neither registers nor destroys, and at most bumps.
LEMMA EnrolledKept ==
    ASSUME TypeOK, FramesInv, EnrolledInv, NEW m \in Mutator, m \in Threads(program),
           Instr(m)[1] \notin {"new", "destroy", "return", "exit"},
           \A n \in Mutator \ {m} : stack'[n] = stack[n],
           stack'[m][1].pc = IF sp[m] = 1 THEN stack[m][1].pc + 1 ELSE stack[m][1].pc,
           sp' = sp \/ (Instr(m)[1] = "call" /\ \A n \in Mutator \ {m} : sp'[n] = sp[n]),
           registered' = registered, program' = program,
           UNCHANGED <<cursor, limit>> \/
             (/\ Instr(m)[1] \in {"alloc", "alloc_raw"}
              /\ \A n \in Mutator \ {m} : cursor'[n] = cursor[n] /\ limit'[n] = limit[n])
    PROVE  EnrolledInv'
<1>1. program \in Program /\ sp[m] \in 1 .. MaxFrames /\ MaxFrames \in Nat
    BY ScanAssumption DEF TypeOK
<1>2. \A q : (Threads(q))' = Threads(q)
    BY DEF Threads
<1> DEFINE Good(n) ==
        /\ n \in Threads(program) => (n \in registered <=> Enrolled(program, stack'[n][1].pc))
        /\ sp'[n] > 1 => n \in registered
        /\ NotYetNew(program, stack'[n][1].pc) => cursor'[n] = Null /\ limit'[n] = Null
<1>3. ASSUME NEW n \in Mutator, n # m PROVE Good(n)
    BY <1>3 DEF EnrolledInv
<1>4. Good(m)
    <2> DEFINE pc == stack[m][1].pc
    <2>1. /\ m \in registered <=> Enrolled(program, pc)
          /\ sp[m] > 1 => m \in registered
          /\ NotYetNew(program, pc) => cursor[m] = Null /\ limit[m] = Null
        BY DEF EnrolledInv
    <2>2. sp'[m] > 1 => m \in registered
        BY <2>1, AllocRegistered
    <2>3. /\ Enrolled(program, stack'[m][1].pc) <=> Enrolled(program, pc)
          /\ NotYetNew(program, stack'[m][1].pc) => NotYetNew(program, pc)
        <3>1. CASE sp[m] # 1
            BY <3>1
        <3>2. CASE sp[m] = 1
            <4>1. /\ Top(m) = stack[m][1] /\ Top(m).fn = program /\ Top(m).d = 0
                  /\ pc \in 1 .. Len(Text[<<program, 0>>])
                  /\ Instr(m) = Text[<<program, 0>>][pc]
                BY <3>2, InstrFacts DEF Top, Instr
            <4>2. stack'[m][1].pc = pc + 1
                BY <3>2
            <4>3. Instr(m)[1] \notin {"new", "destroy"}
                OBVIOUS
            <4> HIDE DEF pc
            <4>4. QED
                BY <1>1, <4>1, <4>2, <4>3, MutatorFacts
        <3>3. QED
            BY <3>1, <3>2
    <2>4. NotYetNew(program, stack'[m][1].pc) => cursor'[m] = Null /\ limit'[m] = Null
        <3>1. CASE UNCHANGED <<cursor, limit>>
            BY <2>1, <2>3, <3>1
        <3>2. CASE Instr(m)[1] \in {"alloc", "alloc_raw"}
            BY <2>3, <3>2, AllocRegistered
        <3>3. QED
            BY <3>1, <3>2
    <2>5. QED
        BY <2>1, <2>2, <2>3, <2>4
<1> HIDE DEF Good
<1>5. \A n \in Mutator : Good(n)
    BY <1>3, <1>4
<1>6. QED
    BY <1>2, <1>5 DEF EnrolledInv, Good, Enrolled, NotYetNew

\* Bytes of alloc_map appear and stay.
LEMMA KnownGrows ==
    ASSUME program \in Programs, program' = program,
           \A w \in Word : alloc_map'[w] \in {alloc_map[w], Layout(program).encode},
           NEW v, Known(v)
    PROVE  Known(v)'
<1> SUFFICES ASSUME v \in Object
             PROVE  alloc_map'[Index(v)] = Layout(program).encode
    BY SameProgram DEF Known, get_ref_byte
<1>1. Index(v) \in Word /\ alloc_map[Index(v)] = Layout(program).encode
    BY ObjectFacts DEF Known, get_ref_byte
<1>2. QED
    BY <1>1

\* The locals the collector must find do not change while their thread waits.
LEMMA MustKept ==
    ASSUME NEW n, stack'[n] = stack[n], sp'[n] = sp[n],
           low_water_mark'[n] = low_water_mark[n]
    PROVE  Must(n)' = Must(n)
BY DEF Must, HeldBy, LiveLocals, Scanned

\* A step of a running thread other than sync_barrier.
LEMMA HeldKept ==
    ASSUME TypeOK, PhaseInv, HeldInv, PatternsExpected, NEW m \in Mutator,
           phase = "running" \/ line_mark_table' = line_mark_table,
           m \notin parked, leader # m,
           UNCHANGED <<parked, phase, leader, gc, ROOTS, marked, program>>,
           \A n \in Mutator \ {m} : /\ stack'[n] = stack[n] /\ sp'[n] = sp[n]
                                    /\ low_water_mark'[n] = low_water_mark[n]
    PROVE  PhaseInv' /\ HeldInv' /\ PatternsExpected'
<1>1. PhaseInv'
    BY DEF PhaseInv
<1>2. /\ PatternsExpected'
      /\ phase = "running" => gc = "idle"
      /\ gc = "trace" => leader # None
    BY DEF PhaseInv, PatternsExpected
<1>3. parked \cup ({leader} \ {None}) \subseteq Mutator \ {m}
    BY ScanAssumption DEF TypeOK, Threads
<1>4. \A n \in parked \cup ({leader} \ {None}) : Must(n)' = Must(n)
    BY <1>3, MustKept
<1>5. HeldInv'
    <2>1. CASE phase = "running"
        BY <1>2, <1>4, <2>1, SameProgram DEF HeldInv
    <2>2. CASE phase # "running"
        <3>1. line_mark_table' = line_mark_table
            BY <2>2
        <3>2. gc = "trace" => \A n \in parked \cup {leader} : Must(n)' = Must(n)
            BY <1>2, <1>4
        <3>3. QED
            BY <2>2, <3>1, <3>2, SameProgram DEF HeldInv, MarkedLines
    <2>3. QED
        BY <2>1, <2>2
<1>6. QED
    BY <1>1, <1>2, <1>5

\* A stack whose new words are known.
LEMMA KnownKept ==
    ASSUME TypeOK, KnownInv, NEW m \in Mutator, NEW f \in Frame,
           \A n \in Mutator \ {m} : stack'[n] = stack[n],
           \A k \in 1 .. MaxFrames :
             stack'[m][k] = IF k = sp[m] THEN [f EXCEPT !.pc = @ + 1] ELSE stack[m][k],
           UNCHANGED <<sp, program, ROOTS>>,
           \A w \in Word : alloc_map'[w] \in {alloc_map[w], Layout(program).encode},
           program = "initobj" => low_water_mark' = low_water_mark,
           \A w \in Word : Known(memory[w])',
           program # "initobj" =>
             /\ Known(f.a)' /\ Known(f.b)' /\ \A j \in DOMAIN f.vec : Known(f.vec[j])'
             /\ \A n \in Mutator : Known(ret[n])'
    PROVE  KnownInv'
<1> DEFINE KnownFrame(g) == Known(g.a) /\ Known(g.b) /\ \A j \in DOMAIN g.vec : Known(g.vec[j])
           g == [f EXCEPT !.pc = @ + 1]
<1>1. program \in Programs
    BY DEF TypeOK
<1>2. \A v : Known(v) => Known(v)'
    BY <1>1, KnownGrows
<1>3. g.a = f.a /\ g.b = f.b /\ g.vec = f.vec
    BY DEF Frame
<1> HIDE DEF g
<1>4. \A obj \in ROOTS' : Known(obj)'
    BY <1>2 DEF KnownInv
<1>5. program = "initobj" => \A n \in Mutator : sp'[n] = 1 /\ low_water_mark'[n] = Null
    BY DEF KnownInv
<1>6. ASSUME program # "initobj", NEW n \in Mutator, NEW k \in 1 .. MaxFrames
      PROVE  KnownFrame(stack[n][k])'
    <2>1. CASE n = m /\ k = sp[m]
        <3>1. stack'[n][k] = g
            BY <2>1 DEF g
        <3>2. QED
            BY <1>3, <1>6, <3>1
    <2>2. CASE n # m \/ k # sp[m]
        <3>1. stack'[n][k] = stack[n][k]
            BY <2>2
        <3>2. KnownFrame(stack[n][k])
            BY <1>6 DEF KnownInv
        <3>3. QED
            BY <1>2, <3>1, <3>2
    <2>3. QED
        BY <2>1, <2>2
<1>7. QED
    BY <1>4, <1>5, <1>6 DEF KnownInv

\* An instruction that changes locals, registers, memory or the low water mark.
LEMMA ComputeStep ==
    ASSUME ScanInv, NEW m \in Mutator, m \in Threads(program),
           m \notin parked, leader # m,
           Instr(m)[1] \notin {"return", "exit", "new", "destroy", "call"},
           NEW f \in Frame, f.fn = Top(m).fn, f.d = Top(m).d, f.pc = Top(m).pc,
           Advance(m, f), sp' = sp, Quiet,
           ret' \in [Mutator -> Pointer], memory' \in [Word -> Pointer],
           low_water_mark' \in [Mutator -> 0 .. MaxFrames],
           \A n \in Mutator \ {m} : low_water_mark'[n] = low_water_mark[n],
           program = "initobj" => low_water_mark' = low_water_mark,
           \A w \in Word : Known(memory'[w]),
           program # "initobj" =>
             /\ Known(f.a) /\ Known(f.b) /\ \A j \in DOMAIN f.vec : Known(f.vec[j])
             /\ \A n \in Mutator : Known(ret'[n])
    PROVE  ScanInv'
<1>1. /\ TypeOK /\ FramesInv /\ EnrolledInv /\ BumpInv /\ KnownInv /\ PhaseInv /\ HeldInv
      /\ PatternsExpected
    BY DEF ScanInv
<1>2. /\ UNCHANGED <<registered, parked, phase, take_yield, leader, program, alloc_map,
                     trace_map, mark_state, line_mark_table, cursor, limit, ROOTS, gc,
                     marked, chance>>
    BY DEF Quiet, world, maps, bump, collector
<1>3. /\ stack' \in [Mutator -> [1 .. MaxFrames -> Frame]]
      /\ FramesInv'
      /\ \A n \in Mutator \ {m} : stack'[n] = stack[n]
      /\ stack'[m][1].pc = IF sp[m] = 1 THEN stack[m][1].pc + 1 ELSE stack[m][1].pc
      /\ \A k \in 1 .. MaxFrames :
            stack'[m][k] = IF k = sp[m] THEN [f EXCEPT !.pc = @ + 1] ELSE stack[m][k]
    BY <1>1, <1>2, StackAdvance
<1>4. TypeOK'
    BY <1>1, <1>2, <1>3, SameProgram DEF TypeOK
<1>5. EnrolledInv'
    BY <1>1, <1>2, <1>3, EnrolledKept
<1>6. BumpInv'
    BY <1>1, <1>2 DEF BumpInv
<1>7. \A v : Known(v)' <=> Known(v)
    BY <1>2, SameProgram DEF Known, get_ref_byte
<1>8. KnownInv'
    <2>1. \A w \in Word : Known(memory[w])'
        BY <1>2, SameProgram DEF Known, get_ref_byte
    <2>2. program # "initobj" => \A n \in Mutator : Known(ret[n])'
        BY <1>2, SameProgram DEF Known, get_ref_byte
    <2>3. \A w \in Word : alloc_map'[w] \in {alloc_map[w], Layout(program).encode}
        BY <1>2
    <2>4. QED
        BY <1>1, <1>2, <1>3, <1>7, <2>1, <2>2, <2>3, KnownKept
<1>9. PhaseInv' /\ HeldInv' /\ PatternsExpected'
    BY <1>1, <1>2, <1>3, HeldKept
<1>10. QED
    BY <1>3, <1>4, <1>5, <1>6, <1>8, <1>9 DEF ScanInv

LEMMA LowWaterMarkInv ==
    ASSUME ScanInv, NEW m \in Mutator, set_low_water_mark(m)
    PROVE  ScanInv'
<1>1. /\ TypeOK /\ FramesInv /\ KnownInv
    BY DEF ScanInv
<1>2. /\ m \in Threads(program) /\ m \notin parked /\ leader # m
      /\ Instr(m)[1] = "set_low_water_mark"
      /\ low_water_mark' = [low_water_mark EXCEPT ![m] = sp[m]]
      /\ Advance(m, Top(m)) /\ UNCHANGED <<sp, ret, memory>> /\ Quiet
    BY <1>1, AtFacts DEF set_low_water_mark
<1>3. Top(m) \in Frame /\ sp[m] \in 1 .. MaxFrames
    BY <1>1, InstrFacts
<1>4. /\ low_water_mark' \in [Mutator -> 0 .. MaxFrames]
      /\ \A n \in Mutator \ {m} : low_water_mark'[n] = low_water_mark[n]
    <2>1. low_water_mark \in [Mutator -> 0 .. MaxFrames]
        BY <1>1 DEF TypeOK
    <2>2. sp[m] \in 0 .. MaxFrames
        BY <1>3, BoundFacts
    <2>3. QED
        BY <1>2, <2>1, <2>2
<1>5. program # "initobj"
    BY <1>1, <1>2, InstrFacts
<1>6. ret' \in [Mutator -> Pointer] /\ memory' \in [Word -> Pointer]
    BY <1>1, <1>2 DEF TypeOK
<1>7. /\ \A w \in Word : Known(memory'[w])
      /\ Known(Top(m).a) /\ Known(Top(m).b)
      /\ \A j \in DOMAIN Top(m).vec : Known(Top(m).vec[j])
      /\ \A n \in Mutator : Known(ret'[n])
    BY <1>1, <1>2, <1>3, <1>5 DEF KnownInv, Top
<1>8. QED
    BY <1>2, <1>3, <1>4, <1>5, <1>6, <1>7, ComputeStep

\* save, use, store, load, init_Node, push and fill.
LEMMA ComputeInv ==
    ASSUME ScanInv, NEW m \in Mutator, Compute(m)
    PROVE  ScanInv'
<1> DEFINE f == Top(m)
           i == Instr(m)
           word(x, field) == Index(x + Field(field))
<1>1. TypeOK /\ FramesInv /\ KnownInv
    BY DEF ScanInv
<1>2. /\ f \in Frame
      /\ ret \in [Mutator -> Pointer] /\ memory \in [Word -> Pointer]
      /\ low_water_mark \in [Mutator -> 0 .. MaxFrames]
    BY <1>1, InstrFacts DEF TypeOK
<1>3. /\ {f.a, f.b} \subseteq Pointer /\ f.vec \in Seq(Pointer)
      /\ f.fn = Top(m).fn /\ f.d = Top(m).d /\ f.pc = Top(m).pc
    BY <1>2 DEF Frame
<1>4. /\ \A w \in Word : Known(memory[w])
      /\ program # "initobj" =>
            /\ Known(f.a) /\ Known(f.b) /\ \A j \in DOMAIN f.vec : Known(f.vec[j])
            /\ \A n \in Mutator : Known(ret[n])
    BY <1>1, InstrFacts DEF KnownInv, Top
<1>5. UNCHANGED <<sp, low_water_mark>> /\ Quiet
    BY DEF Compute
<1>6. \A op : At(m, op) => /\ m \in Threads(program)
                           /\ m \notin parked /\ leader # m /\ i[1] = op
    BY <1>1, AtFacts
<1>7. Null \in Pointer /\ Known(Null)
    BY <1>1, ObjectFacts DEF TypeOK, Pointer, Known
<1>8. i[1] \in {"save", "store", "load", "init_Node", "fill"} => program # "initobj"
    <2>1. program = "initobj" => f.fn = "initobj"
        BY <1>1, InstrFacts DEF KnownInv
    <2>2. QED
        BY <1>1, <2>1, InstrFacts
<1>9. /\ i[1] = "save" => i[2] \in Local
      /\ i[1] \in {"store", "load"} => i[2] \in Local /\ i[3] \in FieldNames
    BY <1>1, InstrFacts
<1>10. low_water_mark' \in [Mutator -> 0 .. MaxFrames]
    BY <1>2, <1>5
<1> HIDE DEF f, i
<1>11. ASSUME NEW g \in Frame, NEW op, At(m, op), g.fn = f.fn, g.d = f.d, g.pc = f.pc,
              op \in {"save", "use", "store", "load", "init_Node", "push", "fill"},
              Advance(m, g), ret' \in [Mutator -> Pointer], memory' \in [Word -> Pointer],
              \A w \in Word : Known(memory'[w]),
              program # "initobj" =>
                /\ Known(g.a) /\ Known(g.b) /\ \A j \in DOMAIN g.vec : Known(g.vec[j])
                /\ \A n \in Mutator : Known(ret'[n])
       PROVE  ScanInv'
    <2>1. /\ m \in Threads(program) /\ m \notin parked /\ leader # m
          /\ Instr(m)[1] \notin {"return", "exit", "new", "destroy", "call"}
        BY <1>6, <1>11 DEF i
    <2>2. g.fn = Top(m).fn /\ g.d = Top(m).d /\ g.pc = Top(m).pc
        BY <1>3, <1>11
    <2>3. /\ program = "initobj" => low_water_mark' = low_water_mark
          /\ \A n \in Mutator \ {m} : low_water_mark'[n] = low_water_mark[n]
          /\ sp' = sp
        BY <1>5
    <2>4. QED
        BY <1>5, <1>10, <1>11, <2>1, <2>2, <2>3, ComputeStep
<1>12. ASSUME At(m, "save"), Advance(m, [f EXCEPT ![i[2]] = ret[m]]), UNCHANGED <<ret, memory>>
       PROVE  ScanInv'
    <2> DEFINE g == [f EXCEPT ![i[2]] = ret[m]]
    <2>1. i[2] \in Local /\ program # "initobj"
        BY <1>6, <1>8, <1>9, <1>12
    <2>2. /\ g \in Frame /\ g.fn = f.fn /\ g.d = f.d /\ g.pc = f.pc /\ g.vec = f.vec
          /\ g.a \in {f.a, ret[m]} /\ g.b \in {f.b, ret[m]}
        BY <1>2, <2>1 DEF Frame, Local
    <2> HIDE DEF g
    <2>3. Known(g.a) /\ Known(g.b) /\ \A j \in DOMAIN g.vec : Known(g.vec[j])
        BY <1>4, <2>1, <2>2
    <2>4. /\ ret' \in [Mutator -> Pointer] /\ memory' \in [Word -> Pointer]
          /\ \A w \in Word : Known(memory'[w])
          /\ program # "initobj" => \A n \in Mutator : Known(ret'[n])
        BY <1>2, <1>4, <1>12
    <2>5. Advance(m, g)
        BY <1>12 DEF g
    <2>6. QED
        BY <1>11, <1>12, <2>2, <2>3, <2>4, <2>5
<1>13. ASSUME At(m, "use"), Advance(m, f), UNCHANGED <<ret, memory>>
       PROVE  ScanInv'
    <2>1. /\ ret' \in [Mutator -> Pointer] /\ memory' \in [Word -> Pointer]
          /\ \A w \in Word : Known(memory'[w])
          /\ program # "initobj" => \A n \in Mutator : Known(ret'[n])
        BY <1>2, <1>4, <1>13
    <2>2. QED
        BY <1>2, <1>4, <1>11, <1>13, <2>1
<1>14. ASSUME At(m, "store"), memory' = [memory EXCEPT ![word(f[i[2]], i[3])] = ret[m]],
              Advance(m, f), UNCHANGED ret
       PROVE  ScanInv'
    <2> HIDE DEF word
    <2>1. program # "initobj"
        BY <1>6, <1>8, <1>14
    <2>2. ret' \in [Mutator -> Pointer] /\ memory' \in [Word -> Pointer]
        BY <1>2, <1>14
    <2>3. \A w \in Word : memory'[w] \in {memory[w], ret[m]}
        BY <1>2, <1>14
    <2>4. /\ \A w \in Word : Known(memory'[w])
          /\ \A n \in Mutator : Known(ret'[n])
        BY <1>4, <1>14, <2>1, <2>3
    <2>5. QED
        BY <1>2, <1>4, <1>11, <1>14, <2>2, <2>4
<1>15. ASSUME At(m, "load"), ret' = [ret EXCEPT ![m] = Peek(word(f[i[2]], i[3]))],
              Advance(m, f), UNCHANGED memory
       PROVE  ScanInv'
    <2> DEFINE v == Peek(word(f[i[2]], i[3]))
    <2>1. v \in Pointer /\ Known(v)
        BY <1>2, <1>4, <1>7 DEF Peek
    <2> HIDE DEF v
    <2>2. ret' = [ret EXCEPT ![m] = v]
        BY <1>15 DEF v
    <2>3. ret' \in [Mutator -> Pointer] /\ memory' \in [Word -> Pointer]
        BY <1>2, <1>15, <2>1, <2>2
    <2>4. /\ \A w \in Word : Known(memory'[w])
          /\ program # "initobj" => \A n \in Mutator : Known(ret'[n])
        BY <1>2, <1>4, <1>15, <2>1, <2>2
    <2>5. QED
        BY <1>2, <1>4, <1>11, <1>15, <2>3, <2>4
<1>16. ASSUME At(m, "init_Node"),
              memory' = [memory EXCEPT ![word(ret[m], "left")] = f.a,
                                       ![word(ret[m], "right")] = f.b],
              Advance(m, f), UNCHANGED ret
       PROVE  ScanInv'
    <2> HIDE DEF word
    <2>1. program # "initobj"
        BY <1>6, <1>8, <1>16
    <2>2. ret' \in [Mutator -> Pointer] /\ memory' \in [Word -> Pointer]
        BY <1>2, <1>3, <1>16
    <2>3. \A w \in Word : memory'[w] \in {memory[w], f.a, f.b}
        BY <1>2, <1>16
    <2>4. /\ \A w \in Word : Known(memory'[w])
          /\ \A n \in Mutator : Known(ret'[n])
        BY <1>4, <1>16, <2>1, <2>3
    <2>5. QED
        BY <1>2, <1>4, <1>11, <1>16, <2>2, <2>4
<1>17. ASSUME At(m, "push"), Advance(m, [f EXCEPT !.vec = Append(@, ret[m])]),
              UNCHANGED <<ret, memory>>
       PROVE  ScanInv'
    <2> DEFINE vec == Append(f.vec, ret[m])
               g == [f EXCEPT !.vec = vec]
    <2>1. /\ vec \in Seq(Pointer)
          /\ \A j \in DOMAIN vec : vec[j] = ret[m] \/ (j \in DOMAIN f.vec /\ vec[j] = f.vec[j])
        BY <1>2, <1>3
    <2> HIDE DEF vec
    <2>2. /\ g \in Frame /\ g.fn = f.fn /\ g.d = f.d /\ g.pc = f.pc /\ g.vec = vec
          /\ g.a = f.a /\ g.b = f.b
        BY <1>2, <2>1 DEF Frame
    <2>3. Advance(m, g)
        BY <1>17 DEF vec
    <2> HIDE DEF g
    <2>4. program # "initobj" =>
            Known(g.a) /\ Known(g.b) /\ \A j \in DOMAIN g.vec : Known(g.vec[j])
        BY <1>4, <2>1, <2>2
    <2>5. /\ ret' \in [Mutator -> Pointer] /\ memory' \in [Word -> Pointer]
          /\ \A w \in Word : Known(memory'[w])
          /\ program # "initobj" => \A n \in Mutator : Known(ret'[n])
        BY <1>2, <1>4, <1>17
    <2>6. QED
        BY <1>11, <1>17, <2>2, <2>3, <2>4, <2>5
<1>18. ASSUME At(m, "fill"),
              memory' = [w \in Word |->
                    LET n == w - Index(ret[m]) IN
                    IF n \in 0 .. Len(f.vec) - 1 THEN f.vec[Len(f.vec) - n]
                    ELSE memory[w]],
              Advance(m, [f EXCEPT !.vec = <<>>]), UNCHANGED ret
       PROVE  ScanInv'
    <2> DEFINE none == <<>>
               g == [f EXCEPT !.vec = none]
    <2>1. program # "initobj"
        BY <1>6, <1>8, <1>18
    <2>2. none \in Seq(Pointer) /\ DOMAIN none = {} /\ Advance(m, g)
        BY <1>18
    <2> HIDE DEF none
    <2>3. /\ g \in Frame /\ g.fn = f.fn /\ g.d = f.d /\ g.pc = f.pc /\ g.vec = none
          /\ g.a = f.a /\ g.b = f.b
        BY <1>2, <2>2 DEF Frame
    <2> HIDE DEF g
    <2>4. \A n \in 0 .. Len(f.vec) - 1 : Len(f.vec) - n \in DOMAIN f.vec
        BY <1>3
    <2>5. \A n \in 0 .. Len(f.vec) - 1 :
            f.vec[Len(f.vec) - n] \in Pointer /\ Known(f.vec[Len(f.vec) - n])
        BY <1>3, <1>4, <2>1, <2>4
    <2>6. \A w \in Word : memory'[w] \in Pointer /\ Known(memory'[w])
        BY <1>2, <1>4, <1>18, <2>5
    <2>7. memory' \in [Word -> Pointer]
        <3>1. DOMAIN memory' = Word /\ memory' = [w \in Word |-> memory'[w]]
            BY <1>18
        <3>2. QED
            BY <2>6, <3>1
    <2>8. Known(g.a) /\ Known(g.b) /\ \A j \in DOMAIN g.vec : Known(g.vec[j])
        BY <1>4, <2>1, <2>2, <2>3
    <2>9. ret' \in [Mutator -> Pointer] /\ \A n \in Mutator : Known(ret'[n])
        BY <1>2, <1>4, <1>18, <2>1
    <2>10. QED
        BY <1>11, <1>18, <2>2, <2>6, <2>7, <2>8, <2>9, <2>3
<1>19. QED
    BY <1>12, <1>13, <1>14, <1>15, <1>16, <1>17, <1>18 DEF Compute, f, i

\* A call leaves the caller at its next instruction and starts a function.
LEMMA CallStack ==
    ASSUME TypeOK, FramesInv, NEW m \in Mutator, sp[m] < MaxFrames, program' = program,
           NEW c \in Frame, c.fn = Top(m).fn, c.d = Top(m).d,
           c.pc = Top(m).pc + 1, c.pc \in 1 .. Len(Text[<<c.fn, c.d>>]),
           NEW g \in Frame, <<g.fn, g.d>> \in Function, g.fn \notin Program,
           g.pc \in 1 .. Len(Text[<<g.fn, g.d>>]),
           NEW T \in [1 .. MaxFrames -> Frame],
           \A k \in 1 .. MaxFrames :
             T[k] = IF k = sp[m] THEN c ELSE IF k = sp[m] + 1 THEN g ELSE stack[m][k],
           stack' = [stack EXCEPT ![m] = T], sp' = [sp EXCEPT ![m] = sp[m] + 1]
    PROVE  /\ stack' \in [Mutator -> [1 .. MaxFrames -> Frame]]
           /\ sp' \in [Mutator -> 1 .. MaxFrames]
           /\ FramesInv'
           /\ \A n \in Mutator \ {m} : stack'[n] = stack[n] /\ sp'[n] = sp[n]
           /\ stack'[m][1].pc = IF sp[m] = 1 THEN stack[m][1].pc + 1 ELSE stack[m][1].pc
           /\ \A k \in 1 .. MaxFrames :
                stack'[m][k] = IF k = sp[m] THEN c ELSE IF k = sp[m] + 1 THEN g
                               ELSE stack[m][k]
<1>1. /\ stack \in [Mutator -> [1 .. MaxFrames -> Frame]]
      /\ sp \in [Mutator -> 1 .. MaxFrames]
    BY DEF TypeOK
<1>2. sp[m] \in Nat \ {0} /\ sp[m] \in 1 .. MaxFrames /\ sp[m] + 1 \in 1 .. MaxFrames
    BY <1>1, BoundFacts
<1>3. stack' \in [Mutator -> [1 .. MaxFrames -> Frame]]
    BY <1>1, <1>2
<1>4. \A n \in Mutator \ {m} : stack'[n] = stack[n]
    BY <1>1
<1>5. \A k \in 1 .. MaxFrames :
        stack'[m][k] = IF k = sp[m] THEN c ELSE IF k = sp[m] + 1 THEN g ELSE stack[m][k]
    BY <1>1, <1>2
<1>6. /\ sp'[m] = sp[m] + 1 /\ \A n \in Mutator \ {m} : sp'[n] = sp[n]
      /\ sp' \in [Mutator -> 1 .. MaxFrames]
    BY <1>1, <1>2
<1>7. 1 \in 1 .. MaxFrames /\ 1 # sp[m] + 1 /\ (sp[m] = 1 => Top(m) = stack[m][1])
    BY <1>2, BoundFacts DEF Top
<1>8. stack'[m][1].pc = IF sp[m] = 1 THEN stack[m][1].pc + 1 ELSE stack[m][1].pc
    BY <1>5, <1>7
<1>9. FramesInv'
    <2> SUFFICES ASSUME NEW n \in Mutator
                 PROVE  /\ stack'[n][1].fn = program
                        /\ \A k \in 1 .. sp'[n] :
                            /\ <<stack'[n][k].fn, stack'[n][k].d>> \in Function
                            /\ stack'[n][k].pc \in 1 .. Len(Text[<<stack'[n][k].fn, stack'[n][k].d>>])
                            /\ k > 1 => stack'[n][k].fn \notin Program
        BY DEF FramesInv
    <2>1. CASE n # m
        BY <1>4, <1>6, <2>1 DEF FramesInv
    <2>2. CASE n = m
        <3>1. stack'[m][1].fn = program
            BY <1>5, <1>7 DEF FramesInv
        <3>2. ASSUME NEW k \in 1 .. sp[m] - 1
              PROVE  k \in 1 .. sp[m] /\ stack'[m][k] = stack[m][k]
            <4>1. k \in 1 .. sp[m] /\ k \in 1 .. MaxFrames /\ k # sp[m] /\ k # sp[m] + 1
                BY <1>2, BoundFacts
            <4>2. QED
                BY <1>5, <4>1
        <3>3. stack'[m][sp[m]] = c /\ stack'[m][sp[m] + 1] = g
            BY <1>2, <1>5
        <3>4. \A k \in 1 .. sp'[m] : k = sp[m] + 1 \/ k = sp[m] \/ k \in 1 .. sp[m] - 1
            BY <1>2, <1>6
        <3>5. <<c.fn, c.d>> \in Function /\ (sp[m] > 1 => c.fn \notin Program)
            BY InstrFacts
        <3>6. ASSUME NEW k \in 1 .. sp'[m]
              PROVE  /\ <<stack'[m][k].fn, stack'[m][k].d>> \in Function
                     /\ stack'[m][k].pc \in 1 .. Len(Text[<<stack'[m][k].fn, stack'[m][k].d>>])
                     /\ k > 1 => stack'[m][k].fn \notin Program
            <4>1. CASE k = sp[m] + 1
                BY <3>3, <4>1
            <4>2. CASE k = sp[m]
                BY <3>3, <3>5, <4>2
            <4>3. CASE k \in 1 .. sp[m] - 1
                BY <3>2, <4>3 DEF FramesInv
            <4>4. QED
                BY <3>4, <4>1, <4>2, <4>3
        <3>7. QED
            BY <2>2, <3>1, <3>6
    <2>3. QED
        BY <2>1, <2>2
<1>10. QED
    BY <1>3, <1>4, <1>5, <1>6, <1>8, <1>9

\* The frames of caller and callee are what CallStack wants.
LEMMA CallFrames ==
    ASSUME TypeOK, FramesInv, NEW m \in Mutator, Instr(m)[1] = "call",
           NEW f \in Frame, f = Top(m), NEW h \in Frame, NEW v \in Pointer
    PROVE  LET i == Instr(m)
               c == [f EXCEPT !.pc = @ + 1]
               g == [fn |-> i[2], d |-> i[3], pc |-> 1,
                     a |-> IF i[2] = "Populate" THEN v ELSE h.a, b |-> h.b, vec |-> <<>>]
           IN  /\ c \in Frame /\ c.fn = Top(m).fn /\ c.d = Top(m).d
               /\ c.pc = Top(m).pc + 1 /\ c.pc \in 1 .. Len(Text[<<c.fn, c.d>>])
               /\ c.a = f.a /\ c.b = f.b /\ c.vec = f.vec
               /\ g \in Frame /\ <<g.fn, g.d>> \in Function /\ g.fn \notin Program
               /\ g.pc \in 1 .. Len(Text[<<g.fn, g.d>>])
               /\ g.a \in {h.a, v} /\ g.b = h.b /\ DOMAIN g.vec = {}
               /\ g.fn = i[2] /\ g.d = i[3] /\ g.pc = 1 /\ (i[2] = "Populate" => g.a = v)
<1> DEFINE i == Instr(m)
           c == [f EXCEPT !.pc = @ + 1]
           none == <<>>
           g == [fn |-> i[2], d |-> i[3], pc |-> 1,
                 a |-> IF i[2] = "Populate" THEN v ELSE h.a, b |-> h.b, vec |-> none]
<1>1. /\ <<i[2], i[3]>> \in Function /\ i[2] \notin Program
      /\ f.pc + 1 \in 1 .. Len(Text[<<f.fn, f.d>>])
    BY InstrFacts
<1> HIDE DEF i
<1>2. i[2] \in Name /\ i[3] \in Nat
    BY <1>1, FunctionTyped
<1>3. 1 \in 1 .. Len(Text[<<i[2], i[3]>>])
    BY <1>1, FunctionText DEF Ends
<1>4. /\ c \in Frame /\ c.fn = f.fn /\ c.d = f.d /\ c.pc = f.pc + 1
      /\ c.a = f.a /\ c.b = f.b /\ c.vec = f.vec
    BY DEF Frame
<1>5. none \in Seq(Pointer) /\ DOMAIN none = {}
    OBVIOUS
<1> HIDE DEF none, c
<1>6. /\ g \in Frame /\ g.fn = i[2] /\ g.d = i[3] /\ g.pc = 1
      /\ g.a \in {h.a, v} /\ g.b = h.b /\ g.vec = none /\ (i[2] = "Populate" => g.a = v)
    BY <1>2, <1>5 DEF Frame
<1> HIDE DEF g
<1>7. QED
    BY <1>1, <1>3, <1>4, <1>5, <1>6 DEF i, c, g, none

\* What a call does to the stack.
LEMMA CallShape ==
    ASSUME TypeOK, FramesInv, NEW m \in Mutator, CallReturn(m), Instr(m)[1] = "call"
    PROVE  \E c \in Frame, g \in Frame :
          /\ c.fn = Top(m).fn /\ c.d = Top(m).d /\ c.pc = Top(m).pc + 1
          /\ c.a = Top(m).a /\ c.b = Top(m).b /\ c.vec = Top(m).vec
          /\ g.fn = Instr(m)[2] /\ g.d = Instr(m)[3] /\ g.pc = 1
          /\ g.a \in {stack[m][sp[m] + 1].a, ret[m]} /\ g.b = stack[m][sp[m] + 1].b
          /\ Instr(m)[2] = "Populate" => g.a = ret[m]
          /\ DOMAIN g.vec = {}
          /\ \A k \in 1 .. MaxFrames :
                stack'[m][k] = IF k = sp[m] THEN c ELSE IF k = sp[m] + 1 THEN g
                               ELSE stack[m][k]
          /\ sp[m] \in Nat /\ sp[m] + 1 \in 1 .. MaxFrames /\ sp'[m] = sp[m] + 1
          /\ stack' \in [Mutator -> [1 .. MaxFrames -> Frame]]
          /\ sp' \in [Mutator -> 1 .. MaxFrames]
          /\ FramesInv'
          /\ \A n \in Mutator \ {m} : stack'[n] = stack[n] /\ sp'[n] = sp[n]
          /\ stack'[m][1].pc = IF sp[m] = 1 THEN stack[m][1].pc + 1 ELSE stack[m][1].pc
<1>1. /\ sp[m] < MaxFrames
      /\ stack' = [stack EXCEPT
            ![m][sp[m]].pc = @ + 1,
            ![m][sp[m] + 1] = [fn |-> Instr(m)[2], d |-> Instr(m)[3], pc |-> 1,
                               a |-> IF Instr(m)[2] = "Populate" THEN ret[m] ELSE @.a,
                               b |-> @.b, vec |-> <<>>]]
      /\ sp' = [sp EXCEPT ![m] = sp[m] + 1]
    BY DEF CallReturn, At
<1> DEFINE h == stack[m][sp[m] + 1]
           c == [Top(m) EXCEPT !.pc = @ + 1]
           g == [fn |-> Instr(m)[2], d |-> Instr(m)[3], pc |-> 1,
                 a |-> IF Instr(m)[2] = "Populate" THEN ret[m] ELSE h.a,
                 b |-> h.b, vec |-> <<>>]
<1>2. /\ stack \in [Mutator -> [1 .. MaxFrames -> Frame]]
      /\ ret[m] \in Pointer
      /\ sp[m] \in 1 .. MaxFrames /\ sp[m] + 1 \in 1 .. MaxFrames /\ sp[m] \in Nat
    <2>1. sp[m] < MaxFrames /\ sp[m] \in 1 .. MaxFrames
        BY <1>1 DEF TypeOK
    <2>2. stack \in [Mutator -> [1 .. MaxFrames -> Frame]] /\ ret[m] \in Pointer
        BY DEF TypeOK
    <2>3. QED
        BY <2>1, <2>2, BoundFacts
<1>3. Top(m) \in Frame /\ h \in Frame
    BY <1>2 DEF Top
<1> DEFINE T == [stack[m] EXCEPT ![sp[m]] = c, ![sp[m] + 1] = g]
<1>4. stack' = [stack EXCEPT ![m] = T]
    BY <1>1, <1>2 DEF Top
<1>5. /\ c \in Frame /\ c.fn = Top(m).fn /\ c.d = Top(m).d
      /\ c.pc = Top(m).pc + 1 /\ c.pc \in 1 .. Len(Text[<<c.fn, c.d>>])
      /\ c.a = Top(m).a /\ c.b = Top(m).b /\ c.vec = Top(m).vec
      /\ g \in Frame /\ <<g.fn, g.d>> \in Function /\ g.fn \notin Program
      /\ g.pc \in 1 .. Len(Text[<<g.fn, g.d>>])
      /\ g.a \in {h.a, ret[m]} /\ g.b = h.b /\ DOMAIN g.vec = {}
      /\ g.fn = Instr(m)[2] /\ g.d = Instr(m)[3] /\ g.pc = 1
      /\ Instr(m)[2] = "Populate" => g.a = ret[m]
    <2> HIDE DEF h
    <2>1. QED
        BY <1>2, <1>3, CallFrames
<1> HIDE DEF c, g, h
<1>6. /\ T \in [1 .. MaxFrames -> Frame]
      /\ \A k \in 1 .. MaxFrames :
            T[k] = IF k = sp[m] THEN c ELSE IF k = sp[m] + 1 THEN g ELSE stack[m][k]
    <2>1. /\ stack[m] \in [1 .. MaxFrames -> Frame] /\ c \in Frame /\ g \in Frame
          /\ MaxFrames \in Nat
        BY <1>2, <1>5, BoundFacts
    <2>2. T \in [1 .. MaxFrames -> Frame]
        BY <1>2, <2>1
    <2>3. ASSUME NEW k \in 1 .. MaxFrames
          PROVE  T[k] = IF k = sp[m] THEN c ELSE IF k = sp[m] + 1 THEN g ELSE stack[m][k]
        BY <1>2, <2>1, <2>3
    <2>4. QED
        BY <2>2, <2>3
<1> HIDE DEF T
<1>7. /\ stack' \in [Mutator -> [1 .. MaxFrames -> Frame]]
      /\ sp' \in [Mutator -> 1 .. MaxFrames]
      /\ FramesInv'
      /\ \A n \in Mutator \ {m} : stack'[n] = stack[n] /\ sp'[n] = sp[n]
      /\ stack'[m][1].pc = IF sp[m] = 1 THEN stack[m][1].pc + 1 ELSE stack[m][1].pc
      /\ \A k \in 1 .. MaxFrames :
            stack'[m][k] = IF k = sp[m] THEN c ELSE IF k = sp[m] + 1 THEN g
                           ELSE stack[m][k]
    <2>1. sp[m] < MaxFrames /\ sp' = [sp EXCEPT ![m] = sp[m] + 1] /\ program' = program
        BY <1>1 DEF CallReturn, Quiet
    <2>2. QED
        BY <1>4, <1>5, <1>6, <2>1, CallStack
<1>8. sp'[m] = sp[m] + 1
    BY <1>1 DEF TypeOK
<1>9. /\ c.fn = Top(m).fn /\ c.d = Top(m).d /\ c.pc = Top(m).pc + 1
      /\ c.a = Top(m).a /\ c.b = Top(m).b /\ c.vec = Top(m).vec
      /\ g.fn = Instr(m)[2] /\ g.d = Instr(m)[3] /\ g.pc = 1
      /\ g.a \in {stack[m][sp[m] + 1].a, ret[m]} /\ g.b = stack[m][sp[m] + 1].b
      /\ Instr(m)[2] = "Populate" => g.a = ret[m]
      /\ DOMAIN g.vec = {}
    BY <1>5 DEF h
<1>10. c \in Frame /\ g \in Frame /\ sp[m] \in Nat /\ sp[m] + 1 \in 1 .. MaxFrames
    BY <1>2, <1>5
<1> USE <1>10
<1> WITNESS c \in Frame, g \in Frame
<1>11. QED
    BY <1>7, <1>8, <1>9, <1>10

LEMMA CallReturnInv ==
    ASSUME ScanInv, NEW m \in Mutator, CallReturn(m)
    PROVE  ScanInv'
<1>1. /\ TypeOK /\ FramesInv /\ EnrolledInv /\ BumpInv /\ KnownInv /\ PhaseInv /\ HeldInv
      /\ PatternsExpected
    BY DEF ScanInv
<1>2. UNCHANGED <<registered, parked, phase, take_yield, leader, program, alloc_map,
                  trace_map, mark_state, line_mark_table, cursor, limit, ROOTS, gc,
                  marked, chance, ret, low_water_mark, memory>>
    BY DEF CallReturn, Quiet, world, maps, bump, collector
<1>3. /\ m \in Threads(program) /\ m \notin parked /\ leader # m
      /\ Instr(m)[1] \in {"call", "return"}
    BY <1>1, AtFacts DEF CallReturn
<1>4. \A v : Known(v)' <=> Known(v)
    BY <1>2, SameProgram DEF Known, get_ref_byte
<1>5. BumpInv'
    BY <1>1, <1>2 DEF BumpInv
<1>6. program # "initobj"
    <2>1. program = "initobj" => Top(m).fn = "initobj"
        BY <1>1, InstrFacts DEF KnownInv
    <2>2. QED
        BY <1>1, <1>3, <2>1, InstrFacts
<1>7. sp \in [Mutator -> 1 .. MaxFrames]
    BY <1>1 DEF TypeOK
<1>8. CASE Instr(m)[1] = "call"
    <2>1. PICK c \in Frame, g \in Frame :
          /\ c.fn = Top(m).fn /\ c.d = Top(m).d /\ c.pc = Top(m).pc + 1
          /\ c.a = Top(m).a /\ c.b = Top(m).b /\ c.vec = Top(m).vec
          /\ g.fn = Instr(m)[2] /\ g.d = Instr(m)[3] /\ g.pc = 1
          /\ g.a \in {stack[m][sp[m] + 1].a, ret[m]} /\ g.b = stack[m][sp[m] + 1].b
          /\ Instr(m)[2] = "Populate" => g.a = ret[m]
          /\ DOMAIN g.vec = {}
          /\ \A k \in 1 .. MaxFrames :
                stack'[m][k] = IF k = sp[m] THEN c ELSE IF k = sp[m] + 1 THEN g
                               ELSE stack[m][k]
          /\ sp[m] \in Nat /\ sp[m] + 1 \in 1 .. MaxFrames /\ sp'[m] = sp[m] + 1
          /\ stack' \in [Mutator -> [1 .. MaxFrames -> Frame]]
          /\ sp' \in [Mutator -> 1 .. MaxFrames]
          /\ FramesInv'
          /\ \A n \in Mutator \ {m} : stack'[n] = stack[n] /\ sp'[n] = sp[n]
          /\ stack'[m][1].pc = IF sp[m] = 1 THEN stack[m][1].pc + 1 ELSE stack[m][1].pc
        BY <1>1, <1>8, CallShape
    <2>2. TypeOK'
        BY <1>1, <1>2, <2>1, SameProgram DEF TypeOK
    <2>3. EnrolledInv'
        BY <1>1, <1>2, <1>3, <1>8, <2>1, EnrolledKept
    <2>4. ASSUME NEW n \in Mutator, NEW k \in 1 .. MaxFrames
          PROVE  /\ Known(stack'[n][k].a) /\ Known(stack'[n][k].b)
                 /\ \A j \in DOMAIN stack'[n][k].vec : Known(stack'[n][k].vec[j])
        <3>1. /\ Known(stack[n][k].a) /\ Known(stack[n][k].b) /\ Known(ret[m])
              /\ \A j \in DOMAIN stack[n][k].vec : Known(stack[n][k].vec[j])
            BY <1>1, <1>6 DEF KnownInv
        <3>2. CASE n # m \/ k \notin {sp[m], sp[m] + 1}
            BY <2>1, <3>1, <3>2
        <3>3. CASE n = m /\ k = sp[m]
            BY <2>1, <3>1, <3>3 DEF Top
        <3>4. CASE n = m /\ k = sp[m] + 1
            <4>1. stack'[n][k] = g /\ stack[m][sp[m] + 1] = stack[n][k]
                BY <2>1, <3>4
            <4>2. QED
                BY <2>1, <3>1, <4>1
        <3>5. QED
            BY <3>2, <3>3, <3>4
    <2>5. KnownInv'
        BY <1>1, <1>2, <1>4, <1>6, <2>4 DEF KnownInv
    <2>6. PhaseInv' /\ HeldInv' /\ PatternsExpected'
        BY <1>1, <1>2, <1>3, <2>1, HeldKept
    <2>7. QED
        BY <1>5, <2>1, <2>2, <2>3, <2>5, <2>6 DEF ScanInv
<1>9. CASE Instr(m)[1] = "return"
    <2>1. sp' = [sp EXCEPT ![m] = @ - 1] /\ stack' = stack
        BY <1>9 DEF CallReturn, At
    <2>2. sp[m] > 1
        BY <1>1, <1>9, InstrFacts
    <2>3. /\ sp' \in [Mutator -> 1 .. MaxFrames]
          /\ \A n \in Mutator \ {m} : sp'[n] = sp[n]
          /\ \A n \in Mutator : sp'[n] <= sp[n]
        BY <1>7, <2>1, <2>2, BoundFacts
    <2>4. TypeOK'
        BY <1>1, <1>2, <2>1, <2>3, SameProgram DEF TypeOK
    <2>5. \A n \in Mutator : (1 .. sp'[n]) \subseteq 1 .. sp[n] /\ (sp'[n] > 1 => sp[n] > 1)
        BY <1>7, <2>3, BoundFacts
    <2>6. FramesInv'
        BY <1>1, <1>2, <2>1, <2>5 DEF FramesInv
    <2>7. EnrolledInv'
        BY <1>1, <1>2, <2>1, <2>5 DEF EnrolledInv, Threads
    <2>8. KnownInv'
        BY <1>1, <1>2, <1>4, <1>6, <2>1 DEF KnownInv
    <2>9. PhaseInv' /\ HeldInv' /\ PatternsExpected'
        BY <1>1, <1>2, <1>3, <2>1, <2>3, HeldKept
    <2>10. QED
        BY <1>5, <2>4, <2>6, <2>7, <2>8, <2>9 DEF ScanInv
<1>10. QED
    BY <1>3, <1>8, <1>9

(***************************************************************************)
(* Allocation.                                                             *)
(***************************************************************************)

\* What fits between cursor and limit is an object of the space.
LEMMA FitsObject ==
    ASSUME TypeOK, BumpInv, NEW m \in Mutator, Fits(m)
    PROVE  /\ cursor[m] \in Object
           /\ START <= cursor[m] + size /\ cursor[m] + size <= limit[m] /\ limit[m] <= END
           /\ cursor[m] + size \in Address
<1>1. /\ cursor[m] \in Address /\ limit[m] \in Address /\ size \in {24, 32}
      /\ ADDRESSES \in Nat /\ START \in Nat \ {0} /\ END \in Nat
    <2>1. program \in Programs /\ cursor[m] \in Address /\ limit[m] \in Address
        BY DEF TypeOK
    <2>2. QED
        BY <2>1, AddressAssumption, LayoutFacts
<1>2. cursor[m] + size <= limit[m]
    BY DEF Fits
<1>3. START <= cursor[m] /\ cursor[m] <= limit[m] /\ limit[m] <= END
    <2>1. ~ (cursor[m] = Null /\ limit[m] = Null)
        BY <1>1, <1>2 DEF Null
    <2>2. QED
        BY <2>1 DEF BumpInv
<1>4. QED
    BY <1>1, <1>2, <1>3 DEF Object, Address

\* init_object gives the objects of S their byte and takes none away.
LEMMA InitObjectGrows ==
    ASSUME TypeOK, NEW S, init_object(S)
    PROVE  /\ alloc_map' \in [Word -> {0, Layout(program).encode}]
           /\ \A w \in Word : alloc_map'[w] \in {alloc_map[w], Layout(program).encode}
           /\ \A v \in S \cap Object : alloc_map'[Index(v)] = Layout(program).encode
<1>1. program \in Programs /\ alloc_map \in [Word -> {0, Layout(program).encode}]
    BY DEF TypeOK
<1>2. \A w \in Word : alloc_map'[w] = IF \E addr \in S : Index(addr) = w
                                      THEN Layout(program).encode ELSE alloc_map[w]
    BY DEF init_object
<1>3. \A v \in Object : Index(v) \in Word
    BY <1>1, ObjectFacts
<1>4. alloc_map' = [w \in Word |-> alloc_map'[w]]
    BY DEF init_object
<1>5. \A w \in Word : alloc_map'[w] \in {alloc_map[w], Layout(program).encode}
    BY <1>2
<1>6. alloc_map' \in [Word -> {0, Layout(program).encode}]
    BY <1>1, <1>4, <1>5
<1>7. QED
    BY <1>2, <1>3, <1>5, <1>6

LEMMA AllocFastInv ==
    ASSUME ScanInv, NEW m \in Mutator, AllocFast(m)
    PROVE  ScanInv'
<1>1. /\ TypeOK /\ FramesInv /\ EnrolledInv /\ BumpInv /\ KnownInv /\ PhaseInv /\ HeldInv
      /\ PatternsExpected
    BY DEF ScanInv
<1>2. /\ UNCHANGED <<registered, parked, phase, take_yield, leader, program, sp,
                     low_water_mark, memory, trace_map, mark_state, line_mark_table,
                     limit, ROOTS, gc, marked, chance>>
      /\ cursor' = [cursor EXCEPT ![m] = cursor[m] + size]
      /\ ret' = [ret EXCEPT ![m] = cursor[m]]
      /\ Advance(m, Top(m)) /\ Fits(m)
    BY DEF AllocFast, world, collector
<1>3. /\ m \in Threads(program) /\ m \notin parked /\ leader # m
      /\ Instr(m)[1] \in {"alloc", "alloc_raw"}
    BY <1>1, AtFacts DEF AllocFast
<1>4. /\ Instr(m)[1] = "alloc" => init_object({cursor[m]})
      /\ Instr(m)[1] = "alloc_raw" => alloc_map' = alloc_map
    BY <1>3 DEF AllocFast, At
<1>5. /\ cursor[m] \in Object
      /\ START <= cursor[m] + size /\ cursor[m] + size <= limit[m] /\ limit[m] <= END
      /\ cursor[m] + size \in Address
    BY <1>1, <1>2, FitsObject
<1>6. /\ alloc_map' \in [Word -> {0, Layout(program).encode}]
      /\ \A w \in Word : alloc_map'[w] \in {alloc_map[w], Layout(program).encode}
    BY <1>1, <1>3, <1>4, InitObjectGrows DEF TypeOK
<1>7. PICK f \in Frame : f = Top(m)
    BY <1>1, InstrFacts
<1>8. /\ stack' \in [Mutator -> [1 .. MaxFrames -> Frame]]
      /\ FramesInv'
      /\ \A n \in Mutator \ {m} : stack'[n] = stack[n]
      /\ stack'[m][1].pc = IF sp[m] = 1 THEN stack[m][1].pc + 1 ELSE stack[m][1].pc
      /\ \A k \in 1 .. MaxFrames :
            stack'[m][k] = IF k = sp[m] THEN [f EXCEPT !.pc = @ + 1] ELSE stack[m][k]
    BY <1>1, <1>2, <1>3, <1>7, StackAdvance
<1>9. /\ cursor' \in [Mutator -> Address] /\ ret' \in [Mutator -> Pointer]
      /\ cursor'[m] = cursor[m] + size /\ ret'[m] = cursor[m]
      /\ \A n \in Mutator \ {m} : cursor'[n] = cursor[n] /\ ret'[n] = ret[n]
    <2>1. /\ cursor \in [Mutator -> Address] /\ ret \in [Mutator -> Pointer]
          /\ cursor[m] \in Pointer
        BY <1>1, <1>5 DEF TypeOK, Pointer
    <2>2. QED
        BY <1>2, <1>5, <2>1
<1>10. TypeOK'
    BY <1>1, <1>2, <1>6, <1>8, <1>9, SameProgram DEF TypeOK
<1>11. EnrolledInv'
    BY <1>1, <1>2, <1>3, <1>8, <1>9, EnrolledKept
<1>12. BumpInv'
    BY <1>1, <1>2, <1>5, <1>9 DEF BumpInv
<1>13. KnownInv'
    <2>1. program \in Programs
        BY <1>1 DEF TypeOK
    <2>2. \A v : Known(v) => Known(v)'
        BY <1>2, <1>6, <2>1, KnownGrows
    <2>3. \A w \in Word : Known(memory[w])'
        BY <1>1, <1>2, <2>2 DEF KnownInv
    <2>4. ASSUME program # "initobj"
          PROVE  /\ Known(f.a)' /\ Known(f.b)'
                 /\ \A j \in DOMAIN f.vec : Known(f.vec[j])'
                 /\ \A n \in Mutator : Known(ret[n])'
        <3>1. /\ Known(f.a) /\ Known(f.b)
              /\ \A j \in DOMAIN f.vec : Known(f.vec[j])
              /\ \A n \in Mutator : Known(ret[n])
            BY <1>1, <1>7, <2>4, InstrFacts DEF KnownInv, Top
        <3>2. Instr(m)[1] = "alloc"
            <4>1. sp[m] \in 1 .. MaxFrames
                BY <1>1 DEF TypeOK
            <4>2. sp[m] = 1 \/ sp[m] > 1
                BY <4>1, BoundFacts
            <4>3. Instr(m)[1] # "alloc_raw"
                BY <1>1, <2>4, <4>2, InstrFacts DEF Program
            <4>4. QED
                BY <1>3, <4>3
        <3>3. alloc_map'[Index(cursor[m])] = Layout(program).encode
            BY <1>1, <1>4, <1>5, <3>2, InitObjectGrows
        <3>4. \A n \in Mutator \ {m} : Known(ret[n])'
            BY <1>2, <1>9, <2>2, <3>1
        <3>5. Known(ret[m])'
            BY <1>2, <1>9, <3>3 DEF Known, get_ref_byte
        <3>6. QED
            BY <2>2, <3>1, <3>4, <3>5
    <2>5. QED
        BY <1>1, <1>2, <1>6, <1>7, <1>8, <2>3, <2>4, KnownKept
<1>14. PhaseInv' /\ HeldInv' /\ PatternsExpected'
    BY <1>1, <1>2, <1>3, <1>8, HeldKept
<1>15. QED
    BY <1>8, <1>10, <1>11, <1>12, <1>13, <1>14 DEF ScanInv

LEMMA InitLoopInv ==
    ASSUME ScanInv, NEW m \in Mutator, InitLoop(m)
    PROVE  ScanInv'
<1>1. /\ TypeOK /\ FramesInv /\ EnrolledInv /\ BumpInv /\ KnownInv /\ PhaseInv /\ HeldInv
      /\ PatternsExpected
    BY DEF ScanInv
<1>2. /\ UNCHANGED <<registered, parked, phase, take_yield, leader, program, sp, ret,
                     low_water_mark, memory, trace_map, mark_state, line_mark_table,
                     cursor, limit, ROOTS, gc, marked, chance>>
      /\ Advance(m, Top(m))
    BY DEF InitLoop, world, bump, collector
<1>3. /\ m \in Threads(program) /\ m \notin parked /\ leader # m
      /\ Instr(m)[1] = "init_vec"
    BY <1>1, AtFacts DEF InitLoop
<1>4. /\ alloc_map' \in [Word -> {0, Layout(program).encode}]
      /\ \A w \in Word : alloc_map'[w] \in {alloc_map[w], Layout(program).encode}
    BY <1>1, InitObjectGrows DEF InitLoop
<1>5. PICK f \in Frame : f = Top(m)
    BY <1>1, InstrFacts
<1>6. /\ stack' \in [Mutator -> [1 .. MaxFrames -> Frame]]
      /\ FramesInv'
      /\ \A n \in Mutator \ {m} : stack'[n] = stack[n]
      /\ stack'[m][1].pc = IF sp[m] = 1 THEN stack[m][1].pc + 1 ELSE stack[m][1].pc
      /\ \A k \in 1 .. MaxFrames :
            stack'[m][k] = IF k = sp[m] THEN [f EXCEPT !.pc = @ + 1] ELSE stack[m][k]
    BY <1>1, <1>2, <1>3, <1>5, StackAdvance
<1>7. TypeOK'
    BY <1>1, <1>2, <1>4, <1>6, SameProgram DEF TypeOK
<1>8. EnrolledInv'
    BY <1>1, <1>2, <1>3, <1>6, EnrolledKept
<1>9. BumpInv'
    BY <1>1, <1>2 DEF BumpInv
<1>10. KnownInv'
    <2>1. program \in Programs
        BY <1>1 DEF TypeOK
    <2>2. \A v : Known(v) => Known(v)'
        BY <1>2, <1>4, <2>1, KnownGrows
    <2>3. \A w \in Word : Known(memory[w])'
        BY <1>1, <1>2, <2>2 DEF KnownInv
    <2>4. program # "initobj" =>
            /\ Known(f.a)' /\ Known(f.b)'
            /\ \A j \in DOMAIN f.vec : Known(f.vec[j])'
            /\ \A n \in Mutator : Known(ret[n])'
        <3>1. program # "initobj" =>
              /\ Known(f.a) /\ Known(f.b)
              /\ \A j \in DOMAIN f.vec : Known(f.vec[j])
              /\ \A n \in Mutator : Known(ret[n])
            BY <1>1, <1>5, InstrFacts DEF KnownInv, Top
        <3>2. QED
            BY <1>2, <2>2, <3>1
    <2>5. QED
        BY <1>1, <1>2, <1>4, <1>5, <1>6, <2>3, <2>4, KnownKept
<1>11. PhaseInv' /\ HeldInv' /\ PatternsExpected'
    BY <1>1, <1>2, <1>3, <1>6, HeldKept
<1>12. QED
    BY <1>6, <1>7, <1>8, <1>9, <1>10, <1>11 DEF ScanInv

\* Steps that leave the programs and their words alone.
LEMMA ThreadsKept ==
    ASSUME FramesInv, KnownInv,
           UNCHANGED <<program, stack, sp, ret, low_water_mark, memory, alloc_map>>,
           \A obj \in ROOTS' : Known(obj)
    PROVE  FramesInv' /\ KnownInv'
<1>1. \A v : Known(v)' <=> Known(v)
    BY SameProgram DEF Known, get_ref_byte
<1>2. FramesInv'
    BY DEF FramesInv
<1>3. KnownInv'
    BY <1>1 DEF KnownInv
<1>4. QED
    BY <1>2, <1>3

LEMMA LineCount == Cardinality(Line) = Lines
BY SpaceFacts, FS_Interval

LEMMA TakeHoleInv ==
    ASSUME ScanInv, NEW m \in Mutator, TakeHole(m)
    PROVE  ScanInv'
<1>1. /\ TypeOK /\ FramesInv /\ EnrolledInv /\ BumpInv /\ KnownInv /\ PhaseInv /\ HeldInv
      /\ PatternsExpected
    BY DEF ScanInv
<1>2. UNCHANGED <<registered, parked, phase, take_yield, leader, program, stack, sp, ret,
                  low_water_mark, memory, alloc_map, trace_map, mark_state, ROOTS, gc,
                  marked, chance>>
    BY DEF TakeHole, world, thread, maps, collector
<1>3. /\ m \in Threads(program) /\ m \notin parked /\ leader # m
      /\ Instr(m)[1] \in {"alloc", "alloc_raw"}
      /\ m \in registered => phase = "running"
    BY <1>1, AtFacts DEF TakeHole, InAlloc
<1>4. PICK first \in Line : \E end \in first + 1 .. Cardinality(Line) :
        /\ cursor' = [cursor EXCEPT ![m] = LineStart(first)]
        /\ limit' = [limit EXCEPT ![m] = LineStart(end)]
        /\ line_mark_table' = [l \in Line |->
                IF l \in first .. end - 1 THEN "FreshAlloc" ELSE line_mark_table[l]]
    BY DEF TakeHole
<1>5. PICK end \in first + 1 .. Cardinality(Line) :
        /\ cursor' = [cursor EXCEPT ![m] = LineStart(first)]
        /\ limit' = [limit EXCEPT ![m] = LineStart(end)]
        /\ line_mark_table' = [l \in Line |->
                IF l \in first .. end - 1 THEN "FreshAlloc" ELSE line_mark_table[l]]
    BY <1>4
<1>6. first \in 0 .. Lines /\ end \in first .. Lines
    BY LineCount, SpaceFacts
<1>7. /\ LineStart(first) \in Address /\ LineStart(end) \in Address
      /\ START <= LineStart(first) /\ LineStart(first) <= LineStart(end)
      /\ LineStart(end) <= END
    BY <1>6, LineStartFacts
<1>8. /\ cursor' \in [Mutator -> Address] /\ limit' \in [Mutator -> Address]
      /\ cursor'[m] = LineStart(first) /\ limit'[m] = LineStart(end)
      /\ \A n \in Mutator \ {m} : cursor'[n] = cursor[n] /\ limit'[n] = limit[n]
    <2>1. cursor \in [Mutator -> Address] /\ limit \in [Mutator -> Address]
        BY <1>1 DEF TypeOK
    <2>2. QED
        BY <1>5, <1>7, <2>1
<1>9. line_mark_table' \in [Line -> {"Free", "FreshAlloc", "Kept"}]
    <2>1. line_mark_table \in [Line -> {"Free", "FreshAlloc", "Kept"}]
        BY <1>1 DEF TypeOK
    <2>2. QED
        BY <1>5, <2>1
<1>10. TypeOK'
    BY <1>1, <1>2, <1>8, <1>9, SameProgram DEF TypeOK
<1>11. FramesInv' /\ KnownInv'
    <2>1. \A obj \in ROOTS' : Known(obj)
        BY <1>1, <1>2 DEF KnownInv
    <2>2. QED
        BY <1>1, <1>2, <2>1, ThreadsKept
<1>12. EnrolledInv'
    <2>1. ~ NotYetNew(program, stack[m][1].pc)
        BY <1>1, <1>3, AllocRegistered
    <2>2. QED
        BY <1>1, <1>2, <1>8, <2>1 DEF EnrolledInv, Threads
<1>13. BumpInv'
    BY <1>1, <1>7, <1>8 DEF BumpInv
<1>14. PhaseInv' /\ HeldInv' /\ PatternsExpected'
    <2>1. phase = "running"
        BY <1>1, <1>3, AllocRegistered
    <2>2. QED
        BY <1>1, <1>2, <1>3, <2>1, HeldKept
<1>15. QED
    BY <1>10, <1>11, <1>12, <1>13, <1>14 DEF ScanInv

LEMMA TriggerGCInv ==
    ASSUME ScanInv, NEW m \in Mutator, TriggerGC(m)
    PROVE  ScanInv'
<1>1. /\ TypeOK /\ FramesInv /\ EnrolledInv /\ BumpInv /\ KnownInv /\ PhaseInv /\ HeldInv
      /\ PatternsExpected
    BY DEF ScanInv
<1>2. UNCHANGED <<registered, parked, phase, leader, program, stack, sp, ret,
                  low_water_mark, memory, alloc_map, trace_map, mark_state,
                  line_mark_table, cursor, limit, ROOTS, gc, marked>>
    BY DEF TriggerGC, thread, maps, bump, collector
<1>3. m \in Threads(program) /\ m \notin parked /\ leader # m
    BY <1>1, AtFacts DEF TriggerGC, InAlloc
<1>4. take_yield' \in [Mutator -> BOOLEAN]
    <2>1. take_yield \in [Mutator -> BOOLEAN]
        BY <1>1 DEF TypeOK
    <2>2. take_yield' = [n \in Mutator |-> take_yield[n] \/ n \in registered]
        BY DEF TriggerGC
    <2>3. QED
        BY <2>1, <2>2
<1>5. chance' \in 0 .. MaxChance
    <2>1. chance \in 0 .. MaxChance
        BY <1>1 DEF TypeOK
    <2>2. chance' = chance \/ (chance < MaxChance /\ chance' = chance + 1)
        BY DEF TriggerGC
    <2>3. QED
        BY <2>1, <2>2, BoundFacts
<1>6. TypeOK'
    BY <1>1, <1>2, <1>4, <1>5, SameProgram DEF TypeOK
<1>7. FramesInv' /\ KnownInv'
    <2>1. \A obj \in ROOTS' : Known(obj)
        BY <1>1, <1>2 DEF KnownInv
    <2>2. QED
        BY <1>1, <1>2, <2>1, ThreadsKept
<1>8. EnrolledInv' /\ BumpInv'
    BY <1>1, <1>2 DEF EnrolledInv, BumpInv, Threads
<1>9. PhaseInv' /\ HeldInv' /\ PatternsExpected'
    BY <1>1, <1>2, <1>3, HeldKept
<1>10. QED
    BY <1>6, <1>7, <1>8, <1>9 DEF ScanInv

\* new and destroy: the thread is at the same time at the right place of its
\* program, and in the arena or not.
LEMMA RegistrationInv ==
    ASSUME ScanInv, NEW m \in Mutator, NewMutator(m) \/ DestroyMutator(m)
    PROVE  ScanInv'
<1>1. /\ TypeOK /\ FramesInv /\ EnrolledInv /\ BumpInv /\ KnownInv /\ PhaseInv /\ HeldInv
      /\ PatternsExpected
    BY DEF ScanInv
<1>2. /\ UNCHANGED <<parked, phase, take_yield, leader, program, sp, ret, low_water_mark,
                     memory, alloc_map, trace_map, mark_state, line_mark_table, cursor,
                     limit, ROOTS, gc, marked, chance>>
      /\ Advance(m, Top(m))
    BY DEF NewMutator, DestroyMutator, maps, bump, collector
<1>3. /\ m \in Threads(program) /\ m \notin parked /\ leader # m
      /\ Instr(m)[1] \in {"new", "destroy"}
      /\ Instr(m)[1] = "new" => registered' = registered \cup {m}
      /\ Instr(m)[1] = "destroy" => registered' = registered \ {m}
    BY <1>1, AtFacts DEF NewMutator, DestroyMutator
<1>4. PICK f \in Frame : f = Top(m)
    BY <1>1, InstrFacts
<1>5. /\ stack' \in [Mutator -> [1 .. MaxFrames -> Frame]]
      /\ FramesInv'
      /\ \A n \in Mutator \ {m} : stack'[n] = stack[n]
      /\ stack'[m][1].pc = IF sp[m] = 1 THEN stack[m][1].pc + 1 ELSE stack[m][1].pc
      /\ \A k \in 1 .. MaxFrames :
            stack'[m][k] = IF k = sp[m] THEN [f EXCEPT !.pc = @ + 1] ELSE stack[m][k]
    BY <1>1, <1>2, <1>3, <1>4, StackAdvance
<1>6. TypeOK'
    <2>1. /\ registered' \subseteq Threads(program) /\ parked \subseteq registered'
          /\ leader \in registered' \cup {None}
        BY <1>1, <1>3 DEF TypeOK
    <2>2. QED
        BY <1>1, <1>2, <1>5, <2>1, SameProgram DEF TypeOK
<1>7. EnrolledInv'
    <2> DEFINE pc == stack[m][1].pc
    <2>1. sp[m] = 1 /\ program \in Program
        BY <1>1, <1>3, InstrFacts, ScanAssumption DEF TypeOK
    <2>2. /\ pc \in 1 .. Len(Text[<<program, 0>>])
          /\ Instr(m) = Text[<<program, 0>>][pc]
        BY <1>1, <2>1, InstrFacts DEF Top, Instr
    <2>3. stack'[m][1].pc = pc + 1
        BY <1>5, <2>1
    <2> HIDE DEF pc
    <2>4. /\ m \in registered' <=> Enrolled(program, pc + 1)
          /\ NotYetNew(program, pc + 1) => NotYetNew(program, pc)
        BY <1>3, <2>1, <2>2, MutatorFacts
    <2>5. NotYetNew(program, pc + 1) => cursor[m] = Null /\ limit[m] = Null
        BY <1>1, <2>4 DEF EnrolledInv, pc
    <2>6. ASSUME NEW n \in Mutator
          PROVE  /\ n \in Threads(program) =>
                      (n \in registered' <=> Enrolled(program, stack'[n][1].pc))
                 /\ sp[n] > 1 => n \in registered'
                 /\ NotYetNew(program, stack'[n][1].pc) => cursor[n] = Null /\ limit[n] = Null
        <3>1. CASE n = m
            BY <2>1, <2>3, <2>4, <2>5, <3>1
        <3>2. CASE n # m
            BY <1>1, <1>3, <1>5, <3>2 DEF EnrolledInv
        <3>3. QED
            BY <3>1, <3>2
    <2>7. QED
        BY <1>2, <2>6, SameProgram DEF EnrolledInv, Enrolled, NotYetNew
<1>8. BumpInv'
    BY <1>1, <1>2 DEF BumpInv
<1>9. KnownInv'
    <2>1. program \in Programs
        BY <1>1 DEF TypeOK
    <2>2. \A w \in Word : alloc_map'[w] \in {alloc_map[w], Layout(program).encode}
        BY <1>2
    <2>3. \A v : Known(v) => Known(v)'
        BY <1>2, <2>1, <2>2, KnownGrows
    <2>4. \A w \in Word : Known(memory[w])'
        BY <1>1, <1>2, <2>3 DEF KnownInv
    <2>5. program # "initobj" =>
            /\ Known(f.a)' /\ Known(f.b)'
            /\ \A j \in DOMAIN f.vec : Known(f.vec[j])'
            /\ \A n \in Mutator : Known(ret[n])'
        <3>1. program # "initobj" =>
              /\ Known(f.a) /\ Known(f.b)
              /\ \A j \in DOMAIN f.vec : Known(f.vec[j])
              /\ \A n \in Mutator : Known(ret[n])
            BY <1>1, <1>4, InstrFacts DEF KnownInv, Top
        <3>2. QED
            BY <1>2, <2>3, <3>1
    <2>6. QED
        BY <1>1, <1>2, <1>4, <1>5, <2>2, <2>4, <2>5, KnownKept
<1>10. PhaseInv' /\ HeldInv' /\ PatternsExpected'
    BY <1>1, <1>2, <1>3, <1>5, HeldKept
<1>11. QED
    BY <1>5, <1>6, <1>7, <1>8, <1>9, <1>10 DEF ScanInv

(***************************************************************************)
(* The scan and the handshake.                                             *)
(***************************************************************************)

\* The words of a stack, and what the scan reads of them, are pointers; those
\* in a live local of a scanned frame have their byte.
LEMMA MustFacts ==
    ASSUME TypeOK, FramesInv, KnownInv, NEW m \in Mutator
    PROVE  /\ May(m) \subseteq Pointer /\ Must(m) \subseteq May(m)
           /\ \A v \in Must(m) : Known(v)
           /\ sp[m] = 1 => Must(m) = {}
<1>1. /\ stack \in [Mutator -> [1 .. MaxFrames -> Frame]] /\ ret[m] \in Pointer
      /\ sp[m] \in 1 .. MaxFrames /\ low_water_mark[m] \in 0 .. MaxFrames
    BY DEF TypeOK
<1>2. \A k \in 1 .. MaxFrames : \A x \in Local :
        stack[m][k][x] \in {stack[m][k].a, stack[m][k].b}
    BY DEF Local
<1>3. \A k \in 1 .. MaxFrames : stack[m][k].a \in Pointer /\ stack[m][k].b \in Pointer
    BY <1>1 DEF Frame
<1>4. May(m) \subseteq Pointer
    BY <1>1, <1>2, <1>3 DEF May
<1>5. Scanned(m) \subseteq 1 .. sp[m] /\ Scanned(m) \subseteq 1 .. MaxFrames
    BY <1>1, BoundFacts DEF Scanned
<1>6. \A k \in Scanned(m) : LiveLocals(m, k) \subseteq Local
    BY <1>5, LiveFacts DEF FramesInv, LiveLocals
<1>7. \A v \in Must(m) : \E k \in Scanned(m) : \E x \in Local : v = stack[m][k][x]
    BY <1>6 DEF Must, HeldBy
<1>8. Must(m) \subseteq May(m)
    BY <1>5, <1>7 DEF May
<1>9. ASSUME NEW v \in Must(m) PROVE Known(v)
    <2>1. PICK k \in Scanned(m) : \E x \in Local : v = stack[m][k][x]
        BY <1>7
    <2>2. k \in 1 .. MaxFrames /\ v \in {stack[m][k].a, stack[m][k].b}
        BY <1>2, <1>5, <2>1
    <2>3. program # "initobj"
        BY <2>1 DEF Scanned, KnownInv
    <2>4. QED
        BY <2>2, <2>3 DEF KnownInv
<1>10. sp[m] = 1 => Scanned(m) = {}
    BY <1>1, BoundFacts DEF Scanned, Null
<1>11. QED
    BY <1>4, <1>8, <1>9, <1>10 DEF Must, HeldBy

\* The test of the scan finds the objects that have their byte, and no other
\* pointer.
LEMMA ValidObject ==
    ASSUME TypeOK, NEW v \in Pointer
    PROVE  is_valid_object(v) <=> v \in Object /\ Known(v)
<1>1. program \in Programs /\ alloc_map \in [Word -> {0, Layout(program).encode}]
    BY DEF TypeOK
<1>2. ~ HasObjStart(0) /\ HasObjStart(Layout(program).encode)
    <2>1. Layout(program).encode \in {193, 195, 207}
        BY <1>1, LayoutFacts
    <2>2. QED
        BY <2>1 DEF HasObjStart
<1>3. CASE v \in Object
    <2>1. InSpace(v) /\ Index(v) \in Word
        BY <1>1, <1>3, ObjectFacts
    <2>2. alloc_map[Index(v)] \in {0, Layout(program).encode}
        BY <1>1, <2>1
    <2>3. QED
        BY <1>2, <1>3, <2>1, <2>2 DEF is_valid_object, Known, get_ref_byte
<1>4. CASE v \notin Object
    BY <1>1, <1>4, PointerFacts DEF is_valid_object
<1>5. QED
    BY <1>3, <1>4

LEMMA EnterBarrierInv ==
    ASSUME ScanInv, NEW m \in Mutator, EnterBarrier(m)
    PROVE  ScanInv'
<1>1. /\ TypeOK /\ FramesInv /\ EnrolledInv /\ BumpInv /\ KnownInv /\ PhaseInv /\ HeldInv
      /\ PatternsExpected
    BY DEF ScanInv
<1>2. UNCHANGED <<take_yield, program, stack, sp, ret, low_water_mark, memory, alloc_map,
                  trace_map, mark_state, line_mark_table, cursor, limit, gc, marked>>
    BY DEF EnterBarrier, thread, maps, bump
<1>3. /\ m \in Threads(program) /\ m \notin parked /\ leader # m
      /\ Instr(m)[1] \in {"alloc", "alloc_raw"}
      /\ m \in registered => phase = "running"
    BY <1>1, AtFacts DEF EnterBarrier, InAlloc
<1>4. PICK seen \in SUBSET {v \in May(m) \ Must(m) : is_valid_object(v)} :
        /\ chance + Cardinality(seen) <= MaxChance
        /\ chance' = chance + Cardinality(seen)
        /\ ROOTS' = ROOTS \cup stack_scan(m, seen)
    BY DEF EnterBarrier
<1>5. /\ registered' = registered /\ phase' = phase
      /\ \/ leader = None /\ leader' = m /\ parked' = parked
         \/ leader # None /\ leader' = leader /\ parked' = parked \cup {m}
    BY DEF EnterBarrier, SP!Park
<1>6. m \in registered
    BY <1>1, <1>3, AllocRegistered
<1>7. May(m) \subseteq Pointer /\ Must(m) \subseteq May(m) /\ \A v \in Must(m) : Known(v)
    BY <1>1, MustFacts
<1>8. /\ \A v \in stack_scan(m, seen) : v \in Object /\ Known(v)
      /\ Must(m) \cap Object \subseteq stack_scan(m, seen)
    BY <1>1, <1>7, ValidObject DEF stack_scan
<1>9. chance' \in 0 .. MaxChance
    <2>1. seen \subseteq Address
        BY <1>1, <1>7, PointerFacts DEF TypeOK
    <2>2. IsFiniteSet(Address)
        BY AddressAssumption, FS_Interval DEF Address
    <2>3. Cardinality(seen) \in Nat
        BY <2>1, <2>2, FS_Subset, FS_CardinalityType
    <2>4. chance \in 0 .. MaxChance
        BY <1>1 DEF TypeOK
    <2>5. QED
        BY <1>4, <2>3, <2>4, BoundFacts
<1>10. TypeOK'
    <2>1. ROOTS' \cup marked \subseteq Object
        BY <1>1, <1>4, <1>8 DEF TypeOK
    <2>2. parked' \subseteq registered /\ leader' \in registered \cup {None}
        BY <1>1, <1>5, <1>6 DEF TypeOK
    <2>3. QED
        BY <1>1, <1>2, <1>5, <1>9, <2>1, <2>2, SameProgram DEF TypeOK
<1>11. FramesInv' /\ KnownInv'
    <2>1. \A obj \in ROOTS' : Known(obj)
        BY <1>1, <1>4, <1>8 DEF KnownInv
    <2>2. QED
        BY <1>1, <1>2, <2>1, ThreadsKept
<1>12. EnrolledInv' /\ BumpInv'
    BY <1>1, <1>2, <1>5 DEF EnrolledInv, BumpInv, Threads
<1>13. m # None
    BY ScanAssumption
<1>14. PhaseInv' /\ PatternsExpected' /\ gc = "idle"
    BY <1>1, <1>2, <1>3, <1>5, <1>6, <1>13 DEF PhaseInv, PatternsExpected
<1>15. HeldInv'
    <2>1. \A n \in Mutator : Must(n)' = Must(n)
        BY <1>2, MustKept
    <2>2. parked' \cup ({leader'} \ {None}) \subseteq parked \cup ({leader} \ {None}) \cup {m}
        BY <1>5
    <2>3. parked \cup ({leader} \ {None}) \subseteq Mutator
        BY <1>1, ScanAssumption DEF TypeOK, Threads
    <2>4. \A n \in parked' \cup ({leader'} \ {None}) : Must(n) \cap Object \subseteq ROOTS'
        BY <1>1, <1>3, <1>4, <1>6, <1>8, <2>2 DEF HeldInv
    <2>5. QED
        BY <1>2, <1>14, <2>1, <2>2, <2>3, <2>4, SameProgram DEF HeldInv
<1>16. QED
    BY <1>10, <1>11, <1>12, <1>14, <1>15 DEF ScanInv

LEMMA StartGCInv ==
    ASSUME ScanInv, NEW m \in Mutator, StartGC(m)
    PROVE  ScanInv'
<1>1. /\ TypeOK /\ FramesInv /\ EnrolledInv /\ BumpInv /\ KnownInv /\ PhaseInv /\ HeldInv
      /\ PatternsExpected
    BY DEF ScanInv
<1>2. /\ UNCHANGED <<take_yield, leader, program, stack, sp, ret, low_water_mark, memory,
                     alloc_map, trace_map, mark_state, line_mark_table, cursor, limit,
                     ROOTS, chance, registered, parked>>
      /\ leader = m /\ phase = "running" /\ parked = registered \ {m}
      /\ phase' = "collecting" /\ gc' = "trace" /\ marked' = {}
    BY DEF StartGC, SP!Collect, thread, maps, bump
<1>3. m # None
    BY ScanAssumption
<1>4. TypeOK'
    BY <1>1, <1>2, SameProgram DEF TypeOK
<1>5. FramesInv' /\ KnownInv'
    <2>1. \A obj \in ROOTS' : Known(obj)
        BY <1>1, <1>2 DEF KnownInv
    <2>2. QED
        BY <1>1, <1>2, <2>1, ThreadsKept
<1>6. EnrolledInv' /\ BumpInv'
    BY <1>1, <1>2 DEF EnrolledInv, BumpInv, Threads
<1>7. PhaseInv' /\ PatternsExpected'
    BY <1>1, <1>2, <1>3 DEF PhaseInv, PatternsExpected
<1>8. HeldInv'
    <2>1. registered \subseteq Mutator
        BY <1>1, ScanAssumption DEF TypeOK, Threads
    <2>2. \A n \in Mutator : Must(n)' = Must(n)
        BY <1>2, MustKept
    <2>3. \A n \in parked \cup {m} : Must(n) \cap Object \subseteq ROOTS
        BY <1>1, <1>2, <1>3 DEF HeldInv
    <2>4. MarkedLines({}) = {}
        BY DEF MarkedLines
    <2>5. parked \cup {m} \subseteq Mutator
        BY <1>2, <2>1
    <2>6. QED
        BY <1>2, <2>2, <2>3, <2>4, <2>5, SameProgram DEF HeldInv, MarkedLines
<1>9. QED
    BY <1>4, <1>5, <1>6, <1>7, <1>8 DEF ScanInv

(***************************************************************************)
(* The collection.                                                         *)
(***************************************************************************)

\* The tracer knows the byte of whatever is a root.
LEMMA NoPanic ==
    ASSUME TypeOK, KnownInv, NEW obj \in ROOTS
    PROVE  ~ TracerPanics(obj)
<1>1. get_ref_byte(obj) = Layout(program).encode
    BY DEF TypeOK, KnownInv, Known
<1>2. Layout(program).encode \in {193, 195, 207}
    BY LayoutFacts DEF TypeOK
<1>3. QED
    BY <1>1, <1>2 DEF TracerPanics, KnownPattern, RefBits, HasShortEncode

\* The words it finds in the fields of a root are pointers that have their byte.
LEMMA FieldFacts ==
    ASSUME TypeOK, KnownInv, NEW obj, NEW v \in Fields(obj)
    PROVE  v \in Pointer /\ Known(v)
<1>1. memory \in [Word -> Pointer] /\ Null \in Pointer /\ program \in Programs
    BY DEF TypeOK, Pointer
<1>2. PICK w : v = Peek(w)
    BY DEF Fields
<1>3. CASE w \in Word
    BY <1>1, <1>2, <1>3 DEF Peek, KnownInv
<1>4. CASE w \notin Word
    <2>1. v = Null
        BY <1>2, <1>4 DEF Peek
    <2>2. Null \notin Object
        BY <1>1, ObjectFacts
    <2>3. QED
        BY <1>1, <2>1, <2>2 DEF Known
<1>5. QED
    BY <1>3, <1>4

LEMMA TraceRoundInv ==
    ASSUME ScanInv, TraceRound
    PROVE  ScanInv'
<1>1. /\ TypeOK /\ FramesInv /\ EnrolledInv /\ BumpInv /\ KnownInv /\ PhaseInv /\ HeldInv
      /\ PatternsExpected
    BY DEF ScanInv
<1>2. /\ UNCHANGED <<registered, parked, phase, take_yield, leader, program, stack, sp,
                     ret, low_water_mark, memory, alloc_map, mark_state, cursor, limit,
                     chance>>
      /\ gc = "trace" /\ marked' = marked \cup ROOTS
    BY DEF TraceRound, world, thread, bump
<1>3. ~ \E obj \in ROOTS : TracerPanics(obj)
    BY <1>1, NoPanic
<1>4. /\ gc' = gc
      /\ ROOTS' = {v \in UNION {Fields(obj) : obj \in ROOTS} \ ROOTS :
                     is_untraced_and_valid(v)}
    BY <1>3 DEF TraceRound
<1>5. program \in Programs
    BY <1>1 DEF TypeOK
<1>6. \A v \in ROOTS' : v \in Object /\ Known(v)
    <2> SUFFICES ASSUME NEW v \in ROOTS' PROVE v \in Object /\ Known(v)
        OBVIOUS
    <2>1. is_untraced_and_valid(v) /\ \E obj \in ROOTS : v \in Fields(obj)
        BY <1>4
    <2>2. v \in Pointer /\ Known(v)
        BY <1>1, <2>1, FieldFacts
    <2>3. QED
        BY <1>5, <2>1, <2>2, PointerFacts DEF is_untraced_and_valid
<1>7. trace_map' \in [Word -> {0, 1}]
    <2>1. trace_map \in [Word -> {0, 1}] /\ mark_state \in {0, 1}
        BY <1>1 DEF TypeOK
    <2>2. trace_map' = [w \in Word |-> IF \E obj \in ROOTS : Index(obj) = w
                                       THEN mark_state ELSE trace_map[w]]
        BY DEF TraceRound
    <2>3. QED
        BY <2>1, <2>2
<1>8. /\ line_mark_table' \in [Line -> {"Free", "FreshAlloc", "Kept"}]
      /\ \A l \in Line : line_mark_table'[l] = IF l \in MarkedLines(ROOTS)
                                               THEN "Kept" ELSE line_mark_table[l]
    <2>1. line_mark_table \in [Line -> {"Free", "FreshAlloc", "Kept"}]
        BY <1>1 DEF TypeOK
    <2>2. line_mark_table' = [l \in Line |-> IF l \in MarkedLines(ROOTS)
                                             THEN "Kept" ELSE line_mark_table[l]]
        BY DEF TraceRound
    <2>3. QED
        BY <2>1, <2>2
<1>9. TypeOK'
    <2>1. ROOTS' \cup marked' \subseteq Object
        BY <1>1, <1>2, <1>6 DEF TypeOK
    <2>2. QED
        BY <1>1, <1>2, <1>4, <1>7, <1>8, <2>1, SameProgram DEF TypeOK
<1>10. FramesInv' /\ KnownInv'
    BY <1>1, <1>2, <1>6, ThreadsKept
<1>11. EnrolledInv' /\ BumpInv'
    BY <1>1, <1>2 DEF EnrolledInv, BumpInv, Threads
<1>12. PhaseInv' /\ PatternsExpected' /\ phase # "running"
    BY <1>1, <1>2, <1>4 DEF PhaseInv, PatternsExpected
<1>13. HeldInv'
    <2>1. parked \cup {leader} \subseteq Mutator
        BY <1>1, <1>2, ScanAssumption DEF TypeOK, Threads, PhaseInv
    <2>2. \A n \in Mutator : Must(n)' = Must(n)
        BY <1>2, MustKept
    <2>3. \A n \in parked \cup {leader} : Must(n) \cap Object \subseteq ROOTS' \cup marked'
        BY <1>1, <1>2 DEF HeldInv
    <2>4. MarkedLines(marked') \subseteq MarkedLines(marked) \cup MarkedLines(ROOTS)
        BY <1>2 DEF MarkedLines
    <2>5. \A l \in MarkedLines(marked') \cap Line : line_mark_table'[l] = "Kept"
        BY <1>1, <1>2, <1>8, <2>4 DEF HeldInv
    <2>6. MarkedLines(marked)' = MarkedLines(marked')
        BY DEF MarkedLines
    <2>7. QED
        BY <1>2, <1>12, <2>1, <2>2, <2>3, <2>5, <2>6, SameProgram DEF HeldInv
<1>14. QED
    BY <1>9, <1>10, <1>11, <1>12, <1>13 DEF ScanInv

LEMMA SweepAndFlipInv ==
    ASSUME ScanInv, SweepAndFlip
    PROVE  ScanInv'
<1>1. /\ TypeOK /\ FramesInv /\ EnrolledInv /\ BumpInv /\ KnownInv /\ PhaseInv /\ HeldInv
      /\ PatternsExpected
    BY DEF ScanInv
<1>2. /\ UNCHANGED <<registered, parked, take_yield, leader, program, stack, sp, ret,
                     low_water_mark, memory, alloc_map, trace_map, cursor, limit, ROOTS,
                     marked, chance>>
      /\ gc = "trace"
      /\ line_mark_table' = [l \in Line |->
            IF line_mark_table[l] = "Kept" THEN "Kept" ELSE "Free"]
    BY DEF SweepAndFlip, thread, bump, SP!Finish
<1>3. \/ gc' = "out of memory" /\ phase' = phase /\ mark_state' = mark_state
      \/ gc' = "idle" /\ phase' = "releasing" /\ mark_state' = 1 - mark_state
    BY DEF SweepAndFlip, flip_mark_state, SP!Finish
<1>4. phase = "collecting"
    BY <1>1, <1>2 DEF PhaseInv, TypeOK
<1>5. TypeOK'
    <2>1. line_mark_table' \in [Line -> {"Free", "FreshAlloc", "Kept"}]
        BY <1>2
    <2>2. mark_state' \in {0, 1}
        <3>1. mark_state \in {0, 1}
            BY <1>1 DEF TypeOK
        <3>2. mark_state' \in {mark_state, 1 - mark_state}
            BY <1>3
        <3>3. QED
            BY <3>1, <3>2
    <2>3. phase' \in {"running", "collecting", "releasing"}
        BY <1>3, <1>4
    <2>4. gc' \in {"idle", "trace", "panicked", "out of memory"}
        BY <1>3
    <2>5. QED
        BY <1>1, <1>2, <2>1, <2>2, <2>3, <2>4, SameProgram DEF TypeOK
<1>6. FramesInv' /\ KnownInv'
    <2>1. \A obj \in ROOTS' : Known(obj)
        BY <1>1, <1>2 DEF KnownInv
    <2>2. QED
        BY <1>1, <1>2, <2>1, ThreadsKept
<1>7. EnrolledInv' /\ BumpInv'
    BY <1>1, <1>2 DEF EnrolledInv, BumpInv, Threads
<1>8. PhaseInv' /\ PatternsExpected'
    BY <1>1, <1>2, <1>3, <1>4 DEF PhaseInv, PatternsExpected
<1>9. HeldInv'
    BY <1>3, <1>4 DEF HeldInv
<1>10. QED
    BY <1>5, <1>6, <1>7, <1>8, <1>9 DEF ScanInv

LEMMA ResumeInv ==
    ASSUME ScanInv, Resume
    PROVE  ScanInv'
<1>1. /\ TypeOK /\ FramesInv /\ EnrolledInv /\ BumpInv /\ KnownInv /\ PhaseInv /\ HeldInv
      /\ PatternsExpected
    BY DEF ScanInv
<1>2. /\ UNCHANGED <<registered, program, stack, sp, ret, low_water_mark, memory,
                     alloc_map, trace_map, mark_state, line_mark_table, ROOTS, gc, marked,
                     chance>>
      /\ phase = "releasing" /\ phase' = "running" /\ parked' = {} /\ leader' = None
      /\ take_yield' = [m \in Mutator |-> FALSE]
      /\ cursor' = [m \in Mutator |-> Null]
      /\ limit' = [m \in Mutator |-> Null]
    BY DEF Resume, thread, maps, collector, SP!Release
<1>3. gc = "idle"
    BY <1>1, <1>2 DEF PhaseInv
<1>4. TypeOK'
    <2>1. Null \in Address
        BY AddressAssumption DEF Null, Address, POINTER_SIZE
    <2>2. /\ take_yield' \in [Mutator -> BOOLEAN]
          /\ cursor' \in [Mutator -> Address] /\ limit' \in [Mutator -> Address]
        BY <1>2, <2>1
    <2>3. QED
        BY <1>1, <1>2, <2>2, SameProgram DEF TypeOK
<1>5. FramesInv' /\ KnownInv'
    <2>1. \A obj \in ROOTS' : Known(obj)
        BY <1>1, <1>2 DEF KnownInv
    <2>2. QED
        BY <1>1, <1>2, <2>1, ThreadsKept
<1>6. EnrolledInv' /\ BumpInv'
    BY <1>1, <1>2 DEF EnrolledInv, BumpInv, Threads
<1>7. PhaseInv' /\ PatternsExpected'
    BY <1>2, <1>3 DEF PhaseInv, PatternsExpected
<1>8. HeldInv'
    BY <1>2, <1>3 DEF HeldInv
<1>9. QED
    BY <1>4, <1>5, <1>6, <1>7, <1>8 DEF ScanInv

(***************************************************************************)
(* The invariant.                                                          *)
(***************************************************************************)
LEMMA ScanInit == Init => ScanInv
<1> SUFFICES ASSUME Init PROVE ScanInv
    OBVIOUS
<1>1. /\ program \in Programs /\ registered = {} /\ parked = {} /\ phase = "running"
      /\ memory = [w \in Word |-> Null] /\ alloc_map = [w \in Word |-> 0]
      /\ trace_map = [w \in Word |-> 0] /\ mark_state = 0
      /\ line_mark_table = [l \in Line |-> "Free"]
      /\ leader = None /\ ROOTS = {} /\ gc = "idle" /\ marked = {} /\ chance = 0
    BY DEF Init, SP!Init, Initial
<1>2. /\ sp = [m \in Mutator |-> 1] /\ ret = [m \in Mutator |-> Null]
      /\ low_water_mark = [m \in Mutator |-> Null]
      /\ cursor = [m \in Mutator |-> Null] /\ limit = [m \in Mutator |-> Null]
      /\ take_yield = [m \in Mutator |-> FALSE]
    BY DEF Init
<1>3. stack = [m \in Mutator |-> [k \in 1 .. MaxFrames |-> NewFrame]]
    BY DEF Init
<1>4. program \in Program
    BY <1>1, ScanAssumption
<1>5. /\ NewFrame \in Frame
      /\ NewFrame.fn = program /\ NewFrame.d = 0 /\ NewFrame.pc = 1
      /\ NewFrame.a = Null /\ NewFrame.b = Null /\ NewFrame.vec = <<>>
    <2>1. program \in Name
        BY <1>4, ProgramText, FunctionTyped
    <2>2. Null \in Pointer /\ <<>> \in Seq(Pointer)
        BY DEF Pointer
    <2>3. QED
        BY <2>1, <2>2 DEF NewFrame, Frame
<1>6. TypeOK
    <2>1. Null \in Address /\ Null \in Pointer /\ 0 \in 0 .. MaxChance
        BY AddressAssumption, BoundFacts DEF Null, Address, POINTER_SIZE, Pointer
    <2>2. stack \in [Mutator -> [1 .. MaxFrames -> Frame]]
        BY <1>3, <1>5
    <2>3. /\ sp \in [Mutator -> 1 .. MaxFrames] /\ low_water_mark \in [Mutator -> 0 .. MaxFrames]
          /\ ret \in [Mutator -> Pointer]
          /\ cursor \in [Mutator -> Address] /\ limit \in [Mutator -> Address]
          /\ take_yield \in [Mutator -> BOOLEAN]
        BY <1>2, <2>1, BoundFacts DEF Null
    <2>4. QED
        BY <1>1, <2>1, <2>2, <2>3 DEF TypeOK
<1>7. 1 \in 1 .. MaxFrames
    BY BoundFacts
<1>8. FramesInv
    <2>1. <<program, 0>> \in Function /\ 1 \in 1 .. Len(Text[<<program, 0>>])
        BY <1>4, ProgramText DEF Ends
    <2>2. \A m \in Mutator : sp[m] = 1 /\ stack[m][1] = NewFrame
        BY <1>2, <1>3, <1>7
    <2>3. QED
        BY <1>5, <2>1, <2>2 DEF FramesInv
<1>9. EnrolledInv /\ BumpInv
    <2>1. NotYetNew(program, 1) /\ ~ Enrolled(program, 1)
        BY DEF NotYetNew, Enrolled
    <2>2. \A m \in Mutator : /\ stack[m][1].pc = 1 /\ sp[m] = 1
                             /\ cursor[m] = Null /\ limit[m] = Null
        BY <1>2, <1>3, <1>5, <1>7
    <2>3. QED
        BY <1>1, <2>1, <2>2 DEF EnrolledInv, BumpInv
<1>10. KnownInv
    <2>1. Known(Null)
        BY <1>1, ObjectFacts DEF Known
    <2>2. \A m \in Mutator : \A k \in 1 .. MaxFrames : stack[m][k] = NewFrame
        BY <1>3
    <2>3. DOMAIN << >> = {}
        OBVIOUS
    <2>4. QED
        BY <1>1, <1>2, <1>5, <2>1, <2>2, <2>3 DEF KnownInv
<1>11. PhaseInv /\ HeldInv /\ PatternsExpected
    BY <1>1 DEF PhaseInv, HeldInv, PatternsExpected
<1>12. QED
    BY <1>6, <1>8, <1>9, <1>10, <1>11 DEF ScanInv

LEMMA ScanStutter ==
    ASSUME ScanInv, UNCHANGED vars
    PROVE  ScanInv'
<1>1. UNCHANGED <<registered, parked, phase, take_yield, leader, program, stack, sp, ret,
                  low_water_mark, memory, alloc_map, trace_map, mark_state,
                  line_mark_table, cursor, limit, ROOTS, gc, marked, chance>>
    BY DEF vars, world, thread, maps, bump, collector
<1>2. TypeOK' /\ PatternsExpected' /\ PhaseInv' /\ BumpInv'
    BY <1>1, SameProgram DEF ScanInv, TypeOK, PatternsExpected, PhaseInv, BumpInv
<1>3. FramesInv' /\ KnownInv'
    BY <1>1, ThreadsKept DEF ScanInv, KnownInv
<1>4. EnrolledInv'
    BY <1>1 DEF ScanInv, EnrolledInv, Threads
<1>5. HeldInv'
    <2>1. /\ parked \cup ({leader} \ {None}) \subseteq Mutator
          /\ gc = "trace" => leader # None
        BY ScanAssumption DEF ScanInv, TypeOK, Threads, PhaseInv
    <2>2. \A n \in Mutator : Must(n)' = Must(n)
        BY <1>1, MustKept
    <2>3. HeldInv
        BY DEF ScanInv
    <2>4. QED
        BY <1>1, <2>1, <2>2, <2>3, SameProgram DEF HeldInv, MarkedLines
<1>6. QED
    BY <1>2, <1>3, <1>4, <1>5 DEF ScanInv

LEMMA ScanStep ==
    ASSUME ScanInv, [Next]_vars
    PROVE  ScanInv'
<1>1. ASSUME NEW m \in Mutator, ThreadStep(m) PROVE ScanInv'
    BY <1>1, LowWaterMarkInv, ComputeInv, CallReturnInv, AllocFastInv, InitLoopInv,
       TakeHoleInv, TriggerGCInv, RegistrationInv, EnterBarrierInv, StartGCInv
    DEF ThreadStep
<1>2. QED
    BY <1>1, TraceRoundInv, SweepAndFlipInv, ResumeInv, ScanStutter DEF Next

\* Every benchmark, on every heap and with every number of threads, wherever the
\* low water mark falls in the first frames, keeps the inductive invariant ScanInv
\* through every collection, up to the first thread that registers during one.
THEOREM ScanInvariant == Spec => []ScanInv
<1>1. Init => ScanInv
    BY ScanInit
<1>2. ScanInv /\ [Next]_vars => ScanInv'
    BY ScanStep
<1>3. QED
    BY <1>1, <1>2, PTL DEF Spec

\* Type correctness.
THEOREM ScanTypeCorrect == Spec => []TypeOK
<1>1. ScanInv => TypeOK
    BY DEF ScanInv
<1>2. QED
    BY <1>1, ScanInvariant, PTL

\* The assertion of the tracer that its objects are in the space, whatever the
\* words in stacks, registers and uninitialised fields, and that both address
\* maps have an entry for them at the same index.
THEOREM TracerStaysInSpace == Spec => []TracedInSpace
<1>1. ScanInv => TracedInSpace
    <2> SUFFICES ASSUME ScanInv, NEW obj \in ROOTS \cup marked
                 PROVE  InSpace(obj) /\ Index(obj) < MapLen /\ Index(obj) = SafeIndex(obj)
        BY DEF TracedInSpace
    <2>1. obj \in Object /\ program \in Programs
        BY DEF ScanInv, TypeOK
    <2>2. QED
        BY <2>1, ObjectFacts
<1>2. QED
    BY <1>1, ScanInvariant, PTL

\* The tracer's panic!("unexpected ref_bits patterns") and its assertion on the
\* short encoding are unreachable: what it follows has kept the byte that
\* init_object gave it.
THEOREM TracerNeverPanics == Spec => []PatternsExpected
<1>1. ScanInv => PatternsExpected
    BY DEF ScanInv
<1>2. QED
    BY <1>1, ScanInvariant, PTL

(***************************************************************************)
(* What live locals hold stays allocated.                                  *)
(***************************************************************************)

\* An object stays safe when its lines are not freed, and regions only take what
\* they had, or free lines.
LEMMA SafeKept ==
    ASSUME program \in Programs, program' = program, NEW x \in Object, Safe(x),
           \A l \in {LineOf(x), LineOf(x) + 1} \cap Line :
             line_mark_table'[l] = "Free" => line_mark_table[l] = "Free",
           \A n \in registered' : \A addr \in Int :
             cursor'[n] <= addr /\ addr < limit'[n] =>
               \/ n \in registered /\ cursor[n] <= addr /\ addr < limit[n]
               \/ line_mark_table[LineOf(addr)] = "Free"
    PROVE  Safe(x)'
<1> SUFFICES ASSUME NEW k \in 0 .. size \div POINTER_SIZE - 1
             PROVE  LET addr == x + k * POINTER_SIZE
                    IN  /\ line_mark_table'[LineOf(addr)] # "Free"
                        /\ \A n \in registered' : ~ (cursor'[n] <= addr /\ addr < limit'[n])
    BY SameProgram DEF Safe, IsFree, LineOf, diff
<1> DEFINE addr == x + k * POINTER_SIZE
<1>1. LineOf(addr) \in {LineOf(x), LineOf(x) + 1} \cap Line
    BY TwoLines
<1>2. /\ line_mark_table[LineOf(addr)] # "Free"
      /\ \A n \in registered : ~ (cursor[n] <= addr /\ addr < limit[n])
    BY DEF Safe, IsFree
<1>3. addr \in Int
    BY LayoutFacts, AddressAssumption DEF Object, POINTER_SIZE
<1> HIDE DEF addr
<1>4. line_mark_table'[LineOf(addr)] # "Free"
    BY <1>1, <1>2
<1>5. \A n \in registered' : ~ (cursor'[n] <= addr /\ addr < limit'[n])
    BY <1>2, <1>3
<1>6. QED
    BY <1>4, <1>5 DEF addr

LEMMA SafeThread ==
    ASSUME ScanInv, NEW m \in Mutator, ThreadStep(m), NEW x \in Object, Safe(x)
    PROVE  Safe(x)'
<1>1. TypeOK /\ FramesInv /\ EnrolledInv /\ BumpInv /\ program \in Programs
    BY DEF ScanInv, TypeOK
<1>2. CASE \/ set_low_water_mark(m) \/ Compute(m) \/ CallReturn(m) \/ InitLoop(m)
           \/ TriggerGC(m) \/ EnterBarrier(m) \/ StartGC(m)
    <2>1. UNCHANGED <<program, registered, cursor, limit, line_mark_table>>
        BY <1>2 DEF set_low_water_mark, Compute, CallReturn, InitLoop, TriggerGC,
            EnterBarrier, StartGC, Quiet, world, bump, SP!Park, SP!Collect
    <2>2. QED
        BY <1>1, <2>1, SafeKept
<1>3. CASE AllocFast(m)
    <2>1. /\ UNCHANGED <<program, registered, limit, line_mark_table>>
          /\ cursor' = [cursor EXCEPT ![m] = cursor[m] + size]
        BY <1>3 DEF AllocFast, world
    <2>2. cursor \in [Mutator -> Address] /\ registered \subseteq Mutator
        BY <1>1, ScanAssumption DEF TypeOK, Threads
    <2>3. \A n \in Mutator : cursor'[n] = cursor[n] \/ cursor'[n] = cursor[n] + size
        BY <2>1, <2>2
    <2>4. size \in Nat
        BY <1>1, LayoutFacts
    <2>5. \A n \in registered : cursor[n] \in Int /\ cursor[n] <= cursor'[n] /\ cursor'[n] \in Int
        BY <2>2, <2>3, <2>4, AddressAssumption DEF Address
    <2>6. limit \in [Mutator -> Address]
        BY <1>1 DEF TypeOK
    <2>7. \A n \in registered : \A addr \in Int : cursor'[n] <= addr => cursor[n] <= addr
        BY <2>5
    <2>8. QED
        BY <1>1, <2>1, <2>7, SafeKept
<1>4. CASE TakeHole(m)
    <2>1. UNCHANGED <<program, registered>>
        BY <1>4 DEF TakeHole, world
    <2>2. PICK first \in Line : \E end \in first + 1 .. Cardinality(Line) :
            /\ Hole(first, end)
            /\ cursor' = [cursor EXCEPT ![m] = LineStart(first)]
            /\ limit' = [limit EXCEPT ![m] = LineStart(end)]
            /\ line_mark_table' = [l \in Line |->
                    IF l \in first .. end - 1 THEN "FreshAlloc" ELSE line_mark_table[l]]
        BY <1>4 DEF TakeHole
    <2>3. PICK end \in first + 1 .. Cardinality(Line) :
            /\ Hole(first, end)
            /\ cursor' = [cursor EXCEPT ![m] = LineStart(first)]
            /\ limit' = [limit EXCEPT ![m] = LineStart(end)]
            /\ line_mark_table' = [l \in Line |->
                    IF l \in first .. end - 1 THEN "FreshAlloc" ELSE line_mark_table[l]]
        BY <2>2
    <2>4. first \in Nat /\ end \in Nat
        BY LineCount, SpaceFacts
    <2>5. /\ cursor'[m] = LineStart(first) /\ limit'[m] = LineStart(end)
          /\ \A n \in Mutator \ {m} : cursor'[n] = cursor[n] /\ limit'[n] = limit[n]
        <3>1. cursor \in [Mutator -> Address] /\ limit \in [Mutator -> Address]
            BY <1>1 DEF TypeOK
        <3>2. QED
            BY <2>3, <3>1
    <2>6. \A addr \in Int : cursor'[m] <= addr /\ addr < limit'[m] =>
            line_mark_table[LineOf(addr)] = "Free"
        BY <2>3, <2>4, <2>5, RegionLines DEF Hole, IsFree
    <2>7. \A l \in Line : line_mark_table'[l] = "Free" => line_mark_table[l] = "Free"
        BY <2>3
    <2>8. registered \subseteq Mutator
        BY <1>1, ScanAssumption DEF TypeOK, Threads
    <2>9. QED
        BY <1>1, <2>1, <2>5, <2>6, <2>7, <2>8, SafeKept
<1>5. CASE NewMutator(m) \/ DestroyMutator(m)
    <2>1. UNCHANGED <<program, cursor, limit, line_mark_table>>
        BY <1>5 DEF NewMutator, DestroyMutator, bump
    <2>2. \A n \in registered' : n \in registered \/ (n = m /\ NewMutator(m))
        BY <1>5 DEF NewMutator, DestroyMutator
    <2>3. NewMutator(m) => cursor[m] = Null /\ limit[m] = Null
        <3> SUFFICES ASSUME NewMutator(m) PROVE NotYetNew(program, stack[m][1].pc)
            BY <1>1 DEF EnrolledInv
        <3> DEFINE pc == stack[m][1].pc
        <3>1. Instr(m)[1] = "new"
            BY DEF NewMutator, At
        <3>2. sp[m] = 1 /\ program \in Program
            BY <1>1, <3>1, InstrFacts, ScanAssumption
        <3>3. /\ pc \in 1 .. Len(Text[<<program, 0>>])
              /\ Instr(m) = Text[<<program, 0>>][pc]
            BY <1>1, <3>2, InstrFacts DEF Top, Instr
        <3> HIDE DEF pc
        <3>4. NotYetNew(program, pc)
            BY <3>1, <3>2, <3>3, MutatorFacts
        <3>5. QED
            BY <3>4 DEF pc
    <2>4. \A addr \in Int : ~ (Null <= addr /\ addr < Null)
        BY DEF Null
    <2>5. QED
        BY <1>1, <2>1, <2>2, <2>3, <2>4, SafeKept
<1>6. QED
    BY <1>2, <1>3, <1>4, <1>5 DEF ThreadStep

LEMMA SafeCollector ==
    ASSUME ScanInv, ~ Late, TraceRound \/ SweepAndFlip \/ Resume,
           NEW m \in Mutator, NEW x \in Must(m) \cap Object, Safe(x)
    PROVE  Safe(x)'
<1>1. /\ TypeOK /\ FramesInv /\ EnrolledInv /\ KnownInv /\ PhaseInv /\ HeldInv
      /\ program \in Programs /\ x \in Object
    BY DEF ScanInv, TypeOK
<1>2. CASE TraceRound
    <2>1. UNCHANGED <<program, registered, cursor, limit>>
        BY <1>2 DEF TraceRound, world, bump
    <2>2. \A l \in Line : line_mark_table'[l] = "Free" => line_mark_table[l] = "Free"
        BY <1>2 DEF TraceRound
    <2>3. QED
        BY <1>1, <2>1, <2>2, SafeKept
<1>3. CASE SweepAndFlip
    <2>1. /\ UNCHANGED <<program, registered, cursor, limit>> /\ gc = "trace" /\ ROOTS = {}
          /\ line_mark_table' = [l \in Line |->
                IF line_mark_table[l] = "Kept" THEN "Kept" ELSE "Free"]
        BY <1>3 DEF SweepAndFlip, bump, SP!Finish
    <2>2. m \in parked \cup {leader}
        <3>1. sp[m] \in 1 .. MaxFrames /\ sp[m] # 1
            BY <1>1, MustFacts DEF TypeOK
        <3>2. sp[m] > 1
            BY <3>1, BoundFacts
        <3>3. m \in registered
            BY <1>1, <3>2 DEF EnrolledInv
        <3>4. QED
            BY <1>1, <2>1, <3>3 DEF PhaseInv, Late
    <2>3. x \in marked
        BY <1>1, <2>1, <2>2 DEF HeldInv
    <2>4. {LineOf(x), LineOf(x) + 1} \subseteq MarkedLines(marked)
        BY <2>3 DEF MarkedLines
    <2>5. \A l \in {LineOf(x), LineOf(x) + 1} \cap Line : line_mark_table'[l] # "Free"
        BY <1>1, <2>1, <2>4 DEF HeldInv
    <2>6. QED
        BY <1>1, <2>1, <2>5, SafeKept
<1>4. CASE Resume
    <2>1. UNCHANGED <<program, registered, line_mark_table>>
        BY <1>4 DEF Resume, SP!Release
    <2>2. \A n \in Mutator : cursor'[n] = Null /\ limit'[n] = Null
        BY <1>4 DEF Resume
    <2>3. registered \subseteq Mutator
        BY <1>1, ScanAssumption DEF TypeOK, Threads
    <2>4. \A addr \in Int : ~ (Null <= addr /\ addr < Null)
        BY DEF Null
    <2>5. QED
        BY <1>1, <2>1, <2>2, <2>3, <2>4, SafeKept
<1>5. QED
    BY <1>2, <1>3, <1>4

\* What a live local of a frame wholly below the low water mark refers to stays
\* allocated as long as the local lives: stack_scan reports it, the trace marks its
\* line and the next, the sweep keeps both, and no mutator is given them.  Threads
\* register and leave while the controller counts; the first that registers during
\* a collection ends the claim, since nobody has scanned its stack.
THEOREM HeldObjectsSurvive == Spec => HeldSurvives
<1> DEFINE Kept ==
        \A m \in Mutator : \A x \in Must(m) \ {Null} : Safe(x) /\ x \in Must(m)' => Safe(x)'
<1>1. ScanInv /\ [Next]_vars => [Kept]_vars
    <2> SUFFICES ASSUME ScanInv, Next, NEW m \in Mutator, NEW x \in Must(m) \ {Null}, Safe(x)
                 PROVE  Safe(x)'
        OBVIOUS
    <2>1. x \in Object
        BY MustFacts DEF ScanInv, Pointer
    <2>2. QED
        BY <2>1, SafeThread, SafeCollector DEF Next
<1>2. QED
    BY <1>1, ScanInvariant, PTL DEF Spec, HeldSurvives

(***************************************************************************)
(* No null pointer is followed.  Here p is the program, mem the memory, T  *)
(* a stack with top frame s and r the register.                            *)
(***************************************************************************)

\* Field n of the object at x has been stored.
Stored(p, mem, x, n) ==
    LET w == Index(x + Layout(p)[n]) IN w \in Word /\ mem[w] # Null

\* What a frame has in its hands: the locals it has set, the elements of its
\* Vec, and the fields that Populate has stored in its node.
FrameSet(p, mem, f) ==
    /\ IsSet(Text[<<f.fn, f.d>>], f.pc, "a") => f.a # Null
    /\ IsSet(Text[<<f.fn, f.d>>], f.pc, "b") => f.b # Null
    /\ \A j \in DOMAIN f.vec : f.vec[j] # Null
    /\ f.fn = "Populate" =>
        /\ f.a # Null
        /\ f.pc > 2 => Stored(p, mem, f.a, "left")
        /\ f.pc > 4 => Stored(p, mem, f.a, "right")

ThreadSet(p, mem, T, s, r) ==
    /\ \A k \in 1 .. s : FrameSet(p, mem, T[k]) /\ (T[k].fn \in WithArgument => r # Null)
    /\ Given(Text[<<T[s].fn, T[s].d>>], T[s].pc) => r # Null

PointersInv == \A m \in Mutator : ThreadSet(program, memory, stack[m], sp[m], ret[m])

\* No word of mem is replaced by null.
NullFree(mem, mem2) == \A w \in Word : mem[w] # Null => mem2[w] # Null

LEMMA NextInstruction ==
    ASSUME NEW s, NEW pc \in Nat \ {0}, NEW x
    PROVE  /\ Given(s, pc + 1) <=> Given(s, pc) \/ Gives(s[pc])
           /\ IsSet(s, pc + 1, x) <=> IsSet(s, pc, x) \/ s[pc] = Save(x)
<1>1. 1 .. (pc + 1) - 1 = (1 .. pc - 1) \cup {pc}
    OBVIOUS
<1>2. QED
    BY <1>1 DEF Given, IsSet

LEMMA FirstInstruction ==
    ASSUME NEW s, NEW x
    PROVE  ~ Given(s, 1) /\ ~ IsSet(s, 1, x)
<1>1. 1 .. 1 - 1 = {}
    OBVIOUS
<1>2. QED
    BY <1>1 DEF Given, IsSet

LEMMA FrameSetKept ==
    ASSUME NEW p, NEW mem, NEW mem2, NullFree(mem, mem2), NEW f, FrameSet(p, mem, f)
    PROVE  FrameSet(p, mem2, f)
<1>1. \A n \in FieldNames : Stored(p, mem, f.a, n) => Stored(p, mem2, f.a, n)
    BY DEF Stored, NullFree
<1>2. QED
    BY <1>1 DEF FrameSet, FieldNames

\* A frame that goes on to its next instruction.
LEMMA FrameSetAdvance ==
    ASSUME NEW p, NEW mem, NEW mem2, NullFree(mem, mem2),
           NEW f \in Frame, FrameSet(p, mem, f), f.pc \in Nat \ {0}, NEW g \in Frame,
           g.fn = f.fn, g.d = f.d, g.pc = f.pc + 1,
           (g.a = f.a /\ Text[<<f.fn, f.d>>][f.pc] # Save("a")) \/ g.a # Null,
           (g.b = f.b /\ Text[<<f.fn, f.d>>][f.pc] # Save("b")) \/ g.b # Null,
           \A j \in DOMAIN g.vec : g.vec[j] # Null,
           f.fn = "Populate" =>
             /\ g.a = f.a
             /\ f.pc = 2 => Stored(p, mem2, f.a, "left")
             /\ f.pc = 4 => Stored(p, mem2, f.a, "right")
    PROVE  FrameSet(p, mem2, g)
<1>1. FrameSet(p, mem2, f)
    BY FrameSetKept
<1>2. /\ IsSet(Text[<<g.fn, g.d>>], g.pc, "a") => g.a # Null
      /\ IsSet(Text[<<g.fn, g.d>>], g.pc, "b") => g.b # Null
    BY <1>1, NextInstruction DEF FrameSet
<1>3. f.fn = "Populate" =>
        /\ g.a # Null
        /\ g.pc > 2 => Stored(p, mem2, g.a, "left")
        /\ g.pc > 4 => Stored(p, mem2, g.a, "right")
    <2>1. /\ g.pc > 2 => f.pc > 2 \/ f.pc = 2
          /\ g.pc > 4 => f.pc > 4 \/ f.pc = 4
        OBVIOUS
    <2>2. QED
        BY <1>1, <2>1 DEF FrameSet
<1>4. QED
    BY <1>2, <1>3 DEF FrameSet

\* A thread whose top frame goes on to its next instruction.
LEMMA ThreadSetAdvance ==
    ASSUME NEW p, NEW mem, NEW mem2, NullFree(mem, mem2),
           NEW s \in Nat \ {0}, NEW T, NEW T2, NEW r, NEW r2,
           ThreadSet(p, mem, T, s, r), r # Null => r2 # Null,
           \A k \in 1 .. s - 1 : T2[k] = T[k],
           T[s].pc \in Nat \ {0},
           T2[s].fn = T[s].fn, T2[s].d = T[s].d, T2[s].pc = T[s].pc + 1,
           FrameSet(p, mem2, T2[s]),
           Gives(Text[<<T[s].fn, T[s].d>>][T[s].pc]) => r2 # Null
    PROVE  ThreadSet(p, mem2, T2, s, r2)
<1>1. ASSUME NEW k \in 1 .. s
      PROVE  FrameSet(p, mem2, T2[k]) /\ (T2[k].fn \in WithArgument => r2 # Null)
    <2>1. FrameSet(p, mem, T[k]) /\ (T[k].fn \in WithArgument => r # Null)
        BY DEF ThreadSet
    <2>2. CASE k = s
        BY <2>1, <2>2
    <2>3. CASE k # s
        <3>1. T2[k] = T[k]
            BY <2>3
        <3>2. QED
            BY <2>1, <3>1, FrameSetKept
    <2>4. QED
        BY <2>2, <2>3
<1>2. Given(Text[<<T2[s].fn, T2[s].d>>], T2[s].pc) => r2 # Null
    BY NextInstruction DEF ThreadSet
<1>3. QED
    BY <1>1, <1>2 DEF ThreadSet

\* A thread that another thread's writes leave alone.
LEMMA ThreadSetKept ==
    ASSUME NEW p, NEW mem, NEW mem2, NullFree(mem, mem2), NEW s, NEW T, NEW r,
           ThreadSet(p, mem, T, s, r)
    PROVE  ThreadSet(p, mem2, T, s, r)
BY FrameSetKept DEF ThreadSet

\* The fields of an object are words of the space.
LEMMA FieldWord ==
    ASSUME program \in Programs, NEW v \in Object, NEW n \in FieldNames
    PROVE  Index(v + Layout(program)[n]) \in Word
<1>1. program \in Program
    BY ScanAssumption
<1>2. Layout(program)[n] \in Nat /\ Layout(program)[n] + 8 <= size /\ size \in Nat
    BY <1>1 DEF size, Layout, Program, FieldNames, gcbench_Node, mt_gcbench_Node,
       exhaust_object, trace_object, k_ary_object
<1> DEFINE x == v + Layout(program)[n]
<1>3. x \in Int /\ START <= x /\ x + 8 <= END
    BY <1>2, AddressAssumption DEF Object
<1> HIDE DEF x
<1>4. Index(x) \in Word
    BY <1>3, AddressAssumption DEF Index, diff, Word, SafeLen, POINTER_SIZE
<1>5. QED
    BY <1>4 DEF x

\* The thread has what its next instruction works on.
LEMMA InstrSets ==
    ASSUME TypeOK, FramesInv, PointersInv, NEW m \in Mutator
    PROVE  /\ ThreadSet(program, memory, stack[m], sp[m], ret[m])
           /\ FrameSet(program, memory, Top(m))
           /\ NeedsRet(Instr(m)) => ret[m] # Null
           /\ Instr(m)[1] \in {"store", "load"} => Top(m)[Instr(m)[2]] \in Object
           /\ Instr(m)[1] = "init_Node" => Top(m).a # Null /\ Top(m).b # Null
           /\ \A j \in DOMAIN Top(m).vec : Top(m).vec[j] # Null
           /\ Instr(m)[1] = "load" => Top(m).fn = "Populate"
<1>1. ThreadSet(program, memory, stack[m], sp[m], ret[m])
    BY DEF PointersInv
<1>2. /\ sp[m] \in 1 .. MaxFrames
      /\ <<Top(m).fn, Top(m).d>> \in Function
      /\ Top(m).pc \in 1 .. Len(Text[<<Top(m).fn, Top(m).d>>])
      /\ Instr(m)[1] \in {"store", "load"} => Instr(m)[2] \in Local
      /\ Top(m) \in Frame
    BY InstrFacts
<1>3. sp[m] \in 1 .. sp[m]
    BY <1>2, BoundFacts
<1>4. /\ FrameSet(program, memory, Top(m))
      /\ Top(m).fn \in WithArgument => ret[m] # Null
      /\ Given(Text[<<Top(m).fn, Top(m).d>>], Top(m).pc) => ret[m] # Null
    BY <1>1, <1>3 DEF ThreadSet, Top
<1> DEFINE s == Text[<<Top(m).fn, Top(m).d>>]
<1>5. SetBeforeUse(Top(m).fn, s) /\ Instr(m) = s[Top(m).pc]
    BY <1>2, TextSets DEF Instr
<1>6. Top(m).pc \in 1 .. Len(s)
    BY <1>2
<1>7. /\ IsSet(s, Top(m).pc, "a") => Top(m).a # Null
      /\ IsSet(s, Top(m).pc, "b") => Top(m).b # Null
      /\ \A j \in DOMAIN Top(m).vec : Top(m).vec[j] # Null
      /\ Top(m).fn = "Populate" => Top(m).a # Null
    BY <1>4 DEF FrameSet
<1> HIDE DEF s
<1>8. /\ NeedsRet(Instr(m)) => Top(m).fn \in WithArgument \/ Given(s, Top(m).pc)
      /\ Instr(m)[1] \in {"store", "load"} =>
            (Top(m).fn = "Populate" /\ Instr(m)[2] = "a") \/ IsSet(s, Top(m).pc, Instr(m)[2])
      /\ Instr(m)[1] = "init_Node" => IsSet(s, Top(m).pc, "a") /\ IsSet(s, Top(m).pc, "b")
      /\ Instr(m)[1] = "load" => Top(m).fn = "Populate"
    BY <1>5, <1>6 DEF SetBeforeUse
<1>9. Top(m).a \in Pointer /\ Top(m).b \in Pointer
    BY <1>2 DEF Frame
<1>10. Instr(m)[1] \in {"store", "load"} => Top(m)[Instr(m)[2]] \in Object
    BY <1>2, <1>7, <1>8, <1>9 DEF Local, Pointer
<1>11. NeedsRet(Instr(m)) => ret[m] # Null
    BY <1>4, <1>8 DEF s
<1>12. QED
    BY <1>1, <1>4, <1>7, <1>8, <1>10, <1>11

\* A step of m to its next instruction, with g for its top frame.
LEMMA PointersAdvance ==
    ASSUME TypeOK, FramesInv, PointersInv, NEW m \in Mutator,
           Instr(m)[1] \notin {"return", "exit"},
           NEW g \in Frame, g.fn = Top(m).fn, g.d = Top(m).d, g.pc = Top(m).pc,
           Advance(m, g), sp' = sp, program' = program,
           NullFree(memory, memory'),
           \A n \in Mutator \ {m} : ret'[n] = ret[n],
           ret[m] # Null \/ Gives(Instr(m)) => ret'[m] # Null,
           (g.a = Top(m).a /\ Instr(m) # Save("a")) \/ g.a # Null,
           (g.b = Top(m).b /\ Instr(m) # Save("b")) \/ g.b # Null,
           \A j \in DOMAIN g.vec : g.vec[j] # Null,
           Top(m).fn = "Populate" =>
             /\ g.a = Top(m).a
             /\ Top(m).pc = 2 => Stored(program, memory', Top(m).a, "left")
             /\ Top(m).pc = 4 => Stored(program, memory', Top(m).a, "right")
    PROVE  PointersInv'
<1>1. /\ \A n \in Mutator \ {m} : stack'[n] = stack[n]
      /\ \A k \in 1 .. MaxFrames :
            stack'[m][k] = IF k = sp[m] THEN [g EXCEPT !.pc = @ + 1] ELSE stack[m][k]
    BY StackAdvance
<1>2. PICK f \in Frame : f = Top(m)
    BY InstrFacts
<1>3. /\ f.pc \in Nat \ {0} /\ sp[m] \in Nat \ {0} /\ sp[m] \in 1 .. MaxFrames
      /\ Instr(m) = Text[<<f.fn, f.d>>][f.pc]
    <2>1. f.pc \in 1 .. Len(Text[<<f.fn, f.d>>]) /\ f.pc \in Nat
        BY <1>2, InstrFacts DEF Frame
    <2>2. sp[m] \in 1 .. MaxFrames
        BY DEF TypeOK
    <2>3. QED
        BY <1>2, <2>1, <2>2, BoundFacts DEF Instr
<1> DEFINE G == [g EXCEPT !.pc = @ + 1]
<1>4. /\ G \in Frame /\ G.fn = g.fn /\ G.d = g.d /\ G.pc = g.pc + 1
      /\ G.a = g.a /\ G.b = g.b /\ G.vec = g.vec
    BY DEF Frame
<1>5. stack'[m][sp[m]] = G /\ stack[m][sp[m]] = f
    BY <1>1, <1>2, <1>3 DEF Top
<1>6. \A k \in 1 .. sp[m] - 1 : stack'[m][k] = stack[m][k]
    <2>1. \A k \in 1 .. sp[m] - 1 : k \in 1 .. MaxFrames /\ k # sp[m]
        BY <1>3, BoundFacts
    <2>2. QED
        BY <1>1, <2>1
<1> HIDE DEF G
<1>7. /\ ThreadSet(program, memory, stack[m], sp[m], ret[m])
      /\ FrameSet(program, memory, f)
    BY <1>2, InstrSets
<1>8. FrameSet(program, memory', G)
    BY <1>2, <1>3, <1>4, <1>7, FrameSetAdvance
<1>9. ThreadSet(program, memory', stack'[m], sp[m], ret'[m])
    <2> DEFINE T == stack[m]
               T2 == stack'[m]
               s == sp[m]
               r == ret[m]
               r2 == ret'[m]
    <2>1. s \in Nat \ {0} /\ ThreadSet(program, memory, T, s, r) /\ (r # Null => r2 # Null)
        BY <1>3, <1>7
    <2>2. /\ \A k \in 1 .. s - 1 : T2[k] = T[k]
          /\ T[s].pc \in Nat \ {0} /\ FrameSet(program, memory', T2[s])
          /\ T2[s].fn = T[s].fn /\ T2[s].d = T[s].d /\ T2[s].pc = T[s].pc + 1
          /\ Gives(Text[<<T[s].fn, T[s].d>>][T[s].pc]) => r2 # Null
        BY <1>2, <1>3, <1>4, <1>5, <1>6, <1>8
    <2> HIDE DEF T, T2, s, r, r2
    <2>3. ThreadSet(program, memory', T2, s, r2)
        BY <2>1, <2>2, ThreadSetAdvance
    <2>4. QED
        BY <2>3 DEF T2, s, r2
<1>10. ASSUME NEW n \in Mutator \ {m}
       PROVE  ThreadSet(program, memory', stack'[n], sp[n], ret'[n])
    <2>1. ThreadSet(program, memory, stack[n], sp[n], ret[n])
        BY DEF PointersInv
    <2>2. QED
        BY <1>1, <2>1, ThreadSetKept
<1>11. QED
    BY <1>9, <1>10 DEF PointersInv

\* A step that changes neither the stacks nor the memory.
LEMMA PointersKept ==
    ASSUME PointersInv, UNCHANGED <<program, memory, stack, sp, ret>>
    PROVE  PointersInv'
BY DEF PointersInv

\* The same, with the top frame as it was and no field of Populate to store.
LEMMA PointersPass ==
    ASSUME TypeOK, FramesInv, PointersInv, NEW m \in Mutator,
           Instr(m)[1] \notin {"return", "exit", "save", "store"},
           Advance(m, Top(m)), sp' = sp, program' = program,
           NullFree(memory, memory'),
           \A n \in Mutator \ {m} : ret'[n] = ret[n],
           ret[m] # Null \/ Gives(Instr(m)) => ret'[m] # Null
    PROVE  PointersInv'
<1>1. PICK f \in Frame : f = Top(m)
    BY InstrFacts
<1>2. Instr(m) # Save("a") /\ Instr(m) # Save("b")
    BY DEF Save
<1>3. \A j \in DOMAIN f.vec : f.vec[j] # Null
    BY <1>1, InstrSets
<1>4. f.fn = "Populate" => f.pc # 2 /\ f.pc # 4
    <2>1. /\ <<f.fn, f.d>> \in Function /\ f.pc \in 1 .. Len(Text[<<f.fn, f.d>>])
          /\ Instr(m) = Text[<<f.fn, f.d>>][f.pc]
        BY <1>1, InstrFacts DEF Instr
    <2>2. QED
        BY <2>1, PopulateText DEF Store
<1>5. QED
    BY <1>1, <1>2, <1>3, <1>4, PointersAdvance

LEMMA SavePointers ==
    ASSUME TypeOK, FramesInv, PointersInv, NEW m \in Mutator, Instr(m)[1] = "save",
           Advance(m, [Top(m) EXCEPT ![Instr(m)[2]] = ret[m]]),
           UNCHANGED <<program, sp, ret, memory>>
    PROVE  PointersInv'
<1>1. PICK f \in Frame : f = Top(m)
    BY InstrFacts
<1>2. /\ <<f.fn, f.d>> \in Function /\ f.pc \in 1 .. Len(Text[<<f.fn, f.d>>])
      /\ Instr(m) = Text[<<f.fn, f.d>>][f.pc]
      /\ Instr(m)[2] \in Local /\ ret[m] \in Pointer
    BY <1>1, InstrFacts DEF Instr, TypeOK
<1>3. ret[m] # Null /\ \A j \in DOMAIN f.vec : f.vec[j] # Null
    BY <1>1, InstrSets DEF NeedsRet
<1>4. f.fn # "Populate"
    BY <1>2, PopulateText
<1> DEFINE g == [f EXCEPT ![Instr(m)[2]] = ret[m]]
<1>5. /\ g \in Frame /\ g.fn = f.fn /\ g.d = f.d /\ g.pc = f.pc /\ g.vec = f.vec
      /\ IF Instr(m)[2] = "a" THEN g.a = ret[m] ELSE g.a = f.a
      /\ IF Instr(m)[2] = "b" THEN g.b = ret[m] ELSE g.b = f.b
    BY <1>2 DEF Frame, Local
<1>6. Advance(m, g)
    BY <1>1
<1> HIDE DEF g
<1>7. /\ (g.a = f.a /\ Instr(m) # Save("a")) \/ g.a # Null
      /\ (g.b = f.b /\ Instr(m) # Save("b")) \/ g.b # Null
    BY <1>3, <1>5 DEF Save
<1>8. NullFree(memory, memory') /\ ~ Gives(Instr(m))
    BY DEF NullFree, Gives
<1>9. QED
    BY <1>1, <1>3, <1>4, <1>5, <1>6, <1>7, <1>8, PointersAdvance

LEMMA StorePointers ==
    ASSUME TypeOK, FramesInv, PointersInv, NEW m \in Mutator, Instr(m)[1] = "store",
           memory' = [memory EXCEPT ![Index(Top(m)[Instr(m)[2]] + Field(Instr(m)[3]))] = ret[m]],
           Advance(m, Top(m)), UNCHANGED <<program, sp, ret>>
    PROVE  PointersInv'
<1>1. PICK f \in Frame : f = Top(m)
    BY InstrFacts
<1>2. PICK i : i = Instr(m)
    OBVIOUS
<1>3. /\ <<f.fn, f.d>> \in Function /\ f.pc \in 1 .. Len(Text[<<f.fn, f.d>>])
      /\ i = Text[<<f.fn, f.d>>][f.pc]
      /\ i[2] \in Local /\ i[3] \in FieldNames
      /\ program \in Programs /\ memory \in [Word -> Pointer]
    BY <1>1, <1>2, InstrFacts DEF Instr, TypeOK
<1>4. /\ ret[m] # Null /\ f[i[2]] \in Object
      /\ \A j \in DOMAIN f.vec : f.vec[j] # Null
    BY <1>1, <1>2, InstrSets DEF NeedsRet
<1> DEFINE w == Index(f[i[2]] + Layout(program)[i[3]])
<1>5. w \in Word
    BY <1>3, <1>4, FieldWord
<1>6. memory' = [memory EXCEPT ![w] = ret[m]]
    BY <1>1, <1>2 DEF Field
<1>7. f.fn = "Populate" =>
        /\ f.pc = 2 => i[2] = "a" /\ i[3] = "left"
        /\ f.pc = 4 => i[2] = "a" /\ i[3] = "right"
    BY <1>3, PopulateText DEF Store
<1>8. Stored(program, memory', f[i[2]], i[3])
    <2> HIDE DEF w
    <2>1. memory'[w] # Null
        BY <1>3, <1>4, <1>5, <1>6
    <2>2. QED
        BY <1>5, <2>1 DEF Stored, w
<1>9. NullFree(memory, memory')
    <2> HIDE DEF w
    <2>1. \A v \in Word : memory'[v] \in {memory[v], ret[m]}
        BY <1>3, <1>6
    <2>2. QED
        BY <1>4, <2>1 DEF NullFree
<1>10. i # Save("a") /\ i # Save("b") /\ ~ Gives(i)
    BY <1>2 DEF Save, Gives
<1>11. f.fn = "Populate" =>
        /\ f.pc = 2 => Stored(program, memory', f.a, "left")
        /\ f.pc = 4 => Stored(program, memory', f.a, "right")
    BY <1>7, <1>8
<1>12. QED
    BY <1>1, <1>2, <1>4, <1>9, <1>10, <1>11, PointersAdvance

LEMMA LoadPointers ==
    ASSUME TypeOK, FramesInv, PointersInv, NEW m \in Mutator, Instr(m)[1] = "load",
           ret' = [ret EXCEPT ![m] = Peek(Index(Top(m)[Instr(m)[2]] + Field(Instr(m)[3])))],
           Advance(m, Top(m)), UNCHANGED <<program, sp, memory>>
    PROVE  PointersInv'
<1>1. PICK f \in Frame : f = Top(m)
    BY InstrFacts
<1>2. PICK i : i = Instr(m)
    OBVIOUS
<1>3. /\ <<f.fn, f.d>> \in Function /\ f.pc \in 1 .. Len(Text[<<f.fn, f.d>>])
      /\ i = Text[<<f.fn, f.d>>][f.pc] /\ f.fn = "Populate"
    BY <1>1, <1>2, InstrFacts, InstrSets DEF Instr
<1>4. \/ i[2] = "a" /\ i[3] = "left" /\ f.pc > 2
      \/ i[2] = "a" /\ i[3] = "right" /\ f.pc > 4
    BY <1>2, <1>3, PopulateText DEF Load
<1>5. Stored(program, memory, f[i[2]], i[3])
    <2>1. FrameSet(program, memory, f)
        BY <1>1, InstrSets
    <2>2. /\ f.pc > 2 => Stored(program, memory, f.a, "left")
          /\ f.pc > 4 => Stored(program, memory, f.a, "right")
        BY <1>3, <2>1 DEF FrameSet
    <2>3. QED
        BY <1>4, <2>2
<1> DEFINE v == Peek(Index(f[i[2]] + Field(i[3])))
<1>6. v # Null
    BY <1>5 DEF Stored, Peek, Field
<1>7. ret' = [ret EXCEPT ![m] = v] /\ ret \in [Mutator -> Pointer]
    BY <1>1, <1>2 DEF TypeOK
<1> HIDE DEF v
<1>8. ret'[m] # Null /\ \A n \in Mutator \ {m} : ret'[n] = ret[n]
    BY <1>6, <1>7
<1>9. NullFree(memory, memory')
    BY DEF NullFree
<1>10. QED
    BY <1>8, <1>9, PointersPass

LEMMA InitNodePointers ==
    ASSUME TypeOK, FramesInv, PointersInv, NEW m \in Mutator, Instr(m)[1] = "init_Node",
           NEW u, NEW v, memory' = [memory EXCEPT ![u] = Top(m).a, ![v] = Top(m).b],
           Advance(m, Top(m)), UNCHANGED <<program, sp, ret>>
    PROVE  PointersInv'
<1>1. Top(m).a # Null /\ Top(m).b # Null
    BY InstrSets
<1>2. memory \in [Word -> Pointer]
    BY DEF TypeOK
<1>3. \A w \in Word : memory'[w] \in {memory[w], Top(m).a, Top(m).b}
    BY <1>2
<1>4. NullFree(memory, memory')
    BY <1>1, <1>3 DEF NullFree
<1>5. ~ Gives(Instr(m))
    BY DEF Gives
<1>6. QED
    BY <1>4, <1>5, PointersPass

\* push and fill: the Vec is replaced.
LEMMA VecPointers ==
    ASSUME TypeOK, FramesInv, PointersInv, NEW m \in Mutator,
           Instr(m)[1] \in {"push", "fill"},
           NEW vec \in Seq(Pointer), \A j \in DOMAIN vec : vec[j] # Null,
           NullFree(memory, memory'),
           Advance(m, [Top(m) EXCEPT !.vec = vec]), UNCHANGED <<program, sp, ret>>
    PROVE  PointersInv'
<1>1. PICK f \in Frame : f = Top(m)
    BY InstrFacts
<1>2. /\ <<f.fn, f.d>> \in Function /\ f.pc \in 1 .. Len(Text[<<f.fn, f.d>>])
      /\ Instr(m) = Text[<<f.fn, f.d>>][f.pc]
    BY <1>1, InstrFacts DEF Instr
<1>3. f.fn # "Populate"
    BY <1>2, PopulateText
<1> DEFINE g == [f EXCEPT !.vec = vec]
<1>4. /\ g \in Frame /\ g.fn = f.fn /\ g.d = f.d /\ g.pc = f.pc /\ g.vec = vec
      /\ g.a = f.a /\ g.b = f.b
    BY DEF Frame
<1>5. Advance(m, g)
    BY <1>1
<1> HIDE DEF g
<1>6. Instr(m) # Save("a") /\ Instr(m) # Save("b") /\ ~ Gives(Instr(m))
    BY DEF Save, Gives
<1>7. QED
    BY <1>1, <1>3, <1>4, <1>5, <1>6, PointersAdvance

LEMMA ComputePointers ==
    ASSUME ScanInv, PointersInv, NEW m \in Mutator, Compute(m)
    PROVE  PointersInv'
<1> DEFINE f == Top(m)
           i == Instr(m)
           word(x, field) == Index(x + Field(field))
<1>1. TypeOK /\ FramesInv
    BY DEF ScanInv
<1>2. f \in Frame /\ f.vec \in Seq(Pointer) /\ ret[m] \in Pointer
    BY <1>1, InstrFacts DEF TypeOK, Frame
<1>3. UNCHANGED <<sp, program>>
    BY DEF Compute, Quiet
<1>4. \A op : At(m, op) => i[1] = op
    BY DEF At
<1>5. /\ NeedsRet(i) => ret[m] # Null
      /\ \A j \in DOMAIN f.vec : f.vec[j] # Null
    BY <1>1, InstrSets
<1>6. ASSUME At(m, "save"), Advance(m, [f EXCEPT ![i[2]] = ret[m]]), UNCHANGED <<ret, memory>>
      PROVE  PointersInv'
    BY <1>1, <1>3, <1>4, <1>6, SavePointers
<1>7. ASSUME At(m, "use"), Advance(m, f), UNCHANGED <<ret, memory>>
      PROVE  PointersInv'
    <2>1. NullFree(memory, memory') /\ i[1] = "use" /\ ~ Gives(i)
        BY <1>4, <1>7 DEF NullFree, Gives
    <2>2. QED
        BY <1>1, <1>3, <1>7, <2>1, PointersPass
<1>8. ASSUME At(m, "store"), memory' = [memory EXCEPT ![word(f[i[2]], i[3])] = ret[m]],
             Advance(m, f), UNCHANGED ret
      PROVE  PointersInv'
    BY <1>1, <1>3, <1>4, <1>8, StorePointers
<1>9. ASSUME At(m, "load"), ret' = [ret EXCEPT ![m] = Peek(word(f[i[2]], i[3]))],
             Advance(m, f), UNCHANGED memory
      PROVE  PointersInv'
    BY <1>1, <1>3, <1>4, <1>9, LoadPointers
<1>10. ASSUME At(m, "init_Node"),
              memory' = [memory EXCEPT ![word(ret[m], "left")] = f.a,
                                       ![word(ret[m], "right")] = f.b],
              Advance(m, f), UNCHANGED ret
       PROVE  PointersInv'
    BY <1>1, <1>3, <1>4, <1>10, InitNodePointers
<1>11. ASSUME At(m, "push"), Advance(m, [f EXCEPT !.vec = Append(@, ret[m])]),
              UNCHANGED <<ret, memory>>
       PROVE  PointersInv'
    <2> DEFINE vec == Append(f.vec, ret[m])
    <2>1. NullFree(memory, memory') /\ i[1] = "push" /\ ret[m] # Null
        BY <1>4, <1>5, <1>11 DEF NullFree, NeedsRet
    <2> HIDE DEF f
    <2>2. /\ vec \in Seq(Pointer)
          /\ \A j \in DOMAIN vec : vec[j] = ret[m] \/ (j \in DOMAIN f.vec /\ vec[j] = f.vec[j])
        BY <1>2
    <2>3. Advance(m, [Top(m) EXCEPT !.vec = vec])
        BY <1>11 DEF f
    <2> HIDE DEF vec
    <2>4. \A j \in DOMAIN vec : vec[j] # Null
        BY <1>5, <2>1, <2>2
    <2>5. QED
        BY <1>1, <1>3, <1>11, <2>1, <2>2, <2>3, <2>4, VecPointers
<1>12. ASSUME At(m, "fill"),
              memory' = [w \in Word |->
                    LET n == w - Index(ret[m]) IN
                    IF n \in 0 .. Len(f.vec) - 1 THEN f.vec[Len(f.vec) - n]
                    ELSE memory[w]],
              Advance(m, [f EXCEPT !.vec = <<>>]), UNCHANGED ret
       PROVE  PointersInv'
    <2> DEFINE none == <<>>
    <2>1. none \in Seq(Pointer) /\ DOMAIN none = {} /\ Advance(m, [Top(m) EXCEPT !.vec = none])
        BY <1>12
    <2> HIDE DEF none, f
    <2>2. \A n \in 0 .. Len(f.vec) - 1 : Len(f.vec) - n \in DOMAIN f.vec
        BY <1>2
    <2>3. \A n \in 0 .. Len(f.vec) - 1 : f.vec[Len(f.vec) - n] # Null
        BY <1>5, <2>2
    <2>4. NullFree(memory, memory')
        BY <1>12, <2>3 DEF NullFree
    <2>5. i[1] = "fill" /\ \A j \in DOMAIN none : none[j] # Null
        BY <1>4, <1>12, <2>1
    <2>6. QED
        BY <1>1, <1>3, <1>12, <2>1, <2>4, <2>5, VecPointers
<1>13. QED
    BY <1>6, <1>7, <1>8, <1>9, <1>10, <1>11, <1>12 DEF Compute

LEMMA CallPointers ==
    ASSUME TypeOK, FramesInv, PointersInv, NEW m \in Mutator, CallReturn(m),
           Instr(m)[1] = "call"
    PROVE  PointersInv'
<1>1. PICK c \in Frame, g \in Frame :
          /\ c.fn = Top(m).fn /\ c.d = Top(m).d /\ c.pc = Top(m).pc + 1
          /\ c.a = Top(m).a /\ c.b = Top(m).b /\ c.vec = Top(m).vec
          /\ g.fn = Instr(m)[2] /\ g.d = Instr(m)[3] /\ g.pc = 1
          /\ g.a \in {stack[m][sp[m] + 1].a, ret[m]} /\ g.b = stack[m][sp[m] + 1].b
          /\ Instr(m)[2] = "Populate" => g.a = ret[m]
          /\ DOMAIN g.vec = {}
          /\ \A k \in 1 .. MaxFrames :
                stack'[m][k] = IF k = sp[m] THEN c ELSE IF k = sp[m] + 1 THEN g
                               ELSE stack[m][k]
          /\ sp[m] \in Nat /\ sp[m] + 1 \in 1 .. MaxFrames /\ sp'[m] = sp[m] + 1
          /\ stack' \in [Mutator -> [1 .. MaxFrames -> Frame]]
          /\ sp' \in [Mutator -> 1 .. MaxFrames]
          /\ FramesInv'
          /\ \A n \in Mutator \ {m} : stack'[n] = stack[n] /\ sp'[n] = sp[n]
          /\ stack'[m][1].pc = IF sp[m] = 1 THEN stack[m][1].pc + 1 ELSE stack[m][1].pc
    BY CallShape
<1>2. UNCHANGED <<program, memory, ret>>
    BY DEF CallReturn, Quiet
<1>3. PICK f \in Frame : f = Top(m)
    BY InstrFacts
<1>4. /\ f.pc \in 1 .. Len(Text[<<f.fn, f.d>>]) /\ f.pc \in Nat
      /\ <<f.fn, f.d>> \in Function
      /\ Instr(m) = Text[<<f.fn, f.d>>][f.pc]
      /\ sp[m] \in 1 .. MaxFrames
    BY <1>3, InstrFacts DEF Instr, Frame
<1>5. /\ ThreadSet(program, memory, stack[m], sp[m], ret[m])
      /\ FrameSet(program, memory, f)
      /\ Instr(m)[2] \in WithArgument => ret[m] # Null
      /\ \A j \in DOMAIN f.vec : f.vec[j] # Null
    BY <1>3, InstrSets DEF NeedsRet
<1>6. FrameSet(program, memory, c)
    <2>1. NullFree(memory, memory) /\ f.pc \in Nat \ {0}
        BY <1>4 DEF NullFree
    <2>2. Instr(m) # Save("a") /\ Instr(m) # Save("b")
        BY DEF Save
    <2>3. f.fn = "Populate" => f.pc # 2 /\ f.pc # 4
        BY <1>4, PopulateText DEF Store
    <2>4. /\ c.fn = f.fn /\ c.d = f.d /\ c.pc = f.pc + 1
          /\ c.a = f.a /\ Text[<<f.fn, f.d>>][f.pc] # Save("a")
          /\ c.b = f.b /\ Text[<<f.fn, f.d>>][f.pc] # Save("b")
          /\ \A j \in DOMAIN c.vec : c.vec[j] # Null
        BY <1>1, <1>3, <1>4, <1>5, <2>2
    <2>5. QED
        BY <1>5, <2>1, <2>3, <2>4, FrameSetAdvance
<1>7. FrameSet(program, memory, g) /\ (g.fn \in WithArgument => ret[m] # Null)
    <2>1. /\ ~ IsSet(Text[<<g.fn, g.d>>], g.pc, "a") /\ ~ IsSet(Text[<<g.fn, g.d>>], g.pc, "b")
          /\ ~ g.pc > 2 /\ ~ g.pc > 4
        BY <1>1, FirstInstruction
    <2>2. QED
        BY <1>1, <1>5, <2>1 DEF FrameSet, WithArgument
<1>8. ~ Given(Text[<<g.fn, g.d>>], g.pc)
    BY <1>1, FirstInstruction
<1>9. ASSUME NEW k \in 1 .. sp[m] + 1
      PROVE  /\ FrameSet(program, memory, stack'[m][k])
             /\ stack'[m][k].fn \in WithArgument => ret[m] # Null
    <2>1. k \in 1 .. MaxFrames /\ (k \notin {sp[m], sp[m] + 1} => k \in 1 .. sp[m])
        BY <1>1, BoundFacts
    <2>2. CASE k = sp[m] + 1
        <3>1. stack'[m][k] = g
            BY <1>1, <2>1, <2>2
        <3>2. QED
            BY <1>7, <3>1
    <2>3. CASE k = sp[m]
        <3>1. stack'[m][k] = c /\ stack[m][k] = f /\ k \in 1 .. sp[m]
            BY <1>1, <1>3, <2>1, <2>3 DEF Top
        <3>2. f.fn \in WithArgument => ret[m] # Null
            BY <1>5, <3>1 DEF ThreadSet
        <3>3. QED
            BY <1>1, <1>3, <1>6, <3>1, <3>2
    <2>4. CASE k \notin {sp[m], sp[m] + 1}
        <3>1. stack'[m][k] = stack[m][k] /\ k \in 1 .. sp[m]
            BY <1>1, <2>1, <2>4
        <3>2. QED
            BY <1>5, <3>1 DEF ThreadSet
    <2>5. QED
        BY <2>2, <2>3, <2>4
<1>10. stack'[m][sp[m] + 1] = g
    BY <1>1
<1>11. ThreadSet(program, memory, stack'[m], sp[m] + 1, ret[m])
    BY <1>8, <1>9, <1>10 DEF ThreadSet
<1>12. \A n \in Mutator : ThreadSet(program, memory, stack'[n], sp'[n], ret[n])
    BY <1>1, <1>11 DEF PointersInv
<1>13. QED
    BY <1>2, <1>12 DEF PointersInv

LEMMA ReturnPointers ==
    ASSUME TypeOK, FramesInv, PointersInv, NEW m \in Mutator, CallReturn(m),
           Instr(m)[1] = "return"
    PROVE  PointersInv'
<1>1. /\ sp' = [sp EXCEPT ![m] = @ - 1] /\ UNCHANGED <<program, memory, ret, stack>>
    BY DEF CallReturn, Quiet, At
<1>2. sp \in [Mutator -> 1 .. MaxFrames]
    BY DEF TypeOK
<1>3. ret[m] # Null /\ ThreadSet(program, memory, stack[m], sp[m], ret[m])
    BY InstrSets DEF NeedsRet
<1>4. 1 .. sp[m] - 1 \subseteq 1 .. sp[m]
    BY <1>2, BoundFacts
<1>5. ThreadSet(program, memory, stack[m], sp[m] - 1, ret[m])
    BY <1>3, <1>4 DEF ThreadSet
<1>6. \A n \in Mutator : sp'[n] = IF n = m THEN sp[m] - 1 ELSE sp[n]
    BY <1>1, <1>2
<1>7. \A n \in Mutator : ThreadSet(program, memory, stack[n], sp'[n], ret[n])
    BY <1>5, <1>6 DEF PointersInv
<1>8. QED
    BY <1>1, <1>7 DEF PointersInv

LEMMA AllocPointers ==
    ASSUME ScanInv, PointersInv, NEW m \in Mutator, AllocFast(m)
    PROVE  PointersInv'
<1>1. TypeOK /\ FramesInv /\ BumpInv
    BY DEF ScanInv
<1>2. /\ UNCHANGED <<program, sp, memory>> /\ ret' = [ret EXCEPT ![m] = cursor[m]]
      /\ Advance(m, Top(m)) /\ Fits(m) /\ Instr(m)[1] \in {"alloc", "alloc_raw"}
    BY DEF AllocFast, At
<1>3. cursor[m] # Null
    BY <1>1, <1>2, FitsObject, ObjectFacts DEF TypeOK
<1>4. ret'[m] # Null /\ \A n \in Mutator \ {m} : ret'[n] = ret[n]
    BY <1>1, <1>2, <1>3 DEF TypeOK
<1>5. NullFree(memory, memory')
    BY <1>2 DEF NullFree
<1>6. QED
    BY <1>1, <1>2, <1>4, <1>5, PointersPass

\* The steps that only go on to the next instruction.
LEMMA QuietPointers ==
    ASSUME ScanInv, PointersInv, NEW m \in Mutator,
           \/ set_low_water_mark(m) \/ InitLoop(m) \/ NewMutator(m) \/ DestroyMutator(m)
    PROVE  PointersInv'
<1>1. TypeOK /\ FramesInv
    BY DEF ScanInv
<1>2. /\ UNCHANGED <<program, sp, memory, ret>> /\ Advance(m, Top(m))
      /\ Instr(m)[1] \in {"set_low_water_mark", "init_vec", "new", "destroy"}
    BY DEF set_low_water_mark, InitLoop, NewMutator, DestroyMutator, Quiet, At
<1>3. NullFree(memory, memory') /\ ~ Gives(Instr(m))
    BY <1>2 DEF NullFree, Gives
<1>4. QED
    BY <1>1, <1>2, <1>3, PointersPass

LEMMA PointersStep ==
    ASSUME ScanInv, PointersInv, [Next]_vars
    PROVE  PointersInv'
<1>1. TypeOK /\ FramesInv
    BY DEF ScanInv
<1>2. ASSUME NEW m \in Mutator, CallReturn(m) PROVE PointersInv'
    <2>1. Instr(m)[1] \in {"call", "return"}
        BY <1>2 DEF CallReturn, At
    <2>2. QED
        BY <1>1, <1>2, <2>1, CallPointers, ReturnPointers
<1>3. ASSUME NEW m \in Mutator, TakeHole(m) \/ TriggerGC(m) \/ EnterBarrier(m) \/ StartGC(m)
      PROVE  PointersInv'
    <2>1. UNCHANGED <<program, memory, stack, sp, ret>>
        BY <1>3 DEF TakeHole, TriggerGC, EnterBarrier, StartGC, thread
    <2>2. QED
        BY <2>1, PointersKept
<1>4. ASSUME TraceRound \/ SweepAndFlip \/ Resume \/ UNCHANGED vars PROVE PointersInv'
    <2>1. UNCHANGED <<program, memory, stack, sp, ret>>
        BY <1>4 DEF TraceRound, SweepAndFlip, Resume, thread, vars
    <2>2. QED
        BY <2>1, PointersKept
<1>5. QED
    BY <1>2, <1>3, <1>4, ComputePointers, AllocPointers, QuietPointers DEF Next, ThreadStep

LEMMA PointersInit == Init => PointersInv
<1> SUFFICES ASSUME Init PROVE PointersInv
    OBVIOUS
<1>1. /\ program \in Program /\ sp = [m \in Mutator |-> 1]
      /\ stack = [m \in Mutator |-> [k \in 1 .. MaxFrames |-> NewFrame]]
    BY ScanAssumption DEF Init
<1>2. PICK f : f = NewFrame
    OBVIOUS
<1>3. f.fn = program /\ f.pc = 1 /\ DOMAIN f.vec = {}
    BY <1>2 DEF NewFrame
<1>4. f.fn # "Populate" /\ f.fn \notin WithArgument
    BY <1>1, <1>3 DEF Program, WithArgument
<1>5. \A x : ~ IsSet(Text[<<f.fn, f.d>>], f.pc, x) /\ ~ Given(Text[<<f.fn, f.d>>], f.pc)
    BY <1>3, FirstInstruction
<1>6. FrameSet(program, memory, f)
    BY <1>3, <1>4, <1>5 DEF FrameSet
<1>7. ASSUME NEW m \in Mutator PROVE ThreadSet(program, memory, stack[m], sp[m], ret[m])
    <2>1. sp[m] = 1 /\ stack[m][1] = f /\ 1 .. 1 = {1}
        BY <1>1, <1>2, BoundFacts
    <2>2. QED
        BY <1>4, <1>5, <1>6, <2>1 DEF ThreadSet
<1>8. QED
    BY <1>7 DEF PointersInv

\* Whatever collections free too early and other threads write, no benchmark
\* follows a null pointer or leaves the space: PointersInv says where pointers
\* are known to have been set, and TextSets that none is used before.
THEOREM BenchmarksDereferenceObjects == Spec => []DereferencesObjects
<1>1. Init => PointersInv
    BY PointersInit
<1>2. ScanInv /\ PointersInv /\ [Next]_vars => PointersInv'
    BY PointersStep
<1>3. ScanInv /\ PointersInv => DereferencesObjects
    <2> SUFFICES ASSUME ScanInv, PointersInv, NEW m \in Threads(program)
                 PROVE  /\ At(m, "store") \/ At(m, "load") => Top(m)[Instr(m)[2]] \in Object
                        /\ At(m, "init_Node") \/ At(m, "fill") => ret[m] \in Object
        BY DEF DereferencesObjects
    <2>1. m \in Mutator /\ TypeOK /\ FramesInv
        BY ScanAssumption DEF Threads, ScanInv
    <2>2. ret[m] \in Pointer
        BY <2>1 DEF TypeOK
    <2>3. QED
        BY <2>1, <2>2, InstrSets DEF At, NeedsRet, Pointer
<1>4. QED
    BY <1>1, <1>2, <1>3, ScanInvariant, PTL DEF Spec
===============================================================================
