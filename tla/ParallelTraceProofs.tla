------------------------ MODULE ParallelTraceProofs ------------------------
(***************************************************************************)
(* Proofs about ParallelTrace, for any heap, any number of workers and any *)
(* number of collections.                                                  *)
(***************************************************************************)
EXTENDS ParallelTrace, FiniteSetTheorems, TLAPS

\* Counting workers.
LEMMA WorkerSets ==
    /\ Cardinality(Worker) = CPUS
    /\ \A S \in SUBSET Worker :
        /\ Cardinality(S) \in 0 .. CPUS
        /\ Cardinality(S) = 0 <=> S = {}
        /\ \A w \in Worker \ S : Cardinality(S \cup {w}) = Cardinality(S) + 1
        /\ \A w \in S : Cardinality(S \ {w}) = Cardinality(S) - 1
<1>1. IsFiniteSet(Worker) /\ Cardinality(Worker) = CPUS
  <2>1. 1 \in Int /\ CPUS \in Int /\ CPUS >= 1
    BY TraceAssumption
  <2>2. IsFiniteSet(1 .. CPUS) /\ Cardinality(1 .. CPUS) = CPUS - 1 + 1
    BY <2>1, FS_Interval
  <2>. QED  BY <2>1, <2>2 DEF Worker
<1>2. ASSUME NEW S \in SUBSET Worker
      PROVE  /\ IsFiniteSet(S)
             /\ Cardinality(S) \in 0 .. CPUS
             /\ Cardinality(S) = 0 <=> S = {}
  <2>1. IsFiniteSet(S) /\ Cardinality(S) <= CPUS
    BY <1>1, FS_Subset
  <2>2. Cardinality(S) \in Nat /\ (Cardinality(S) = 0 <=> S = {})
    BY <2>1, FS_CardinalityType, FS_EmptySet
  <2>3. CPUS \in Nat
    BY TraceAssumption
  <2>. QED  BY <2>1, <2>2, <2>3
<1>3. ASSUME NEW S \in SUBSET Worker, NEW w \in Worker \ S
      PROVE  Cardinality(S \cup {w}) = Cardinality(S) + 1
  BY <1>2, FS_AddElement
<1>4. ASSUME NEW S \in SUBSET Worker, NEW w \in S
      PROVE  Cardinality(S \ {w}) = Cardinality(S) - 1
  BY <1>2, FS_RemoveElement
<1>. QED  BY <1>1, <1>2, <1>3, <1>4

(***************************************************************************)
(* Termination detection.                                                  *)
(***************************************************************************)
\* What the steps are shown to preserve.
TInv == TypeOK /\ TerminationInv

\* TraceMap::new, before the first collection: nobody is counted, no queue exists.
LEMMA TraceInit == Init => TInv
<1>. SUFFICES ASSUME Init PROVE TInv
  OBVIOUS
<1>. USE TraceAssumption
<1>1. Active = {} /\ Cardinality({}) = 0
  BY FS_EmptySet DEF Init, Active, Working, At
<1>2. TypeOK
  BY DEF Init, TypeOK, EmptyQueue
<1>3. ActiveInv
  BY <1>1 DEF Init, ActiveInv
<1>4. QueueInv /\ InjectorInv /\ ReturnInv /\ IdleInv
  BY DEF Init, QueueInv, InjectorInv, ReturnInv, IdleInv, IsEmpty, EmptyQueue, At
<1>. QED  BY <1>2, <1>3, <1>4 DEF TInv, TerminationInv

\* StartTrace: everybody is counted, and no queue but the injector has anything.
LEMMA StartStep == TInv /\ StartTrace => TInv'
<1>. SUFFICES ASSUME TInv, StartTrace PROVE TInv'
  OBVIOUS
<1>. USE TraceAssumption DEF TInv, TerminationInv
<1>1. TypeOK'
  BY DEF TypeOK, StartTrace, SpawnWorkers, map
<1>2. ActiveInv'
  <2>1. Active' = Worker /\ active_threads' = CPUS
    BY DEF StartTrace, SpawnWorkers, Active, Working, At
  <2>. QED  BY <2>1, WorkerSets DEF ActiveInv
<1>3. QueueInv' /\ ReturnInv' /\ IdleInv'
  BY DEF StartTrace, SpawnWorkers, QueueInv, ReturnInv, IdleInv, At
<1>4. InjectorInv'
  <2>1. Working' = Worker /\ 1 \in Worker
    BY DEF StartTrace, SpawnWorkers, Working, Worker
  <2>. QED  BY <2>1 DEF InjectorInv
<1>. QED  BY <1>1, <1>2, <1>3, <1>4

\* The joins and what happens between two collections move no worker.
LEMMA MainSteps == TInv /\ (JoinAll \/ JoinPanicked \/ FlipMarkState) => TInv'
<1>. SUFFICES ASSUME TInv, JoinAll \/ JoinPanicked \/ FlipMarkState PROVE TInv'
  OBVIOUS
<1>. USE TraceAssumption DEF TInv, TerminationInv
<1>1. UNCHANGED <<shared, worker>>
  BY DEF JoinAll, JoinPanicked, FlipMarkState
<1>2. TypeOK'
  BY <1>1 DEF TypeOK, JoinAll, JoinPanicked, FlipMarkState, heap, map, shared, worker
<1>3. Active' = Active /\ Working' = Working
  BY <1>1 DEF worker, Active, Working, At
<1>4. ActiveInv' /\ QueueInv' /\ InjectorInv'
  BY <1>1, <1>3 DEF shared, worker, ActiveInv, QueueInv, InjectorInv, IsEmpty
<1>5. ReturnInv' /\ IdleInv'
  BY <1>1 DEF JoinAll, JoinPanicked, FlipMarkState, shared, worker, ReturnInv,
              IdleInv, IsEmpty, At
<1>. QED  BY <1>2, <1>4, <1>5

\* A worker that has not returned works for a trace that has not ended.
LEMMA WorkerBusy ==
    ASSUME TInv, NEW w \in Worker, ~ At(w, "returned")
    PROVE  main \notin {"mutators", "traced"}
BY DEF TInv, TerminationInv, IdleInv, TypeOK

\* What a worker takes from the injector, or from its own queue.
LEMMA BatchTypes ==
    ASSUME NEW q \in [Object -> Nat], NEW o \in Object, q[o] > 0
    PROVE  /\ Pop(q, o) \in [Object -> Nat]
           /\ \A b \in Batches(Pop(q, o)) :
                /\ b \in [Object -> Nat]
                /\ Without(Pop(q, o), b) \in [Object -> Nat]
<1>1. Pop(q, o) \in [Object -> Nat]
  BY DEF Pop
<1>2. Cardinality(Object) \in Nat
  BY TraceAssumption, FS_CardinalityType
<1>. QED  BY <1>1, <1>2 DEF Batches, Without

\* PopLocal and Steal.
LEMMA TakeSteps ==
    ASSUME TInv, NEW w \in Worker, PopLocal(w) \/ Steal(w)
    PROVE  TInv'
<1>. USE DEF TInv, TerminationInv
<1>1. ~ At(w, "returned")
  BY DEF PopLocal, Steal, At
<1>2. TypeOK'
  <2>1. CASE PopLocal(w)
    <3>1. UNCHANGED <<heap, map, main, gc_count, shared, todo, marked, start>>
      BY <2>1 DEF PopLocal
    <3>2. local' \in [Worker -> [Object -> Nat]]
      BY <2>1, BatchTypes DEF TypeOK, PopLocal, In
    <3>3. next' \in [Worker -> Object]
      BY <2>1 DEF TypeOK, PopLocal, Take
    <3>4. pc' = [pc EXCEPT ![w] = "mark"] \/ pc' = [pc EXCEPT ![w] = "steal"]
      BY <2>1 DEF PopLocal, Take, Goto
    <3>. QED  BY <3>1, <3>2, <3>3, <3>4 DEF TypeOK, heap, map, shared
  <2>2. CASE Steal(w)
    BY <2>2, BatchTypes DEF TypeOK, Steal, Take, Goto, In, At, heap, map
  <2>. QED  BY <2>1, <2>2
<1>3. Working' = Working /\ Active' = Active /\ w \in Working
  BY DEF TypeOK, PopLocal, Steal, Take, Goto, At, Working, Active
<1>4. ActiveInv' /\ InjectorInv'
  BY <1>3 DEF ActiveInv, InjectorInv, PopLocal, Steal, shared
<1>5. QueueInv'
  BY DEF QueueInv, TypeOK, PopLocal, Steal, Take, Goto, At, In, IsEmpty
<1>6. ReturnInv'
  BY DEF ReturnInv, TypeOK, PopLocal, Steal, Take, Goto, At, In, IsEmpty, shared
<1>7. IdleInv'
  BY <1>1, WorkerBusy DEF IdleInv, PopLocal, Steal
<1>. QED  BY <1>2, <1>4, <1>5, <1>6, <1>7

\* The steps that only move a worker, and never across the count.
LEMMA MoveSteps ==
    ASSUME TInv, NEW w \in Worker,
           StealNothing(w) \/ SpinOnInjector(w) \/ EndObject(w) \/ PanicOnPattern(w)
    PROVE  TInv'
<1>. USE DEF TInv, TerminationInv
<1>1. ~ At(w, "returned")
  BY DEF StealNothing, SpinOnInjector, EndObject, PanicOnPattern, At
<1>2. TypeOK'
  BY DEF TypeOK, StealNothing, SpinOnInjector, EndObject, PanicOnPattern, Goto, At,
         heap, map, shared
<1>3. Active' = Active /\ (Working' = Working \/ IsEmpty(injector))
  BY DEF TypeOK, StealNothing, SpinOnInjector, EndObject, PanicOnPattern, Goto, At,
         Working, Active
<1>4. ActiveInv' /\ InjectorInv'
  BY <1>3 DEF ActiveInv, InjectorInv, StealNothing, SpinOnInjector, EndObject,
              PanicOnPattern, shared, IsEmpty
<1>5. QueueInv'
  BY DEF QueueInv, TypeOK, StealNothing, SpinOnInjector, EndObject, PanicOnPattern,
         Goto, At, IsEmpty
<1>6. ReturnInv'
  BY DEF ReturnInv, TypeOK, StealNothing, SpinOnInjector, EndObject, PanicOnPattern,
         Goto, At, IsEmpty, shared
<1>7. IdleInv'
  BY <1>1, WorkerBusy DEF IdleInv, StealNothing, SpinOnInjector, EndObject,
                          PanicOnPattern
<1>. QED  BY <1>2, <1>4, <1>5, <1>6, <1>7

\* fetch_sub and fetch_add.
LEMMA CountSteps ==
    ASSUME TInv, NEW w \in Worker, LeaveActive(w) \/ RejoinActive(w)
    PROVE  TInv'
<1>. USE DEF TInv, TerminationInv
<1>1. ~ At(w, "returned")
  BY DEF LeaveActive, RejoinActive, At
<1>2. Active \subseteq Worker /\ Active' \subseteq Worker
  BY DEF Active, Working
<1>3. active_threads' = Cardinality(Active')
  <2>1. CASE LeaveActive(w)
    <3>1. Active' = Active \ {w} /\ w \in Active
      BY <2>1 DEF TypeOK, LeaveActive, Goto, At, Working, Active
    <3>. QED  BY <2>1, <3>1, <1>2, WorkerSets DEF LeaveActive, ActiveInv
  <2>2. CASE RejoinActive(w)
    <3>1. Active' = Active \cup {w} /\ w \notin Active
      BY <2>2 DEF TypeOK, RejoinActive, Goto, At, Working, Active
    <3>. QED  BY <2>2, <3>1, <1>2, WorkerSets DEF RejoinActive, ActiveInv
  <2>. QED  BY <2>1, <2>2
<1>4. active_threads' \in 0 .. CPUS
  BY <1>2, <1>3, WorkerSets
<1>5. TypeOK'
  BY <1>4 DEF TypeOK, LeaveActive, RejoinActive, Goto, At, heap, map
<1>6. InjectorInv'
  <2>1. Working \subseteq Working'
    BY DEF TypeOK, LeaveActive, RejoinActive, Goto, At, Working
  <2>. QED  BY <2>1 DEF InjectorInv, LeaveActive, RejoinActive, IsEmpty
<1>7. QueueInv' /\ ReturnInv'
  BY DEF QueueInv, ReturnInv, TypeOK, LeaveActive, RejoinActive, Goto, At, IsEmpty
<1>8. IdleInv'
  BY <1>1, WorkerBusy DEF IdleInv, LeaveActive, RejoinActive
<1>. QED  BY <1>3, <1>5, <1>6, <1>7, <1>8 DEF ActiveInv

\* TestActive: zero means that no worker has, or will find, anything to do.
LEMMA TestStep ==
    ASSUME TInv, NEW w \in Worker, TestActive(w)
    PROVE  TInv'
<1>. USE DEF TInv, TerminationInv
<1>1. ~ At(w, "returned")
  BY DEF TestActive, At
<1>2. TypeOK'
  BY DEF TypeOK, TestActive, Goto, At, heap, map, shared
<1>3. Working' = Working /\ Active' = Active
  BY DEF TypeOK, TestActive, Goto, At, Working, Active
<1>4. ActiveInv' /\ InjectorInv'
  BY <1>3 DEF ActiveInv, InjectorInv, TestActive, shared, IsEmpty
<1>5. QueueInv'
  BY DEF QueueInv, TypeOK, TestActive, Goto, At, IsEmpty
<1>6. ReturnInv'
  <2>1. CASE active_threads = 0
    <3>1. Active = {}
      <4>1. Active \in SUBSET Worker
        BY DEF Active, Working
      <4>. QED  BY <4>1, <2>1, WorkerSets DEF ActiveInv
    <3>2. IsEmpty(injector)
      BY <3>1 DEF Active, InjectorInv
    <3>3. \A v \in Worker : pc[v] \in {"spin", "test", "rejoin", "returned"}
      BY <3>1 DEF Active, Working, At, TypeOK
    <3>. QED  BY <3>2, <3>3 DEF ReturnInv, TypeOK, TestActive, Goto, At, IsEmpty, shared
  <2>2. CASE active_threads # 0
    BY <2>2 DEF ReturnInv, TypeOK, TestActive, Goto, At, IsEmpty, shared
  <2>. QED  BY <2>1, <2>2
<1>7. IdleInv'
  BY <1>1, WorkerBusy DEF IdleInv, TestActive
<1>. QED  BY <1>2, <1>4, <1>5, <1>6, <1>7

\* Mark, LoadEdge and PushEdge: the worker has work, so nobody has returned.
LEMMA ScanSteps ==
    ASSUME TInv, NEW w \in Worker, Mark(w) \/ LoadEdge(w) \/ PushEdge(w)
    PROVE  TInv'
<1>. USE DEF TInv, TerminationInv
<1>1. ~ At(w, "returned")
  BY DEF Mark, LoadEdge, PushEdge, At
<1>2. TypeOK'
  <2>1. edges \in [Object -> SUBSET Object]
    BY TraceAssumption DEF TypeOK
  <2>2. CASE Mark(w)
    BY <2>1, <2>2 DEF TypeOK, Mark, Goto, At, heap, shared
  <2>3. CASE LoadEdge(w)
    <3>1. UNCHANGED <<heap, map, main, gc_count, shared, local, marked, start>>
      BY <2>3 DEF LoadEdge
    <3>2. todo' \in [Worker -> SUBSET Object] /\ next' \in [Worker -> Object]
      <4>. PICK t \in todo[w] :
              \/ todo' = [todo EXCEPT ![w] = @ \ {t}] /\ UNCHANGED next
              \/ next' = [next EXCEPT ![w] = t] /\ UNCHANGED todo
        BY <2>3 DEF LoadEdge
      <4>1. t \in Object /\ todo[w] \ {t} \in SUBSET Object
        BY DEF TypeOK
      <4>. QED  BY <4>1 DEF TypeOK
    <3>3. pc' = pc \/ pc' = [pc EXCEPT ![w] = "push"]
      BY <2>3 DEF LoadEdge, Goto
    <3>. QED  BY <3>1, <3>2, <3>3 DEF TypeOK, heap, map, shared
  <2>4. CASE PushEdge(w)
    BY <2>4 DEF TypeOK, PushEdge, Push, Goto, At, heap, map
  <2>. QED  BY <2>2, <2>3, <2>4
<1>3. Working' = Working /\ Active' = Active /\ w \in Working
  BY DEF TypeOK, Mark, LoadEdge, PushEdge, Goto, At, Working, Active
<1>4. ActiveInv' /\ InjectorInv'
  BY <1>3 DEF ActiveInv, InjectorInv, Mark, LoadEdge, PushEdge, shared
<1>5. QueueInv'
  BY DEF QueueInv, TypeOK, Mark, LoadEdge, PushEdge, Goto, At, IsEmpty
<1>6. ReturnInv'
  BY DEF ReturnInv, TypeOK, Mark, LoadEdge, PushEdge, Goto, At
<1>7. IdleInv'
  BY <1>1, WorkerBusy DEF IdleInv, Mark, LoadEdge, PushEdge
<1>. QED  BY <1>2, <1>4, <1>5, <1>6, <1>7

\* Every step of the controller and of the workers keeps types and termination
\* invariant.
LEMMA TraceNext == TInv /\ [Next]_vars => TInv'
<1>. SUFFICES ASSUME TInv, [Next]_vars PROVE TInv'
  OBVIOUS
<1>1. CASE StartTrace
  BY <1>1, StartStep
<1>2. CASE JoinAll \/ JoinPanicked \/ FlipMarkState
  BY <1>2, MainSteps
<1>3. CASE \E w \in Worker : WorkerStep(w) \/ PanicOnPattern(w)
  <2>. PICK w \in Worker : WorkerStep(w) \/ PanicOnPattern(w)
    BY <1>3
  <2>1. CASE PopLocal(w) \/ Steal(w)
    BY <2>1, TakeSteps
  <2>2. CASE StealNothing(w) \/ SpinOnInjector(w) \/ EndObject(w) \/ PanicOnPattern(w)
    BY <2>2, MoveSteps
  <2>3. CASE LeaveActive(w) \/ RejoinActive(w)
    BY <2>3, CountSteps
  <2>4. CASE TestActive(w)
    BY <2>4, TestStep
  <2>5. CASE Mark(w) \/ LoadEdge(w) \/ PushEdge(w)
    BY <2>5, ScanSteps
  <2>. QED  BY <2>1, <2>2, <2>3, <2>4, <2>5 DEF WorkerStep
<1>4. CASE UNCHANGED vars
  BY <1>4 DEF TInv, vars, heap, map, shared, worker, TypeOK, TerminationInv,
              ActiveInv, QueueInv, InjectorInv, ReturnInv, IdleInv, Active, Working,
              IsEmpty, At
<1>. QED  BY <1>1, <1>2, <1>3, <1>4 DEF Next

\* Type correctness and the exactness of active_threads in every reachable
\* state.
LEMMA TInvAlways == Spec => []TInv
<1>1. Init => TInv
  BY TraceInit
<1>2. TInv /\ [Next]_vars => TInv'
  BY TraceNext
<1>. QED  BY <1>1, <1>2, PTL DEF Spec

\* start_trace, worker_batch_steal_trace: the variables keep their types; the
\* count active_threads stays between 0 and the number of workers, so its
\* fetch_sub never wraps.
THEOREM TraceTyped == Spec => []TypeOK
BY TInvAlways, PTL DEF TInv

\* worker_batch_steal_trace: active_threads counts exactly the workers that are
\* not idle, and work in the injector always has one of them to take it.
THEOREM TerminationDetected == Spec => []TerminationInv
BY TInvAlways, PTL DEF TInv

\* worker_batch_steal_trace: no worker returns while anything is left to do.
THEOREM NoWorkLeft == Spec => []NoEarlyReturn
<1>1. TInv => NoEarlyReturn
  <2>. SUFFICES ASSUME TInv, main = "joining", \E w \in Worker : At(w, "returned")
                PROVE  IsEmpty(injector) /\ \A v \in Worker : ~ Busy(v)
    BY DEF NoEarlyReturn
  <2>1. /\ IsEmpty(injector)
        /\ \A v \in Worker : pc[v] \in {"steal", "leave", "spin", "test", "rejoin",
                                        "returned"}
    BY DEF TInv, TerminationInv, ReturnInv
  <2>2. \A v \in Worker : IsEmpty(local[v])
    BY <2>1 DEF TInv, TerminationInv, QueueInv
  <2>. QED  BY <2>1, <2>2 DEF Busy
<1>. QED  BY <1>1, TInvAlways, PTL

(***************************************************************************)
(* What a trace marks.                                                     *)
(***************************************************************************)

\* Reachable(R, F) is the least set that contains R and is closed under
\* references to objects of F.
LEMMA ReachableLeast ==
    ASSUME edges \in [Object -> SUBSET Object], NEW R \in SUBSET Object, NEW F
    PROVE  /\ Reachable(R, F) \subseteq Object
           /\ R \subseteq Reachable(R, F)
           /\ \A p \in Reachable(R, F) : edges[p] \cap F \subseteq Reachable(R, F)
           /\ \A S \in SUBSET Object :
                (R \subseteq S /\ \A p \in S : edges[p] \cap F \subseteq S)
                    => Reachable(R, F) \subseteq S
BY DEF Reachable

\* MarkInv while a trace is in progress.
Marks == MapInv /\ SoundInv /\ CompleteInv

\* The objects the trace in progress is to mark.
Target == Reachable(start.roots, start.untraced)

\* Roots are to be marked, and so are the untraced objects they lead to.
LEMMA TargetClosed ==
    ASSUME TInv
    PROVE  /\ start.roots \subseteq Target
           /\ \A p \in Target : edges[p] \cap start.untraced \subseteq Target
<1>1. edges \in [Object -> SUBSET Object] /\ start.roots \in SUBSET Object
  BY TraceAssumption DEF TInv, TypeOK
<1>. QED  BY <1>1, ReachableLeast DEF Target

\* The target of a trace changes with the heap and the roots only.
LEMMA TargetKept ==
    ASSUME UNCHANGED <<edges, start>>
    PROVE  Target' = Target
BY DEF Target, Reachable

\* A new trace: the roots are pending, nothing is marked.
LEMMA StartMarks ==
    ASSUME TInv, StartTrace
    PROVE  Marks'
<1>1. \A w \in Worker : IsEmpty(local'[w]) /\ pc'[w] = "pop"
  <2>1. \A w \in Worker : IsEmpty(local[w])
    BY DEF TInv, TerminationInv, IdleInv, QueueInv, StartTrace, At
  <2>. QED  BY <2>1 DEF StartTrace, SpawnWorkers, IsEmpty
<1>2. roots \subseteq Object /\ start'.roots = roots
  BY DEF TInv, TypeOK, StartTrace
<1>3. Pending' = start'.roots
  <2>1. \A o \in Object : In(o, injector)' <=> o \in roots
    BY DEF StartTrace, In
  <2>2. \A o \in Object, w \in Worker : ~ In(o, local[w])'
    BY <1>1 DEF TInv, TypeOK, StartTrace, SpawnWorkers, IsEmpty, In
  <2>. QED  BY <1>1, <1>2, <2>1, <2>2 DEF Pending
<1>4. MapInv'
  BY DEF MapInv, StartTrace, IsTraced, map
<1>5. SoundInv'
  <2>1. (edges \in [Object -> SUBSET Object])' /\ (start.roots \in SUBSET Object)'
    BY <1>2, TraceAssumption DEF TInv, TypeOK, StartTrace
  <2>2. start'.roots \subseteq Reachable(start.roots, start.untraced)'
    BY <2>1, <1>2 DEF Reachable
  <2>. QED  BY <1>1, <1>3, <2>2 DEF SoundInv, StartTrace, At
<1>6. CompleteInv'
  BY <1>3 DEF CompleteInv, StartTrace
<1>. QED  BY <1>4, <1>5, <1>6 DEF Marks

\* A step that neither marks nor finds an object, and drops a field only when
\* its target needs no more attention.
LEMMA QuietStep ==
    ASSUME TInv, Marks,
           UNCHANGED <<edges, start, trace_map, mark_state, marked>>,
           Pending' = Pending,
           \A v \in Worker : pc'[v] \in {"scan", "push"} =>
                pc[v] \in {"scan", "push"} /\ todo'[v] \subseteq todo[v],
           \A v \in Worker : pc'[v] = "push" =>
                next'[v] \in todo'[v] \cap start.untraced,
           \A v \in Worker : pc[v] \in {"scan", "push", "panicked"} =>
                \A t \in todo[v] \cap start.untraced :
                    \/ t \in marked \cup Pending
                    \/ pc'[v] \in {"scan", "push", "panicked"} /\ t \in todo'[v]
    PROVE  Marks'
<1>. USE DEF Marks
<1>1. MapInv'
  BY DEF MapInv, IsTraced
<1>2. SoundInv'
  <2>1. Target' = Target
    BY TargetKept
  <2>2. (marked \cup Pending)' \subseteq Target'
    BY <2>1 DEF SoundInv, Target
  <2>3. \A v \in Worker : pc'[v] \in {"scan", "push"} =>
            \E p \in marked' : todo'[v] \subseteq edges'[p]
    BY DEF SoundInv
  <2>. QED  BY <2>2, <2>3 DEF SoundInv, Target, At
<1>3. CompleteInv'
  BY DEF CompleteInv
<1>. QED  BY <1>1, <1>2, <1>3

\* worker.pop(): an object goes from the worker's queue into its hands.
LEMMA PopMarks ==
    ASSUME TInv, Marks, NEW w \in Worker, PopLocal(w)
    PROVE  Marks'
<1>1. Pending' = Pending
  <2>1. CASE IsEmpty(local[w]) /\ Goto(w, "steal") /\ UNCHANGED <<local, next>>
    BY <2>1 DEF PopLocal, Pending, TInv, TypeOK, Goto, At, In, shared
  <2>2. ASSUME NEW o \in Object, In(o, local[w]),
               local' = [local EXCEPT ![w] = Pop(@, o)], Take(w, o)
        PROVE  Pending' = Pending
    <3>1. \A x \in Object : local[w][x] \in Nat /\ Pop(local[w], o)[x] =
                (IF x = o THEN local[w][x] - 1 ELSE local[w][x])
      BY DEF TInv, TypeOK, Pop
    <3>2. \A x \in Object :
            (In(x, local[w]') \/ x = o) <=> In(x, local[w])
      BY <2>2, <3>1 DEF TInv, TypeOK, In
    <3>3. \A v \in Worker \ {w} : local'[v] = local[v] /\ next'[v] = next[v]
                                  /\ pc'[v] = pc[v]
      BY <2>2 DEF TInv, TypeOK, Take, Goto
    <3>4. pc[w] = "pop" /\ pc'[w] = "mark" /\ next'[w] = o /\ injector' = injector
      BY <2>2 DEF TInv, TypeOK, Take, Goto, PopLocal, At, shared
    <3>. QED  BY <2>2, <3>2, <3>3, <3>4 DEF Pending, In
  <2>. QED  BY <2>1, <2>2 DEF PopLocal
<1>2. /\ UNCHANGED <<edges, start, trace_map, mark_state, marked, todo>>
      /\ \A v \in Worker : IF v = w THEN pc'[v] \in {"mark", "steal"} /\ pc[v] = "pop"
                           ELSE pc'[v] = pc[v] /\ next'[v] = next[v]
  BY DEF PopLocal, Take, Goto, At, TInv, TypeOK, heap, map
<1>. QED  BY <1>1, <1>2, QuietStep DEF Marks, SoundInv, At

\* steal_batch_and_pop: objects go from the injector to the worker; its own
\* queue, which they replace, is empty.
LEMMA StealMarks ==
    ASSUME TInv, Marks, NEW w \in Worker, Steal(w)
    PROVE  Marks'
<1>1. Pending' = Pending
  <2>. PICK o \in Object : /\ In(o, injector)
                           /\ \E b \in Batches(Pop(injector, o)) :
                                /\ injector' = Without(Pop(injector, o), b)
                                /\ local' = [local EXCEPT ![w] = b]
                           /\ Take(w, o)
    BY DEF Steal
  <2>. PICK b \in Batches(Pop(injector, o)) :
                                /\ injector' = Without(Pop(injector, o), b)
                                /\ local' = [local EXCEPT ![w] = b]
    OBVIOUS
  <2>1. injector \in [Object -> Nat] /\ b \in [Object -> Nat]
    BY BatchTypes DEF In, TInv, TypeOK
  <2>2. \A x \in Object :
            /\ injector'[x] = (IF x = o THEN injector[x] - 1 ELSE injector[x]) - b[x]
            /\ b[x] <= (IF x = o THEN injector[x] - 1 ELSE injector[x])
    BY <2>1 DEF Without, Pop, Batches
  <2>3. \A x \in Object :
            (injector'[x] > 0 \/ b[x] > 0 \/ x = o) <=> injector[x] > 0
    BY <2>1, <2>2 DEF In
  <2>4. \A v \in Worker \ {w} : local'[v] = local[v] /\ next'[v] = next[v]
                                /\ pc'[v] = pc[v]
    BY DEF TInv, TypeOK, Take, Goto
  <2>5. pc[w] = "steal" /\ pc'[w] = "mark" /\ next'[w] = o /\ local'[w] = b
    BY DEF TInv, TypeOK, Take, Goto, Steal, At
  <2>6. \A x \in Object : ~ local[w][x] > 0
    BY <2>5 DEF TInv, TypeOK, TerminationInv, QueueInv, IsEmpty
  <2>. QED  BY <2>3, <2>4, <2>5, <2>6 DEF Pending, In
<1>2. /\ UNCHANGED <<edges, start, trace_map, mark_state, marked, todo>>
      /\ \A v \in Worker : IF v = w THEN pc'[v] = "mark" /\ pc[v] = "steal"
                           ELSE pc'[v] = pc[v] /\ next'[v] = next[v]
  BY DEF Steal, Take, Goto, At, TInv, TypeOK, heap, map
<1>. QED  BY <1>1, <1>2, QuietStep DEF Marks, SoundInv, At

\* Mark: the object moves from the pending ones to the marked ones, and its
\* fields into the worker's hands.
LEMMA MarkMarks ==
    ASSUME TInv, Marks, NEW w \in Worker, Mark(w)
    PROVE  Marks'
<1>. DEFINE o == next[w]
<1>. USE DEF Marks
<1>1. /\ UNCHANGED <<edges, start, mark_state, injector, local, next>>
      /\ o \in Object /\ o \in Pending
      /\ marked' = marked \cup {o}
      /\ \A x \in Object : trace_map'[x] = IF x = o THEN mark_state ELSE trace_map[x]
      /\ pc[w] = "mark" /\ pc'[w] = "scan" /\ todo'[w] = edges[o]
      /\ \A v \in Worker \ {w} : pc'[v] = pc[v] /\ todo'[v] = todo[v]
  BY DEF TInv, TypeOK, Mark, Goto, At, heap, shared, Pending
<1>2. marked' \cup Pending' = marked \cup Pending
  BY <1>1 DEF Pending, TInv, TypeOK
<1>3. MapInv'
  BY <1>1 DEF MapInv, IsTraced, TInv, TypeOK
<1>4. SoundInv'
  <2>1. Target' = Target
    BY <1>1, TargetKept
  <2>2. (marked \cup Pending)' \subseteq Target'
    BY <1>2, <2>1 DEF SoundInv, Target
  <2>3. \A v \in Worker : pc'[v] \in {"scan", "push"} =>
            \E p \in marked' : todo'[v] \subseteq edges'[p]
    BY <1>1 DEF SoundInv
  <2>. QED  BY <1>1, <2>2, <2>3 DEF SoundInv, Target, At
<1>5. CompleteInv'
  <2>1. start'.roots \subseteq marked' \cup Pending'
    BY <1>1, <1>2 DEF CompleteInv
  <2>2. ASSUME NEW p \in marked', NEW t \in edges'[p] \cap start'.untraced
        PROVE  \/ t \in marked' \cup Pending'
               \/ \E v \in Worker : /\ pc'[v] \in {"scan", "push", "panicked"}
                                    /\ t \in todo'[v]
    <3>1. CASE p = o
      BY <1>1, <2>2, <3>1
    <3>2. CASE p # o
      BY <1>1, <1>2, <2>2, <3>2 DEF CompleteInv
    <3>. QED  BY <3>1, <3>2
  <2>. QED  BY <2>1, <2>2 DEF CompleteInv
<1>. QED  BY <1>3, <1>4, <1>5

\* LoadEdge: a traced field is marked or was never to be traced; an untraced one
\* becomes pending.
LEMMA LoadMarks ==
    ASSUME TInv, Marks, NEW w \in Worker, LoadEdge(w)
    PROVE  Marks'
<1>. USE DEF Marks
<1>1. PICK t \in todo[w] :
        IF IsTraced(t)
        THEN /\ todo' = [todo EXCEPT ![w] = @ \ {t}]
             /\ UNCHANGED <<pc, next>>
        ELSE /\ next' = [next EXCEPT ![w] = t]
             /\ Goto(w, "push")
             /\ UNCHANGED todo
  BY DEF LoadEdge
<1>2. /\ UNCHANGED <<edges, start, trace_map, mark_state, injector, local, marked>>
      /\ pc[w] = "scan" /\ t \in Object
  BY DEF TInv, TypeOK, LoadEdge, At, heap, map, shared
<1>3. CASE IsTraced(t)
  <2>1. Pending' = Pending
    BY <1>1, <1>2, <1>3 DEF Pending
  <2>2. t \in start.untraced => t \in marked
    BY <1>2, <1>3 DEF MapInv
  <2>3. \A v \in Worker : /\ pc'[v] = pc[v] /\ next'[v] = next[v]
                          /\ todo'[v] = IF v = w THEN todo[v] \ {t} ELSE todo[v]
    BY <1>1, <1>3 DEF TInv, TypeOK
  <2>. QED  BY <1>2, <2>1, <2>2, <2>3, QuietStep DEF SoundInv, At
<1>4. CASE ~ IsTraced(t)
  <2>1. /\ pc'[w] = "push" /\ next'[w] = t /\ UNCHANGED todo
        /\ \A v \in Worker \ {w} : pc'[v] = pc[v] /\ next'[v] = next[v]
    BY <1>1, <1>4 DEF Goto, TInv, TypeOK
  <2>2. Pending' = Pending \cup {t}
    BY <1>2, <2>1 DEF Pending
  <2>3. t \in start.untraced
    BY <1>2, <1>4 DEF MapInv
  <2>4. t \in Target
    <3>1. PICK p \in marked : todo[w] \subseteq edges[p]
      BY <1>2 DEF SoundInv
    <3>2. p \in Target
      BY DEF SoundInv, Target
    <3>. QED  BY <3>1, <3>2, <2>3, TargetClosed
  <2>5. MapInv'
    BY <1>2 DEF MapInv, IsTraced
  <2>6. SoundInv'
    <3>1. Target' = Target
      BY <1>2, TargetKept
    <3>2. (marked \cup Pending)' \subseteq Target'
      BY <1>2, <2>2, <2>4, <3>1 DEF SoundInv, Target
    <3>3. \A v \in Worker : pc'[v] \in {"scan", "push"} =>
              \E p \in marked' : todo'[v] \subseteq edges'[p]
      BY <1>2, <2>1 DEF SoundInv
    <3>. QED  BY <1>2, <2>1, <2>3, <3>2, <3>3 DEF SoundInv, Target, At
  <2>7. CompleteInv'
    BY <1>2, <2>1, <2>2 DEF CompleteInv
  <2>. QED  BY <2>5, <2>6, <2>7
<1>. QED  BY <1>3, <1>4

\* injector.push: an object goes from the worker's hands into the injector.
LEMMA PushMarks ==
    ASSUME TInv, Marks, NEW w \in Worker, PushEdge(w)
    PROVE  Marks'
<1>. DEFINE o == next[w]
<1>1. /\ UNCHANGED <<edges, start, trace_map, mark_state, marked, local, next>>
      /\ o \in Object
      /\ \A x \in Object : /\ injector[x] \in Nat
                           /\ injector'[x] = IF x = o THEN injector[x] + 1
                                             ELSE injector[x]
      /\ pc[w] = "push" /\ pc'[w] = "scan" /\ todo'[w] = todo[w] \ {o}
      /\ \A v \in Worker \ {w} : pc'[v] = pc[v] /\ todo'[v] = todo[v]
  BY DEF PushEdge, Push, Goto, At, TInv, TypeOK, heap, map
<1>2. Pending' = Pending /\ o \in Pending
  <2>1. \A x \in Object : In(x, injector') <=> (x = o \/ In(x, injector))
    BY <1>1 DEF In
  <2>. QED  BY <1>1, <2>1 DEF Pending, In
<1>. QED  BY <1>1, <1>2, QuietStep DEF Marks, SoundInv, At

\* The other steps of a worker touch neither the queues nor the map.
LEMMA OtherMarks ==
    ASSUME TInv, Marks, NEW w \in Worker,
           \/ StealNothing(w) \/ LeaveActive(w) \/ SpinOnInjector(w) \/ TestActive(w)
           \/ RejoinActive(w) \/ EndObject(w) \/ PanicOnPattern(w)
    PROVE  Marks'
<1>1. /\ UNCHANGED <<edges, start, trace_map, mark_state, marked, injector, local,
                     next, todo>>
      /\ pc[w] \notin {"mark", "push"} /\ pc'[w] \notin {"mark", "scan", "push"}
      /\ pc[w] \in {"scan", "panicked"} => todo[w] = {} \/ pc'[w] = "panicked"
      /\ \A v \in Worker \ {w} : pc'[v] = pc[v]
  BY DEF StealNothing, LeaveActive, SpinOnInjector, TestActive, RejoinActive,
         EndObject, PanicOnPattern, Goto, At, TInv, TypeOK, heap, map, shared
<1>2. Pending' = Pending
  BY <1>1 DEF Pending
<1>. QED  BY <1>1, <1>2, QuietStep DEF Marks, SoundInv, At

\* The join: with nothing pending, the marked objects are closed.
LEMMA JoinExact ==
    ASSUME TInv, MarkInv, JoinAll
    PROVE  TraceExact'
<1>. USE DEF Marks
<1>1. Marks /\ \A w \in Worker : pc[w] = "returned"
  BY DEF JoinAll, MarkInv, At
<1>2. Pending = {}
  <2>1. Working = {}
    BY <1>1 DEF Working
  <2>2. IsEmpty(injector) /\ \A w \in Worker : IsEmpty(local[w])
    BY <1>1, <2>1 DEF TInv, TerminationInv, InjectorInv, QueueInv
  <2>. QED  BY <1>1, <2>2 DEF Pending, In, IsEmpty, TInv, TypeOK
<1>3. marked \subseteq Target
  BY <1>1 DEF SoundInv, Target
<1>4. Target \subseteq marked
  <2>1. /\ start.roots \subseteq marked
        /\ \A p \in marked : edges[p] \cap start.untraced \subseteq marked
    BY <1>1, <1>2 DEF CompleteInv
  <2>2. /\ edges \in [Object -> SUBSET Object]
        /\ start.roots \in SUBSET Object /\ marked \in SUBSET Object
    BY TraceAssumption DEF TInv, TypeOK
  <2>. QED  BY <2>1, <2>2, ReachableLeast DEF Target
<1>5. UNCHANGED <<edges, start, marked>>
  BY DEF JoinAll, heap
<1>6. Target' = Target
  BY <1>5, TargetKept
<1>. QED  BY <1>3, <1>4, <1>5, <1>6 DEF TraceExact, Target

\* What the steps are shown to preserve.
MInv == TInv /\ MarkInv /\ TraceExact

\* No trace is in progress at the start.
LEMMA MarksInit == Init => MInv
<1>1. Init => MarkInv /\ TraceExact
  BY DEF Init, MarkInv, TraceExact
<1>. QED  BY <1>1, TraceInit DEF MInv

\* Every step keeps the invariant of the marks, and exactness once it is reached.
LEMMA MarksNext == MInv /\ [Next]_vars => MInv'
<1>. SUFFICES ASSUME MInv, [Next]_vars PROVE MInv'
  OBVIOUS
<1>0. TInv /\ MarkInv /\ TraceExact /\ TInv'
  BY TraceNext DEF MInv
<1>1. CASE StartTrace
  BY <1>0, <1>1, StartMarks DEF Marks, MInv, MarkInv, TraceExact, StartTrace
<1>2. CASE JoinAll
  BY <1>0, <1>2, JoinExact DEF MInv, MarkInv, JoinAll
<1>3. CASE JoinPanicked \/ FlipMarkState
  BY <1>0, <1>3 DEF MInv, MarkInv, TraceExact, JoinPanicked, FlipMarkState
<1>4. CASE \E w \in Worker : WorkerStep(w) \/ PanicOnPattern(w)
  <2>. PICK w \in Worker : WorkerStep(w) \/ PanicOnPattern(w)
    BY <1>4
  <2>1. ~ At(w, "returned") /\ main' = main
    BY DEF WorkerStep, PopLocal, Steal, StealNothing, LeaveActive, SpinOnInjector,
           TestActive, RejoinActive, Mark, LoadEdge, PushEdge, EndObject,
           PanicOnPattern, At
  <2>2. main # "traced"
    BY <1>0, <2>1, WorkerBusy
  <2>3. ASSUME main = "joining" PROVE Marks'
    <3>1. Marks
      BY <1>0, <2>3 DEF MarkInv, Marks
    <3>. QED  BY <1>0, <3>1, PopMarks, StealMarks, MarkMarks, LoadMarks, PushMarks,
                 OtherMarks DEF WorkerStep
  <2>. QED  BY <1>0, <2>1, <2>2, <2>3 DEF MInv, MarkInv, TraceExact, Marks
<1>5. CASE UNCHANGED vars
  <2>1. MarkInv'
    BY <1>0, <1>5 DEF MarkInv, MapInv, SoundInv, CompleteInv, Pending, Reachable,
                      IsTraced, In, At, vars, heap, map, shared, worker
  <2>2. TraceExact'
    BY <1>0, <1>5 DEF TraceExact, Reachable, vars, heap
  <2>. QED  BY <1>0, <2>1, <2>2 DEF MInv
<1>. QED  BY <1>1, <1>2, <1>3, <1>4, <1>5 DEF Next

\* The invariant of the marks in every reachable state.
LEMMA MInvAlways == Spec => []MInv
<1>1. Init => MInv
  BY MarksInit
<1>2. MInv /\ [Next]_vars => MInv'
  BY MarksNext
<1>. QED  BY <1>1, <1>2, PTL DEF Spec

\* worker_batch_steal_trace: between the test of the map, the push and the mark
\* of different workers no object gets lost and none is marked for no reason.
THEOREM MarksConsistent == Spec => []MarkInv
BY MInvAlways, PTL DEF MInv

\* start_trace: when it returns, the objects whose lines are marked are exactly
\* the roots and what they reach through objects untraced when it began.
THEOREM TraceIsExact == Spec => []TraceExact
BY MInvAlways, PTL DEF MInv
=============================================================================
