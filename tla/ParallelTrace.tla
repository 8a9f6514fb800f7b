---------------------------- MODULE ParallelTrace ----------------------------
(***************************************************************************)
(* The tracing phase of gc(): start_trace, its worker threads and the      *)
(* TraceMap they share, over several collections.                          *)
(*                                                                         *)
(* The roots go into a shared injector.  Every worker takes objects from   *)
(* its own queue, or a batch from the injector, marks them as traced and   *)
(* pushes the untraced objects they refer to.  A worker that finds the     *)
(* injector empty leaves the count active_threads and spins until there is *)
(* work again or the count is zero.                                        *)
(*                                                                         *)
(* The queues are bags: the order of their elements is left open.  Each    *)
(* access to the injector, to active_threads and to the map is a step.     *)
(***************************************************************************)
EXTENDS Integers, FiniteSets

CONSTANTS
    Object,     \* object slots of the space
    Heaps,      \* the heaps to trace: functions from Object to SUBSET Object
    CPUS,       \* num_cpus::get()
    MaxGCs,     \* bound: how many collections
    MayPanic    \* may a worker meet an unexpected ref_bits pattern?

Worker == 1 .. CPUS

ASSUME TraceAssumption ==
    /\ IsFiniteSet(Object) /\ Object # {}
    /\ Heaps \subseteq [Object -> SUBSET Object]
    /\ CPUS \in Nat \ {0}
    /\ MaxGCs \in Nat
    /\ MayPanic \in BOOLEAN

VARIABLES
    edges,           \* the references held by each object's fields
    roots,           \* ROOTS
    trace_map,       \* TraceMap.map
    mark_state,      \* TraceMap.mark_state
    main,            \* where the controller is: "mutators", "joining", "traced"
                     \* or "panicked"
    gc_count,        \* GC_COUNT
    injector,        \* shared queue
    active_threads,
    pc,              \* where each worker is
    local,           \* its own queue
    next,            \* the object it is tracing, or about to push
    todo,            \* the fields of it not yet looked at
    marked,          \* the objects whose line this collection has marked
    start            \* history: the roots and the untraced objects it began with

shared == <<injector, active_threads>>
heap == <<edges, roots>>
map == <<trace_map, mark_state>>
worker == <<pc, local, next, todo>>
vars == <<heap, map, main, gc_count, shared, worker, marked, start>>

EmptyQueue == [o \in Object |-> 0]
IsEmpty(q) == \A o \in Object : q[o] = 0
Push(q, o) == [q EXCEPT ![o] = @ + 1]
Pop(q, o) == [q EXCEPT ![o] = @ - 1]
In(o, q) == q[o] > 0

\* The batches that can be taken from q, and what a batch leaves behind.
Batches(q) == {b \in [Object -> 0 .. Cardinality(Object)] :
                 \A o \in Object : b[o] <= q[o]}
Without(q, b) == [o \in Object |-> q[o] - b[o]]

IsTraced(o) == trace_map[o] = mark_state

At(w, l) == pc[w] = l
Goto(w, l) == pc' = [pc EXCEPT ![w] = l]

(***************************************************************************)
(* Between collections: TraceMap::new zeroes the map and the mark state;   *)
(* the program allocates, links and drops objects as it likes.             *)
(***************************************************************************)
Init ==
    /\ edges \in Heaps
    /\ roots \in SUBSET Object
    /\ trace_map = [o \in Object |-> 0]
    /\ mark_state = 0
    /\ main = "mutators"
    /\ gc_count = 0
    /\ injector = EmptyQueue
    /\ active_threads = 0
    /\ pc = [w \in Worker |-> "returned"]
    /\ local = [w \in Worker |-> EmptyQueue]
    /\ next = [w \in Worker |-> CHOOSE o \in Object : TRUE]
    /\ todo = [w \in Worker |-> {}]
    /\ marked = {}
    /\ start = [roots |-> {}, untraced |-> {}]

SpawnWorkers ==
    /\ pc' = [w \in Worker |-> "pop"]
    /\ active_threads' = CPUS
    /\ UNCHANGED <<local, next, todo>>

\* start_trace: drain the roots into the injector and spawn the workers, all of
\* them counted as active before the first one runs.
StartTrace ==
    /\ main = "mutators"
    /\ gc_count < MaxGCs
    /\ gc_count' = gc_count + 1
    /\ injector' = [o \in Object |-> IF o \in roots THEN 1 ELSE 0]
    /\ roots' = {}
    /\ SpawnWorkers
    /\ main' = "joining"
    /\ marked' = {}
    /\ start' = [roots |-> roots,
                 untraced |-> {o \in Object : ~ IsTraced(o)}]
    /\ UNCHANGED <<edges, map>>

\* The joins of start_trace: all workers have returned ...
JoinAll ==
    /\ main = "joining"
    /\ \A w \in Worker : At(w, "returned")
    /\ main' = "traced"
    /\ UNCHANGED <<heap, map, gc_count, shared, worker, marked, start>>

\* ... or the first one that has not returned has panicked, and unwrap panics.
JoinPanicked ==
    /\ main = "joining"
    /\ \E w \in Worker : /\ At(w, "panicked")
                         /\ \A v \in 1 .. w - 1 : At(v, "returned")
    /\ main' = "panicked"
    /\ UNCHANGED <<heap, map, gc_count, shared, worker, marked, start>>

\* flip_mark_state, the release of the mutators, and what they do to the heap
\* and leave on their stacks until the next collection.
FlipMarkState ==
    /\ main = "traced"
    /\ mark_state' = 1 - mark_state
    /\ edges' \in Heaps
    /\ roots' \in SUBSET Object
    /\ main' = "mutators"
    /\ UNCHANGED <<trace_map, gc_count, shared, worker, marked, start>>

(***************************************************************************)
(* worker_batch_steal_trace.                                               *)
(***************************************************************************)

\* The worker takes o as the object to trace.
Take(w, o) ==
    /\ next' = [next EXCEPT ![w] = o]
    /\ Goto(w, "mark")

\* worker.pop().
PopLocal(w) ==
    /\ At(w, "pop")
    /\ \/ \E o \in Object : /\ In(o, local[w])
                            /\ local' = [local EXCEPT ![w] = Pop(@, o)]
                            /\ Take(w, o)
       \/ /\ IsEmpty(local[w])
          /\ Goto(w, "steal")
          /\ UNCHANGED <<local, next>>
    /\ UNCHANGED <<heap, map, main, gc_count, shared, todo, marked, start>>

\* injector.steal_batch_and_pop: one object to trace, and some more, as many as
\* crossbeam likes, into the worker's own queue.
Steal(w) ==
    /\ At(w, "steal")
    /\ \E o \in Object : /\ In(o, injector)
                         /\ \E b \in Batches(Pop(injector, o)) :
                             /\ injector' = Without(Pop(injector, o), b)
                             /\ local' = [local EXCEPT ![w] = b]
                         /\ Take(w, o)
    /\ UNCHANGED <<heap, map, main, gc_count, active_threads, todo, marked, start>>

\* It finds the injector empty.
StealNothing(w) ==
    /\ At(w, "steal")
    /\ IsEmpty(injector)
    /\ Goto(w, "leave")
    /\ UNCHANGED <<heap, map, main, gc_count, shared, local, next, todo, marked,
                   start>>

\* Variant of LeaveActive: an idle worker stays in the count.
LeaveActiveUncounted(w) ==
    /\ At(w, "leave")
    /\ Goto(w, "spin")
    /\ UNCHANGED <<heap, map, main, gc_count, shared, local, next, todo, marked,
                   start>>

\* active_threads.fetch_sub(1).
LeaveActive(w) ==
    /\ At(w, "leave")
    /\ active_threads' = active_threads - 1
    /\ Goto(w, "spin")
    /\ UNCHANGED <<heap, map, main, gc_count, injector, local, next, todo, marked,
                   start>>

\* The condition of the spinning loop ...
SpinOnInjector(w) ==
    /\ At(w, "spin")
    /\ Goto(w, IF IsEmpty(injector) THEN "test" ELSE "rejoin")
    /\ UNCHANGED <<heap, map, main, gc_count, shared, local, next, todo, marked,
                   start>>

\* Variant of TestActive: it takes itself to be counted still.
TestActiveOffByOne(w) ==
    /\ At(w, "test")
    /\ Goto(w, IF active_threads <= 1 THEN "returned" ELSE "spin")
    /\ UNCHANGED <<heap, map, main, gc_count, shared, local, next, todo, marked,
                   start>>

\* ... and its body.
TestActive(w) ==
    /\ At(w, "test")
    /\ Goto(w, IF active_threads = 0 THEN "returned" ELSE "spin")
    /\ UNCHANGED <<heap, map, main, gc_count, shared, local, next, todo, marked,
                   start>>

\* Variant of RejoinActive: back to work without fetch_add.
RejoinActiveUncounted(w) ==
    /\ At(w, "rejoin")
    /\ Goto(w, "steal")
    /\ UNCHANGED <<heap, map, main, gc_count, shared, local, next, todo, marked,
                   start>>

\* active_threads.fetch_add(1).
RejoinActive(w) ==
    /\ At(w, "rejoin")
    /\ active_threads' = active_threads + 1
    /\ Goto(w, "steal")
    /\ UNCHANGED <<heap, map, main, gc_count, injector, local, next, todo, marked,
                   start>>

\* mark_as_traced and mark_line_live.
Mark(w) ==
    /\ At(w, "mark")
    /\ trace_map' = [trace_map EXCEPT ![next[w]] = mark_state]
    /\ marked' = marked \cup {next[w]}
    /\ todo' = [todo EXCEPT ![w] = edges[next[w]]]
    /\ Goto(w, "scan")
    /\ UNCHANGED <<heap, mark_state, main, gc_count, shared, local, next, start>>

\* Variant of LoadEdge: a traced field ends the scan of the object.
LoadEdgeStopsEarly(w) ==
    /\ At(w, "scan")
    /\ \E t \in todo[w] :
        IF IsTraced(t)
        THEN /\ todo' = [todo EXCEPT ![w] = {}]
             /\ UNCHANGED <<pc, next>>
        ELSE /\ next' = [next EXCEPT ![w] = t]
             /\ Goto(w, "push")
             /\ UNCHANGED todo
    /\ UNCHANGED <<heap, map, main, gc_count, shared, local, marked, start>>

\* steal_process_edge: the load of the map ...
LoadEdge(w) ==
    /\ At(w, "scan")
    /\ \E t \in todo[w] :
        IF IsTraced(t)
        THEN /\ todo' = [todo EXCEPT ![w] = @ \ {t}]
             /\ UNCHANGED <<pc, next>>
        ELSE /\ next' = [next EXCEPT ![w] = t]
             /\ Goto(w, "push")
             /\ UNCHANGED todo
    /\ UNCHANGED <<heap, map, main, gc_count, shared, local, marked, start>>

\* ... and the push that may follow it.
PushEdge(w) ==
    /\ At(w, "push")
    /\ injector' = Push(injector, next[w])
    /\ todo' = [todo EXCEPT ![w] = @ \ {next[w]}]
    /\ Goto(w, "scan")
    /\ UNCHANGED <<heap, map, main, gc_count, active_threads, local, next, marked,
                   start>>

\* The object's last field: short_encode ends the loop.
EndObject(w) ==
    /\ At(w, "scan")
    /\ todo[w] = {}
    /\ Goto(w, "pop")
    /\ UNCHANGED <<heap, map, main, gc_count, shared, local, next, todo, marked,
                   start>>

\* panic!("unexpected ref_bits patterns"): the thread unwinds, still counted.
PanicOnPattern(w) ==
    /\ MayPanic
    /\ At(w, "scan")
    /\ Goto(w, "panicked")
    /\ UNCHANGED <<heap, map, main, gc_count, shared, local, next, todo, marked,
                   start>>

WorkerStep(w) ==
    \/ PopLocal(w) \/ Steal(w) \/ StealNothing(w)
    \/ LeaveActive(w) \/ SpinOnInjector(w) \/ TestActive(w) \/ RejoinActive(w)
    \/ Mark(w) \/ LoadEdge(w) \/ PushEdge(w) \/ EndObject(w)

Next ==
    \/ StartTrace \/ JoinAll \/ JoinPanicked \/ FlipMarkState
    \/ \E w \in Worker : WorkerStep(w) \/ PanicOnPattern(w)

Spec == Init /\ [][Next]_vars

\* The scheduler runs every worker, and the controller that joins them.
FairSpec ==
    /\ Spec
    /\ \A w \in Worker : WF_vars(WorkerStep(w))
    /\ WF_vars(JoinAll \/ JoinPanicked)

(***************************************************************************)
(* Properties.                                                             *)
(***************************************************************************)

\* Type invariant.
TypeOK ==
    /\ edges \in Heaps
    /\ roots \subseteq Object
    /\ trace_map \in [Object -> {0, 1}]
    /\ mark_state \in {0, 1}
    /\ main \in {"mutators", "joining", "traced", "panicked"}
    /\ gc_count \in 0 .. MaxGCs
    /\ injector \in [Object -> Nat]
    /\ active_threads \in 0 .. CPUS
    /\ pc \in [Worker -> {"pop", "steal", "leave", "spin", "test", "rejoin",
                          "mark", "scan", "push", "returned", "panicked"}]
    /\ local \in [Worker -> [Object -> Nat]]
    /\ next \in [Worker -> Object]
    /\ todo \in [Worker -> SUBSET Object]
    /\ marked \subseteq Object
    /\ start \in [roots : SUBSET Object, untraced : SUBSET Object]

\* A worker with something left to do.
Busy(w) == ~ IsEmpty(local[w]) \/ pc[w] \in {"mark", "scan", "push"}

\* Termination detection: once a worker has returned, nothing is left in the
\* injector, in any other worker's queue or in its hands, and nothing will be.
NoEarlyReturn ==
    (main = "joining" /\ \E w \in Worker : At(w, "returned")) =>
        /\ IsEmpty(injector)
        /\ \A v \in Worker : ~ Busy(v)

\* The objects reachable from R through objects of F.
Reachable(R, F) ==
    {o \in Object : \A S \in SUBSET Object :
        (R \subseteq S /\ \A p \in S : edges[p] \cap F \subseteq S) => o \in S}

\* Whatever the interleaving of the workers, a trace marks the roots and what
\* is reachable from them through objects whose map entry differed from
\* mark_state when it began: neither less nor more.
TraceExact ==
    main = "traced" => marked = Reachable(start.roots, start.untraced)

(***************************************************************************)
(* The inductive invariants.                                               *)
(***************************************************************************)

\* The workers that active_threads counts; those among them, all but the ones
\* about to leave, may still find or make work.
Working == {w \in Worker : pc[w] \in
              {"pop", "steal", "mark", "scan", "push", "panicked"}}
Active == Working \cup {w \in Worker : At(w, "leave")}

ActiveInv == active_threads = Cardinality(Active)

QueueInv == \A w \in Worker : ~ IsEmpty(local[w]) =>
                pc[w] \in {"pop", "mark", "scan", "push", "panicked"}

InjectorInv == ~ IsEmpty(injector) => Working # {}

ReturnInv ==
    (main = "joining" /\ \E w \in Worker : At(w, "returned")) =>
        /\ IsEmpty(injector)
        /\ \A v \in Worker : pc[v] \in {"steal", "leave", "spin", "test",
                                        "rejoin", "returned"}

IdleInv == main \in {"mutators", "traced"} =>
               \A w \in Worker : At(w, "returned")

\* The count is exact, and work in a queue always has a counted worker that has
\* not yet found the injector empty (worker_batch_steal_trace).
TerminationInv ==
    ActiveInv /\ QueueInv /\ InjectorInv /\ ReturnInv /\ IdleInv

\* The objects that some queue or some worker's hands hold.
Pending == {o \in Object :
              \/ In(o, injector)
              \/ \E w \in Worker :
                    \/ In(o, local[w])
                    \/ pc[w] \in {"mark", "push"} /\ next[w] = o}

\* The map changes only towards mark_state, and with the line marks.
MapInv ==
    /\ \A o \in Object : ~ IsTraced(o) => o \in start.untraced
    /\ \A o \in marked : IsTraced(o)
    /\ \A o \in start.untraced : IsTraced(o) => o \in marked

\* What the workers hold comes from the roots or from a marked object.
SoundInv ==
    /\ marked \cup Pending \subseteq Reachable(start.roots, start.untraced)
    /\ \A w \in Worker : pc[w] \in {"scan", "push"} =>
        \E p \in marked : todo[w] \subseteq edges[p]
    /\ \A w \in Worker : At(w, "push") =>
        next[w] \in todo[w] \cap start.untraced

\* What must still be marked is in a queue or in somebody's hands.
CompleteInv ==
    /\ start.roots \subseteq marked \cup Pending
    /\ \A p \in marked : \A t \in edges[p] \cap start.untraced :
        \/ t \in marked \cup Pending
        \/ \E w \in Worker : /\ pc[w] \in {"scan", "push", "panicked"}
                             /\ t \in todo[w]

\* No object is lost between the queues, the map and the workers, and none is
\* marked that should not be.
MarkInv == main = "joining" => MapInv /\ SoundInv /\ CompleteInv

\* gc(), "mark & trace", before sweep(): everything the program can reach from
\* its roots is marked.
ReachableMarked ==
    main = "traced" => Reachable(start.roots, Object) \subseteq marked

\* start_trace returns: the workers do not wait for each other for ever, unless
\* one has panicked, whom active_threads counts for good.
TraceReturns ==
    main = "joining" ~>
        main # "joining" \/ \E w \in Worker : At(w, "panicked")
=============================================================================
