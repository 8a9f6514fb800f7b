---------------------------- MODULE StopTheWorld ----------------------------
(***************************************************************************)
(* The stop-the-world handshake of immix-rust.                             *)
(*                                                                         *)
(* Mutator threads register in the arena MUTATORS, run, and leave.  A      *)
(* mutator that finds no usable block, or calls request_gc, raises         *)
(* everybody's take_yield flag (trigger_gc).  A mutator that sees its flag *)
(* at a yieldpoint enters sync_barrier: the first one wins the             *)
(* compare_exchange on CONTROLLER and becomes the controller, the others   *)
(* count themselves in STW_COND and wait on its condition variable.  The   *)
(* controller spins until N_MUTATORS - 1 mutators are counted, collects,   *)
(* gives CONTROLLER up, clears all flags and notifies the waiters.         *)
(*                                                                         *)
(* Every step below is one access to shared state: an atomic load, store   *)
(* or compare_exchange, one iteration of a loop under the MUTATORS lock,   *)
(* or a critical section of the STW_COND mutex.                            *)
(***************************************************************************)
EXTENDS Integers, FiniteSets

CONSTANTS
    Mutator,        \* slots of the arena; a slot is one mutator at a time
    Initial,        \* the mutators registered before the first one runs
    None,           \* NO_CONTROLLER, and "nobody holds the lock"
    Registration,   \* when ImmixMutatorLocal::new may be called, see MayRegister
    MayDrop,        \* may a mutator go out of scope without destroy()?
    MayPanic        \* may gc() panic (out of memory, or a tracing thread)?

ASSUME MutatorAssumption ==
    /\ IsFiniteSet(Mutator)
    /\ Initial \subseteq Mutator
    /\ None \notin Mutator
    /\ Registration \in {"closed", "quiescent", "open"}
    /\ MayDrop \in BOOLEAN
    /\ MayPanic \in BOOLEAN

VARIABLES
    pc,             \* where each mutator's thread is, see Location
    MUTATORS,       \* the arena: the registered mutators
    N_MUTATORS,     \* the atomic counter kept beside the arena
    mutators_lock,  \* holder of MUTATORS.write() while it walks the arena
    iter,           \* what is left of that walk
    take_yield,     \* ImmixMutatorGlobal.take_yield
    still_blocked,  \* ImmixMutatorGlobal.still_blocked
    CONTROLLER,     \* the controller, or None
    stw_lock,       \* holder of the mutex of STW_COND
    stw_count,      \* the number that mutex guards
    seen            \* the controller's local variable count

arena == <<MUTATORS, N_MUTATORS, mutators_lock, iter>>
flags == <<take_yield, still_blocked>>
stw   == <<stw_lock, stw_count, seen>>
vars  == <<pc, arena, flags, CONTROLLER, stw>>

(***************************************************************************)
(* Program locations.                                                      *)
(*   absent        the slot is free                                        *)
(*   mutator       in the user's code or in the allocator                  *)
(*   trigger_lock  in trigger_gc, before MUTATORS.write()                  *)
(*   trigger       in trigger_gc, walking the arena                        *)
(*   poll          at the yieldpoint that follows every trigger_gc         *)
(*   destroy       in destroy(), before MUTATORS.write()                   *)
(*   barrier       in sync_barrier, before the compare_exchange            *)
(*   lead, follow  after it, before the roots are published                *)
(*   count, read   the controller's waiting loop                           *)
(*   gc            the controller is in gc()                               *)
(*   clear         CONTROLLER is free again, before MUTATORS.write()       *)
(*   clearing      the controller lowers the flags                         *)
(*   resume        flags lowered, before the STW_COND mutex                *)
(*   park          a follower before the STW_COND mutex                    *)
(*   parked        a counted follower that holds the mutex                 *)
(*   waiting       in Condvar::wait                                        *)
(*   woken         notified, before it has the mutex again                 *)
(*   dropped       gone without destroy(), still in the arena              *)
(*   dead          the thread panicked inside gc()                         *)
(***************************************************************************)
Outside   == {"absent", "mutator", "trigger_lock", "trigger", "poll", "destroy"}
Leading   == {"lead", "count", "read", "gc", "dead"}
Releasing == {"clear", "clearing", "resume"}
Counted   == {"parked", "waiting"}
Following == {"follow", "park"} \cup Counted
Location  == Outside \cup {"barrier", "woken", "dropped"}
                     \cup Leading \cup Releasing \cup Following

At(m, l) == pc[m] = l
Goto(m, l) == pc' = [pc EXCEPT ![m] = l]

Parked == {m \in Mutator : pc[m] \in Counted}

(***************************************************************************)
(* Registration.                                                           *)
(***************************************************************************)

\* Nobody is inside sync_barrier (a thread that panicked in gc() never left it).
Quiescent == \A m \in Mutator : pc[m] \in Outside \cup {"dropped"}

(***************************************************************************)
(* The code puts no condition on when new() is called.  What the programs  *)
(* that use it do is the constant Registration: "closed" when every mutator *)
(* exists before the first one runs (benches/large_alloc.rs holds them at a *)
(* barrier), "quiescent" when mutators come while no collection is under   *)
(* way, "open" when they come at any time.                                 *)
(***************************************************************************)
MayRegister == \/ Registration = "open"
               \/ Registration = "quiescent" /\ Quiescent

Init ==
    /\ pc = [m \in Mutator |-> IF m \in Initial THEN "mutator" ELSE "absent"]
    /\ MUTATORS = Initial
    /\ N_MUTATORS = Cardinality(Initial)
    /\ mutators_lock = None
    /\ iter = {}
    /\ take_yield = [m \in Mutator |-> FALSE]
    /\ still_blocked = [m \in Mutator |-> FALSE]
    /\ CONTROLLER = None
    /\ stw_lock = None
    /\ stw_count = 0
    /\ seen = [m \in Mutator |-> 0]

\* ImmixMutatorLocal::new: the insertion and the increment are under the lock,
\* and the flags of a new ImmixMutatorGlobal are down.
New(m) ==
    /\ At(m, "absent")
    /\ MayRegister
    /\ mutators_lock = None
    /\ MUTATORS' = MUTATORS \cup {m}
    /\ N_MUTATORS' = N_MUTATORS + 1
    /\ take_yield' = [take_yield EXCEPT ![m] = FALSE]
    /\ still_blocked' = [still_blocked EXCEPT ![m] = FALSE]
    /\ Goto(m, "mutator")
    /\ UNCHANGED <<mutators_lock, iter, CONTROLLER, stw>>

\* destroy() first returns the block, which is local to this module's view ...
BeginDestroy(m) ==
    /\ At(m, "mutator")
    /\ Goto(m, "destroy")
    /\ UNCHANGED <<arena, flags, CONTROLLER, stw>>

\* Variant of Destroy: no fetch_sub.
DestroyKeepsCount(m) ==
    /\ At(m, "destroy")
    /\ mutators_lock = None
    /\ MUTATORS' = MUTATORS \ {m}
    /\ Goto(m, "absent")
    /\ UNCHANGED <<N_MUTATORS, mutators_lock, iter, flags, CONTROLLER, stw>>

\* ... and then leaves the arena and the count, under the lock.
Destroy(m) ==
    /\ At(m, "destroy")
    /\ mutators_lock = None
    /\ MUTATORS' = MUTATORS \ {m}
    /\ N_MUTATORS' = N_MUTATORS - 1
    /\ Goto(m, "absent")
    /\ UNCHANGED <<mutators_lock, iter, flags, CONTROLLER, stw>>

\* The value goes out of scope: there is no Drop for ImmixMutatorLocal, so the
\* arena and N_MUTATORS keep it.
DropMutator(m) ==
    /\ MayDrop
    /\ At(m, "mutator")
    /\ Goto(m, "dropped")
    /\ UNCHANGED <<arena, flags, CONTROLLER, stw>>

(***************************************************************************)
(* Walks of the arena under MUTATORS.write().                              *)
(***************************************************************************)
StartWalk(m) ==
    /\ mutators_lock = None
    /\ mutators_lock' = m
    /\ iter' = MUTATORS
    /\ UNCHANGED <<MUTATORS, N_MUTATORS>>

\* Visits x; the guard is dropped, and the walker moves on, after the last one.
WalkTo(m, x, next) ==
    /\ iter' = iter \ {x}
    /\ IF iter = {x}
       THEN mutators_lock' = None /\ Goto(m, next)
       ELSE UNCHANGED <<mutators_lock, pc>>
    /\ UNCHANGED <<MUTATORS, N_MUTATORS>>

(***************************************************************************)
(* Asking for a collection: get_next_usable_block found no block, or the   *)
(* user called request_gc.                                                 *)
(***************************************************************************)
RequestGC(m) ==
    /\ At(m, "mutator")
    /\ Goto(m, "trigger_lock")
    /\ UNCHANGED <<arena, flags, CONTROLLER, stw>>

TriggerLock(m) ==
    /\ At(m, "trigger_lock")
    /\ StartWalk(m)
    /\ Goto(m, "trigger")
    /\ UNCHANGED <<flags, CONTROLLER, stw>>

\* Variant of TriggerVisit: the walk raises the walker's own flag only.
TriggerVisitOwnFlag(m) ==
    /\ At(m, "trigger")
    /\ \E x \in iter :
        /\ take_yield' = [take_yield EXCEPT ![m] = TRUE]
        /\ WalkTo(m, x, "poll")
    /\ UNCHANGED <<still_blocked, CONTROLLER, stw>>

TriggerVisit(m) ==
    /\ At(m, "trigger")
    /\ \E x \in iter :
        /\ take_yield' = [take_yield EXCEPT ![x] = TRUE]
        /\ WalkTo(m, x, "poll")
    /\ UNCHANGED <<still_blocked, CONTROLLER, stw>>

\* yieldpoint(), wherever the user's code, the allocator or request_gc has one.
Yieldpoint(m) ==
    /\ pc[m] \in {"mutator", "poll"}
    /\ Goto(m, IF take_yield[m] THEN "barrier" ELSE "mutator")
    /\ UNCHANGED <<arena, flags, CONTROLLER, stw>>

(***************************************************************************)
(* sync_barrier.                                                           *)
(***************************************************************************)

\* Variant of Lead: a store without the comparison.
LeadUnconditionally(m) ==
    /\ At(m, "barrier")
    /\ CONTROLLER' = m
    /\ Goto(m, "lead")
    /\ UNCHANGED <<arena, flags, stw>>

\* CONTROLLER.compare_exchange succeeds.
Lead(m) ==
    /\ At(m, "barrier")
    /\ CONTROLLER = None
    /\ CONTROLLER' = m
    /\ Goto(m, "lead")
    /\ UNCHANGED <<arena, flags, stw>>

\* CONTROLLER.compare_exchange fails.
Follow(m) ==
    /\ At(m, "barrier")
    /\ CONTROLLER # None
    /\ Goto(m, "follow")
    /\ UNCHANGED <<arena, flags, CONTROLLER, stw>>

\* prepare_for_gc, stack_scan and the append to ROOTS, whose lock gc() holds
\* from its first to its last line.
Prepare(m) ==
    /\ pc[m] \in {"lead", "follow"}
    /\ \A t \in Mutator : pc[t] # "gc"
    /\ Goto(m, IF pc[m] = "lead" THEN "count" ELSE "park")
    /\ seen' = [seen EXCEPT ![m] = 0]
    /\ UNCHANGED <<arena, flags, CONTROLLER, stw_lock, stw_count>>

\* Variant of CountCheck: the controller forgets that it has subtracted itself.
CountCheckOffByOne(m) ==
    /\ At(m, "count")
    /\ Goto(m, IF seen[m] < N_MUTATORS - 2 THEN "read" ELSE "gc")
    /\ UNCHANGED <<arena, flags, CONTROLLER, stw>>

\* The test of the waiting loop, on the local copy of the count.
CountCheck(m) ==
    /\ At(m, "count")
    /\ Goto(m, IF seen[m] < N_MUTATORS - 1 THEN "read" ELSE "gc")
    /\ UNCHANGED <<arena, flags, CONTROLLER, stw>>

\* Its body: the count is copied under the mutex.
ReadCount(m) ==
    /\ At(m, "read")
    /\ stw_lock = None
    /\ seen' = [seen EXCEPT ![m] = stw_count]
    /\ Goto(m, "count")
    /\ UNCHANGED <<arena, flags, CONTROLLER, stw_lock, stw_count>>

\* gc() returns and CONTROLLER is given up, before anybody is woken.
FinishGC(m) ==
    /\ At(m, "gc")
    /\ CONTROLLER' = None
    /\ Goto(m, "clear")
    /\ UNCHANGED <<arena, flags, stw>>

\* gc() panics: the thread unwinds, everything else stays as it is.
PanicInGC(m) ==
    /\ MayPanic
    /\ At(m, "gc")
    /\ Goto(m, "dead")
    /\ UNCHANGED <<arena, flags, CONTROLLER, stw>>

ClearLock(m) ==
    /\ At(m, "clear")
    /\ StartWalk(m)
    /\ Goto(m, "clearing")
    /\ UNCHANGED <<flags, CONTROLLER, stw>>

\* Variant of ClearVisit: only take_yield is lowered.
ClearVisitKeepsBlocked(m) ==
    /\ At(m, "clearing")
    /\ \E x \in iter :
        /\ take_yield' = [take_yield EXCEPT ![x] = FALSE]
        /\ WalkTo(m, x, "resume")
    /\ UNCHANGED <<still_blocked, CONTROLLER, stw>>

ClearVisit(m) ==
    /\ At(m, "clearing")
    /\ \E x \in iter :
        /\ take_yield' = [take_yield EXCEPT ![x] = FALSE]
        /\ still_blocked' = [still_blocked EXCEPT ![x] = FALSE]
        /\ WalkTo(m, x, "resume")
    /\ UNCHANGED <<CONTROLLER, stw>>

\* Variants of Resume: the count is not zeroed ...
ResumeKeepsCount(m) ==
    /\ At(m, "resume")
    /\ stw_lock = None
    /\ pc' = [t \in Mutator |-> IF t = m THEN "mutator"
                                ELSE IF pc[t] = "waiting" THEN "woken"
                                ELSE pc[t]]
    /\ UNCHANGED <<arena, flags, CONTROLLER, stw>>

\* ... or one waiter is notified, not all.
ResumeNotifiesOne(m) ==
    /\ At(m, "resume")
    /\ stw_lock = None
    /\ stw_count' = 0
    /\ \E w \in Mutator \ {m} :
        /\ (\E t \in Mutator : At(t, "waiting")) => At(w, "waiting")
        /\ pc' = [t \in Mutator |-> IF t = m THEN "mutator"
                                    ELSE IF t = w /\ pc[t] = "waiting" THEN "woken"
                                    ELSE pc[t]]
    /\ UNCHANGED <<arena, flags, CONTROLLER, stw_lock, seen>>

\* The controller resets itself, zeroes the count and notifies all waiters.
Resume(m) ==
    /\ At(m, "resume")
    /\ stw_lock = None
    /\ stw_count' = 0
    /\ pc' = [t \in Mutator |-> IF t = m THEN "mutator"
                                ELSE IF pc[t] = "waiting" THEN "woken"
                                ELSE pc[t]]
    /\ UNCHANGED <<arena, flags, CONTROLLER, stw_lock, seen>>

(***************************************************************************)
(* block_current_thread.                                                   *)
(***************************************************************************)

\* Takes the mutex, counts itself, raises its still_blocked.
Park(m) ==
    /\ At(m, "park")
    /\ stw_lock = None
    /\ stw_lock' = m
    /\ stw_count' = stw_count + 1
    /\ still_blocked' = [still_blocked EXCEPT ![m] = TRUE]
    /\ Goto(m, "parked")
    /\ UNCHANGED <<arena, take_yield, CONTROLLER, seen>>

\* Tests the flag: waits, which releases the mutex, or returns and resets itself.
TestFlag(m) ==
    /\ At(m, "parked")
    /\ stw_lock' = None
    /\ Goto(m, IF still_blocked[m] THEN "waiting" ELSE "mutator")
    /\ UNCHANGED <<arena, flags, CONTROLLER, stw_count, seen>>

\* Woken, it tests the flag again under the mutex.
Wake(m) ==
    /\ At(m, "woken")
    /\ stw_lock = None
    /\ Goto(m, IF still_blocked[m] THEN "waiting" ELSE "mutator")
    /\ UNCHANGED <<arena, flags, CONTROLLER, stw>>

-----------------------------------------------------------------------------
\* What a program decides to do.
User(m) == New(m) \/ BeginDestroy(m) \/ DropMutator(m) \/ RequestGC(m)

\* What a thread does by itself once it is inside the collector's code.
Protocol(m) ==
    \/ Destroy(m) \/ TriggerLock(m) \/ TriggerVisit(m) \/ Yieldpoint(m)
    \/ Lead(m) \/ Follow(m) \/ Prepare(m) \/ CountCheck(m) \/ ReadCount(m)
    \/ FinishGC(m) \/ ClearLock(m) \/ ClearVisit(m) \/ Resume(m)
    \/ Park(m) \/ TestFlag(m) \/ Wake(m)

Next == \E m \in Mutator : User(m) \/ Protocol(m) \/ PanicInGC(m)

Spec == Init /\ [][Next]_vars

(***************************************************************************)
(* Fairness: the scheduler runs every thread, and a running mutator        *)
(* reaches a yieldpoint again and again (README.md: "GC won't be able to   *)
(* stop a mutator unless this function is put into code").  Nothing the    *)
(* user may decide is fair.                                                *)
(***************************************************************************)
FairSpec == Spec /\ \A m \in Mutator : WF_vars(Protocol(m))

(***************************************************************************)
(* Properties.                                                             *)
(***************************************************************************)

\* Type invariant.  The two counters never exceed the number of slots.
TypeOK ==
    /\ pc \in [Mutator -> Location]
    /\ MUTATORS \subseteq Mutator
    /\ N_MUTATORS \in 0 .. Cardinality(Mutator)
    /\ mutators_lock \in Mutator \cup {None}
    /\ iter \subseteq Mutator
    /\ take_yield \in [Mutator -> BOOLEAN]
    /\ still_blocked \in [Mutator -> BOOLEAN]
    /\ CONTROLLER \in Mutator \cup {None}
    /\ stw_lock \in Mutator \cup {None}
    /\ stw_count \in 0 .. Cardinality(Mutator)
    /\ seen \in [Mutator -> 0 .. Cardinality(Mutator)]

\* gc/mod.rs:209, "everyone stopped, gc will start": while one mutator is in
\* gc(), every other registered mutator waits on the condition variable.
WorldStopped ==
    \A c \in Mutator : At(c, "gc") =>
        \A m \in MUTATORS \ {c} : At(m, "waiting")

\* No wake-up is lost: a thread that notify_all woke finds its still_blocked
\* down.  (One that finds it up waits again, although the count it had added
\* itself to is already zero, so no later collection can count it.)
WokenMayLeave == \A m \in Mutator : At(m, "woken") => ~ still_blocked[m]

\* The assert_ne! of sync_barrier: a mutator whose compare_exchange fails never
\* reads its own index; and two threads never collect or release at once.
OneController ==
    /\ \A m \in Mutator : At(m, "barrier") => CONTROLLER # m
    /\ \A a, b \in Mutator :
        pc[a] \in Leading \cup Releasing /\ pc[b] \in Leading \cup Releasing
            => a = b

\* A collection that found its controller ends ...
CollectionCompletes == CONTROLLER # None ~> CONTROLLER = None

\* ... every mutator that followed it runs again (gc/mod.rs:214, "mutators will
\* resume") ...
FollowersResume ==
    \A m \in Mutator : pc[m] \in Following \cup {"woken"} ~> At(m, "mutator")

\* ... and no request gets lost between the flags, the election and the release:
\* every trigger_gc is followed by a collection.
RequestServed ==
    \A m \in Mutator : At(m, "trigger") ~> \E c \in Mutator : At(c, "gc")

(***************************************************************************)
(* The inductive invariant behind the safety properties.  It holds when    *)
(* nobody registers while somebody is in sync_barrier.                     *)
(***************************************************************************)
Waiting == {m \in Mutator : At(m, "waiting")}

\* The arena, its counter and the slots agree.
ArenaInv ==
    /\ MUTATORS = {m \in Mutator : ~ At(m, "absent")}
    /\ N_MUTATORS = Cardinality(MUTATORS)

\* Who holds which lock, and that CONTROLLER names the thread that leads.
OwnerInv ==
    \A m \in Mutator :
        /\ mutators_lock = m <=> pc[m] \in {"trigger", "clearing"}
        /\ stw_lock = m <=> At(m, "parked")
        /\ CONTROLLER = m <=> pc[m] \in Leading

\* The guarded number counts the followers, and the controller's copy of it
\* never counts a follower that is not waiting.
CountInv ==
    /\ stw_count = Cardinality(Parked)
    /\ \A c \in Mutator : pc[c] \in {"count", "read"} =>
        seen[c] <= Cardinality(Waiting)

\* From the start of a collection to its release everybody else waits.
StoppedInv ==
    \A c \in Mutator : pc[c] \in {"gc", "dead"} \cup Releasing =>
        \A m \in MUTATORS \ {c} : At(m, "waiting")

\* Nobody follows, or waits, without a controller that will release it.
LedInv ==
    \A m \in Mutator : pc[m] \in Following =>
        \E c \in Mutator : pc[c] \in Leading \cup Releasing

\* still_blocked is up from Park on, and down when notify_all comes.
FlagInv ==
    \A m \in Mutator :
        /\ At(m, "parked") => still_blocked[m]
        /\ At(m, "woken") => ~ still_blocked[m]
        /\ At(m, "clearing") => \A x \in MUTATORS \ iter : ~ still_blocked[x]
        /\ At(m, "resume") => \A x \in MUTATORS : ~ still_blocked[x]

\* The counts, the locks, the flags and the places of the threads stay
\* consistent through every interleaving of registration, election, counting
\* and release (gc/mod.rs sync_barrier, block_current_thread).
HandshakeInv ==
    /\ ArenaInv
    /\ OwnerInv
    /\ CountInv
    /\ StoppedInv
    /\ LedInv
    /\ FlagInv

(***************************************************************************)
(* The handshake implements Safepoint.                                     *)
(***************************************************************************)
Phase == IF \E c \in Mutator : pc[c] \in {"gc", "dead"} THEN "collecting"
         ELSE IF \E c \in Mutator : pc[c] \in Releasing THEN "releasing"
         ELSE "running"

SP == INSTANCE Safepoint WITH registered <- MUTATORS, parked <- Parked,
                              phase <- Phase

\* Nobody is counted, registered or destroyed from the moment a collection
\* starts until notify_all releases every waiter in one step.
ImplementsSafepoint == SP!Spec
=============================================================================
