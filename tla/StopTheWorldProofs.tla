------------------------- MODULE StopTheWorldProofs -------------------------
(***************************************************************************)
(* The stop-the-world handshake is safe for any number of mutators, as     *)
(* long as nobody registers while somebody is in sync_barrier.             *)
(***************************************************************************)
EXTENDS StopTheWorld, FiniteSetTheorems, TLAPS

\* Every set of mutators is finite and no larger than the arena.
LEMMA SlotSets ==
    /\ Cardinality(Mutator) \in Nat
    /\ \A S \in SUBSET Mutator :
        /\ IsFiniteSet(S)
        /\ Cardinality(S) \in 0 .. Cardinality(Mutator)
  <1>1. Cardinality(Mutator) \in Nat
    BY FS_CardinalityType, MutatorAssumption
  <1>2. ASSUME NEW S \in SUBSET Mutator
        PROVE  /\ IsFiniteSet(S)
               /\ Cardinality(S) \in 0 .. Cardinality(Mutator)
    <2>1. IsFiniteSet(S) /\ Cardinality(S) <= Cardinality(Mutator)
      BY FS_Subset, MutatorAssumption
    <2>2. Cardinality(S) \in Nat
      BY <2>1, FS_CardinalityType
    <2> QED
      BY <1>1, <2>1, <2>2
  <1> QED
    BY <1>1, <1>2

\* The initial state satisfies the type and the inductive invariant: nobody is
\* in sync_barrier and the counter counts the initial mutators.
LEMMA HandshakeInit == Init => TypeOK /\ HandshakeInv
  <1> SUFFICES ASSUME Init PROVE TypeOK /\ HandshakeInv
    OBVIOUS
  <1>1. TypeOK
    BY SlotSets, MutatorAssumption
    DEF Init, TypeOK, Location, Outside
  <1>2. ArenaInv
    BY MutatorAssumption DEF Init, ArenaInv, At
  <1>3. OwnerInv /\ StoppedInv /\ LedInv /\ FlagInv
    BY MutatorAssumption
    DEF Init, OwnerInv, StoppedInv, LedInv, FlagInv, At, Leading, Releasing,
        Following, Counted
  <1>4. CountInv
    <2>1. Parked = {}
      BY DEF Init, Parked, Counted
    <2>2. \A c \in Mutator : pc[c] \notin {"count", "read"}
      BY DEF Init
    <2> QED
      BY <2>1, <2>2, FS_EmptySet DEF Init, CountInv
  <1> QED
    BY <1>1, <1>2, <1>3, <1>4 DEF HandshakeInv

\* A thread that moves keeps the others led, if it does not leave the
\* controller's places and follows only where a controller is.
LEMMA LedKept ==
    ASSUME TypeOK, LedInv, NEW m \in Mutator, NEW l, Goto(m, l),
           pc[m] \in Leading \cup Releasing => l \in Leading \cup Releasing,
           l \in Following =>
               \E c \in Mutator : pc[c] \in Leading \cup Releasing
    PROVE  LedInv'
  <1> SUFFICES ASSUME NEW t \in Mutator, pc'[t] \in Following
               PROVE  \E c \in Mutator : pc'[c] \in Leading \cup Releasing
    BY DEF LedInv
  <1>1. PICK c \in Mutator : pc[c] \in Leading \cup Releasing
    BY DEF LedInv, TypeOK, Goto
  <1>2. pc'[c] \in Leading \cup Releasing
    BY <1>1 DEF TypeOK, Goto
  <1> QED
    BY <1>2

\* Steps that touch neither the arena, the flags nor the guarded count.
LEMMA LocalSteps ==
    ASSUME TypeOK, HandshakeInv, NEW m \in Mutator,
           \/ BeginDestroy(m) \/ DropMutator(m) \/ RequestGC(m) \/ Yieldpoint(m)
           \/ Lead(m) \/ Follow(m) \/ Prepare(m) \/ FinishGC(m) \/ PanicInGC(m)
    PROVE  TypeOK' /\ HandshakeInv'
  <1> USE DEF BeginDestroy, DropMutator, RequestGC, Yieldpoint, Lead, Follow,
              Prepare, FinishGC, PanicInGC
  <1>1. TypeOK'
    BY SlotSets DEF TypeOK, Goto, arena, flags, stw, Location, Outside,
       Leading, Releasing, Following, Counted
  <1>2. ArenaInv'
    BY DEF HandshakeInv, ArenaInv, TypeOK, Goto, At, arena
  <1>3. OwnerInv'
    BY MutatorAssumption
    DEF HandshakeInv, OwnerInv, TypeOK, Goto, At, arena, stw, Leading
  <1>4. CountInv'
    <2>1. Parked' = Parked /\ Waiting' = Waiting
      BY DEF TypeOK, Goto, Parked, Waiting, At, Counted
    <2>2. Cardinality(Waiting) \in Nat
      BY SlotSets DEF Waiting
    <2> QED
      BY <2>1, <2>2 DEF HandshakeInv, CountInv, TypeOK, Goto, At, stw
  <1>5. StoppedInv'
    BY DEF HandshakeInv, ArenaInv, StoppedInv, OwnerInv, TypeOK, Goto, At,
       arena, Leading, Releasing
  <1>6. FlagInv'
    BY DEF HandshakeInv, FlagInv, TypeOK, Goto, At, arena, flags
  <1>led. LedInv'
    <2>1. pc[m] = "follow" \/ Follow(m) =>
            \E c \in Mutator : pc[c] \in Leading \cup Releasing
      BY DEF HandshakeInv, OwnerInv, LedInv, TypeOK, Following
    <2>2. PICK l : Goto(m, l) /\ \/ l \notin Following
                                 \/ pc[m] = "follow" \/ Follow(m)
      BY DEF At, Following, Counted
    <2>3. pc[m] \in Leading \cup Releasing => l \in Leading \cup Releasing
      <3>1. l = pc'[m]
        BY <2>2 DEF TypeOK, Goto
      <3> QED
        BY <3>1 DEF TypeOK, Goto, At, Leading, Releasing
    <2> QED
      BY <2>1, <2>2, <2>3, LedKept DEF HandshakeInv
  <1> QED
    BY <1>led, <1>1, <1>2, <1>3, <1>4, <1>5, <1>6 DEF HandshakeInv

\* Registration: nobody is in sync_barrier, so no count and no collection is
\* under way that the new mutator could have been left out of.
LEMMA NewStep ==
    ASSUME TypeOK, HandshakeInv, Registration # "open",
           NEW m \in Mutator, New(m)
    PROVE  TypeOK' /\ HandshakeInv'
  <1>1. \A t \in Mutator : pc[t] \in Outside \cup {"dropped"}
    BY DEF New, MayRegister, Quiescent
  <1>2. IsFiniteSet(MUTATORS) /\ m \notin MUTATORS
    BY SlotSets DEF TypeOK, HandshakeInv, ArenaInv, New, At
  <1>3. ArenaInv'
    <2>1. MUTATORS' = {t \in Mutator : ~ At(t, "absent")'}
      BY DEF New, HandshakeInv, ArenaInv, TypeOK, Goto, At
    <2>2. Cardinality(MUTATORS') = Cardinality(MUTATORS) + 1
      BY <1>2, FS_AddElement DEF New
    <2> QED
      BY <2>1, <2>2 DEF New, HandshakeInv, ArenaInv
  <1>4. TypeOK'
    <2>1. MUTATORS' \in SUBSET Mutator
      BY DEF New, TypeOK
    <2>2. N_MUTATORS' \in 0 .. Cardinality(Mutator)
      BY <1>3, <2>1, SlotSets DEF ArenaInv
    <2> QED
      BY <2>1, <2>2 DEF New, TypeOK, Goto, stw, Location, Outside
  <1>5. OwnerInv'
    BY MutatorAssumption
    DEF New, HandshakeInv, OwnerInv, TypeOK, Goto, At, stw, Leading
  <1>6. CountInv'
    <2>1. Parked' = Parked /\ Waiting' = Waiting
      BY DEF New, TypeOK, Goto, Parked, Waiting, At, Counted
    <2> QED
      BY <2>1 DEF New, HandshakeInv, CountInv, TypeOK, Goto, At, stw
  <1>7. StoppedInv'
    BY <1>1 DEF New, StoppedInv, TypeOK, Goto, At, Outside, Releasing
  <1>8. FlagInv'
    BY <1>1 DEF New, HandshakeInv, FlagInv, TypeOK, Goto, At, Outside
  <1>led. LedInv'
    BY LedKept
    DEF New, HandshakeInv, At, Leading, Releasing, Following, Counted
  <1> QED
    BY <1>led, <1>3, <1>4, <1>5, <1>6, <1>7, <1>8 DEF HandshakeInv

\* Deregistration: the mutator is not counted, and while a collection is under
\* way nobody is in destroy().
LEMMA DestroyStep ==
    ASSUME TypeOK, HandshakeInv, NEW m \in Mutator, Destroy(m)
    PROVE  TypeOK' /\ HandshakeInv'
  <1>1. IsFiniteSet(MUTATORS) /\ m \in MUTATORS
    BY SlotSets DEF TypeOK, HandshakeInv, ArenaInv, Destroy, At
  <1>2. ArenaInv'
    <2>1. MUTATORS' = {t \in Mutator : ~ At(t, "absent")'}
      BY DEF Destroy, HandshakeInv, ArenaInv, TypeOK, Goto, At
    <2>2. Cardinality(MUTATORS') = Cardinality(MUTATORS) - 1
      BY <1>1, FS_RemoveElement DEF Destroy
    <2> QED
      BY <2>1, <2>2 DEF Destroy, HandshakeInv, ArenaInv
  <1>3. TypeOK'
    <2>1. MUTATORS' \in SUBSET Mutator
      BY DEF Destroy, TypeOK
    <2>2. N_MUTATORS' \in 0 .. Cardinality(Mutator)
      BY <1>2, <2>1, SlotSets DEF ArenaInv
    <2> QED
      BY <2>1, <2>2 DEF Destroy, TypeOK, Goto, flags, stw, Location, Outside
  <1>4. OwnerInv'
    BY MutatorAssumption
    DEF Destroy, HandshakeInv, OwnerInv, TypeOK, Goto, At, stw, Leading
  <1>5. CountInv'
    <2>1. Parked' = Parked /\ Waiting' = Waiting
      BY DEF Destroy, TypeOK, Goto, Parked, Waiting, At, Counted
    <2> QED
      BY <2>1 DEF Destroy, HandshakeInv, CountInv, TypeOK, Goto, At, stw
  <1>6. StoppedInv'
    BY DEF Destroy, HandshakeInv, StoppedInv, TypeOK, Goto, At, Releasing
  <1>7. FlagInv'
    BY DEF Destroy, HandshakeInv, FlagInv, TypeOK, Goto, At, flags
  <1>led. LedInv'
    BY LedKept
    DEF Destroy, HandshakeInv, At, Leading, Releasing, Following, Counted
  <1> QED
    BY <1>led, <1>2, <1>3, <1>4, <1>5, <1>6, <1>7 DEF HandshakeInv

\* The two walks of the arena: trigger_gc raises take_yield, the controller's
\* release lowers both flags, each under MUTATORS.write().
LEMMA WalkSteps ==
    ASSUME TypeOK, HandshakeInv, NEW m \in Mutator,
           \/ TriggerLock(m) \/ TriggerVisit(m)
           \/ ClearLock(m) \/ ClearVisit(m)
    PROVE  TypeOK' /\ HandshakeInv'
  <1> USE DEF TriggerLock, TriggerVisit, ClearLock, ClearVisit, StartWalk,
              WalkTo
  <1>1. TypeOK'
    BY DEF TypeOK, Goto, flags, stw, Location, Outside, Releasing
  <1>2. ArenaInv'
    BY DEF HandshakeInv, ArenaInv, TypeOK, Goto, At
  <1>3. OwnerInv'
    BY MutatorAssumption
    DEF HandshakeInv, OwnerInv, TypeOK, Goto, At, stw, Leading
  <1>4. CountInv'
    <2>1. Parked' = Parked /\ Waiting' = Waiting
      BY DEF TypeOK, Goto, Parked, Waiting, At, Counted
    <2> QED
      BY <2>1 DEF HandshakeInv, CountInv, TypeOK, Goto, At, stw
  <1>5. StoppedInv'
    BY DEF HandshakeInv, StoppedInv, OwnerInv, TypeOK, Goto, At, Releasing
  <1>6. FlagInv'
    BY DEF HandshakeInv, ArenaInv, FlagInv, StoppedInv, OwnerInv, TypeOK, Goto,
       At, flags, Releasing
  <1>led. LedInv'
    <2>1. pc' = pc => LedInv'
      BY DEF HandshakeInv, LedInv
    <2>2. pc' # pc => LedInv'
      BY LedKept DEF HandshakeInv, At, Leading, Releasing, Following, Counted
    <2> QED
      BY <2>1, <2>2
  <1> QED
    BY <1>led, <1>1, <1>2, <1>3, <1>4, <1>5, <1>6 DEF HandshakeInv

\* The heart of the handshake.  The controller's copy never exceeds the number
\* of waiting mutators, which are among the others registered: when it reaches
\* N_MUTATORS - 1, they are all of them.
LEMMA EverybodyElseWaits ==
    ASSUME TypeOK, HandshakeInv, NEW c \in Mutator,
           At(c, "count"), ~ (seen[c] < N_MUTATORS - 1)
    PROVE  \A m \in MUTATORS \ {c} : At(m, "waiting")
  <1>1. c \in MUTATORS /\ Waiting \in SUBSET (MUTATORS \ {c})
    BY DEF HandshakeInv, ArenaInv, TypeOK, Waiting, At
  <1>2. IsFiniteSet(MUTATORS)
    BY SlotSets DEF TypeOK
  <1>3. /\ IsFiniteSet(MUTATORS \ {c})
        /\ Cardinality(MUTATORS \ {c}) = N_MUTATORS - 1
    BY <1>1, <1>2, FS_RemoveElement DEF HandshakeInv, ArenaInv
  <1>4. /\ Cardinality(Waiting) <= Cardinality(MUTATORS \ {c})
        /\ Cardinality(MUTATORS \ {c}) = Cardinality(Waiting)
             => MUTATORS \ {c} = Waiting
    BY <1>1, <1>3, FS_Subset
  <1>5. Cardinality(Waiting) \in Nat
    BY SlotSets DEF Waiting
  <1>6. seen[c] <= Cardinality(Waiting) /\ seen[c] \in Int /\ N_MUTATORS \in Int
    BY SlotSets DEF HandshakeInv, CountInv, TypeOK, At
  <1>7. MUTATORS \ {c} = Waiting
    BY <1>3, <1>4, <1>5, <1>6
  <1> QED
    BY <1>7 DEF Waiting

\* The controller's waiting loop.  It reads the count only while nobody holds
\* the mutex, that is, while every counted follower already waits.
LEMMA CountingSteps ==
    ASSUME TypeOK, HandshakeInv, NEW m \in Mutator,
           CountCheck(m) \/ ReadCount(m)
    PROVE  TypeOK' /\ HandshakeInv'
  <1> USE DEF CountCheck, ReadCount
  <1>1. TypeOK'
    BY DEF TypeOK, Goto, arena, flags, stw, Location, Leading
  <1>2. ArenaInv'
    BY DEF HandshakeInv, ArenaInv, TypeOK, Goto, At, arena
  <1>3. OwnerInv'
    BY DEF HandshakeInv, OwnerInv, TypeOK, Goto, At, arena, stw, Leading
  <1>4. CountInv'
    <2>1. Parked' = Parked /\ Waiting' = Waiting
      BY DEF TypeOK, Goto, Parked, Waiting, At, Counted
    <2>2. CASE CountCheck(m)
      BY <2>1, <2>2 DEF HandshakeInv, CountInv, TypeOK, Goto, At, stw
    <2>3. CASE ReadCount(m)
      <3>1. Parked = Waiting
        BY <2>3, MutatorAssumption
        DEF HandshakeInv, OwnerInv, TypeOK, Parked, Waiting, At, Counted
      <3>2. stw_count = Cardinality(Waiting) /\ Cardinality(Waiting) \in Nat
        BY <3>1, SlotSets DEF HandshakeInv, CountInv, Waiting
      <3> QED
        BY <2>1, <2>3, <3>2 DEF HandshakeInv, CountInv, TypeOK, Goto, At
    <2> QED
      BY <2>2, <2>3
  <1>5. StoppedInv'
    <2>1. CASE CountCheck(m) /\ ~ (seen[m] < N_MUTATORS - 1)
      <3>1. \A t \in MUTATORS \ {m} : At(t, "waiting")
        BY <2>1, EverybodyElseWaits
      <3> QED
        BY <2>1, <3>1
        DEF HandshakeInv, ArenaInv, TypeOK, StoppedInv, Goto, At, arena,
            Releasing
    <2>2. CASE ~ (CountCheck(m) /\ ~ (seen[m] < N_MUTATORS - 1))
      BY <2>2 DEF HandshakeInv, ArenaInv, StoppedInv, TypeOK, Goto, At, arena,
                  Releasing
    <2> QED
      BY <2>1, <2>2
  <1>6. FlagInv'
    BY DEF HandshakeInv, FlagInv, TypeOK, Goto, At, arena, flags
  <1>led. LedInv'
    BY LedKept DEF HandshakeInv, At, Leading, Following, Counted
  <1> QED
    BY <1>led, <1>1, <1>2, <1>3, <1>4, <1>5, <1>6 DEF HandshakeInv

\* A follower takes the mutex, counts itself and raises its flag.  It cannot
\* come during a release: everybody but the controller waits then.
LEMMA ParkStep ==
    ASSUME TypeOK, HandshakeInv, NEW m \in Mutator, Park(m)
    PROVE  TypeOK' /\ HandshakeInv'
  <1>1. /\ Parked' = Parked \cup {m} /\ m \notin Parked
        /\ Waiting' = Waiting
    BY DEF Park, TypeOK, Goto, Parked, Waiting, At, Counted
  <1>2. Cardinality(Parked') = Cardinality(Parked) + 1
    <2>1. IsFiniteSet(Parked)
      BY SlotSets DEF Parked
    <2> QED
      BY <1>1, <2>1, FS_AddElement
  <1>3. stw_count' = Cardinality(Parked')
    BY <1>2 DEF Park, HandshakeInv, CountInv
  <1>4. TypeOK'
    <2>1. stw_count' \in 0 .. Cardinality(Mutator)
      <3>1. Parked' \in SUBSET Mutator
        BY DEF Parked
      <3> QED
        BY <1>3, <3>1, SlotSets
    <2> QED
      BY <2>1 DEF Park, TypeOK, Goto, arena, Location, Following, Counted
  <1>5. ArenaInv'
    BY DEF Park, HandshakeInv, ArenaInv, TypeOK, Goto, At, arena
  <1>6. OwnerInv'
    BY MutatorAssumption
    DEF Park, HandshakeInv, OwnerInv, TypeOK, Goto, At, arena, Leading
  <1>7. CountInv'
    BY <1>1, <1>3 DEF Park, HandshakeInv, CountInv, TypeOK, Goto, At
  <1>8. StoppedInv'
    BY DEF Park, HandshakeInv, ArenaInv, StoppedInv, TypeOK, Goto, At, arena,
       Releasing
  <1>9. FlagInv'
    BY DEF Park, HandshakeInv, ArenaInv, FlagInv, StoppedInv, TypeOK, Goto, At,
       arena, Releasing
  <1>led. LedInv'
    <2>1. \E c \in Mutator : pc[c] \in Leading \cup Releasing
      BY DEF Park, HandshakeInv, LedInv, At, Following
    <2> QED
      BY <2>1, LedKept
      DEF Park, HandshakeInv, At, Leading, Releasing
  <1> QED
    BY <1>led, <1>4, <1>5, <1>6, <1>7, <1>8, <1>9 DEF HandshakeInv

\* A counted follower finds its flag up and waits, a woken one finds it down
\* and leaves: neither changes who is counted.
LEMMA FlagSteps ==
    ASSUME TypeOK, HandshakeInv, NEW m \in Mutator, TestFlag(m) \/ Wake(m)
    PROVE  TypeOK' /\ HandshakeInv'
  <1> USE DEF TestFlag, Wake
  <1>1. /\ TestFlag(m) => Goto(m, "waiting")
        /\ Wake(m) => Goto(m, "mutator")
    BY DEF HandshakeInv, FlagInv, At
  <1>2. TypeOK'
    BY DEF TypeOK, Goto, arena, flags, stw, Location, Outside, Following,
       Counted
  <1>3. ArenaInv'
    BY DEF HandshakeInv, ArenaInv, TypeOK, Goto, At, arena
  <1>4. OwnerInv'
    BY <1>1, MutatorAssumption
    DEF HandshakeInv, OwnerInv, TypeOK, Goto, At, arena, stw, Leading
  <1>5. CountInv'
    <2>1. Parked' = Parked
      BY <1>1 DEF TypeOK, Goto, Parked, At, Counted
    <2>2. Waiting \in SUBSET Waiting' /\ Waiting' \in SUBSET Mutator
      BY <1>1 DEF TypeOK, Goto, Waiting, At
    <2>3. /\ Cardinality(Waiting) <= Cardinality(Waiting')
          /\ Cardinality(Waiting) \in Nat
          /\ Cardinality(Waiting') \in Nat
      BY <2>2, SlotSets, FS_Subset
    <2> QED
      BY <1>1, <2>1, <2>3, SlotSets
      DEF HandshakeInv, CountInv, TypeOK, Goto, At, stw
  <1>6. StoppedInv'
    BY <1>1 DEF HandshakeInv, ArenaInv, StoppedInv, TypeOK, Goto, At, arena,
                Releasing
  <1>7. FlagInv'
    BY <1>1 DEF HandshakeInv, FlagInv, TypeOK, Goto, At, arena, flags
  <1>led. LedInv'
    <2>1. TestFlag(m) => \E c \in Mutator : pc[c] \in Leading \cup Releasing
      BY DEF HandshakeInv, LedInv, At, Following, Counted
    <2> QED
      BY <1>1, <2>1, LedKept
      DEF HandshakeInv, At, Leading, Releasing, Following, Counted
  <1> QED
    BY <1>led, <1>2, <1>3, <1>4, <1>5, <1>6, <1>7 DEF HandshakeInv

\* The release: everybody else waits, with the flag down, so everybody is woken
\* and zero is the right count.
LEMMA ResumeStep ==
    ASSUME TypeOK, HandshakeInv, NEW m \in Mutator, Resume(m)
    PROVE  TypeOK' /\ HandshakeInv'
  <1>1. \A t \in MUTATORS \ {m} : At(t, "waiting")
    BY DEF Resume, HandshakeInv, StoppedInv, At, Releasing
  <1>2. \A t \in Mutator :
            pc'[t] = IF t = m THEN "mutator"
                     ELSE IF t \in MUTATORS THEN "woken" ELSE "absent"
    BY <1>1 DEF Resume, HandshakeInv, ArenaInv, TypeOK, At
  <1>3. Parked' = {}
    BY <1>2 DEF Parked, Counted
  <1>4. TypeOK'
    BY SlotSets DEF Resume, TypeOK, arena, flags, Location, Outside
  <1>5. ArenaInv'
    BY <1>2 DEF Resume, HandshakeInv, ArenaInv, TypeOK, At, arena
  <1>6. OwnerInv'
    BY <1>1, <1>2, MutatorAssumption
    DEF Resume, HandshakeInv, ArenaInv, OwnerInv, TypeOK, At, arena, Leading
  <1>7. CountInv'
    BY <1>2, <1>3, FS_EmptySet DEF Resume, CountInv
  <1>8. StoppedInv'
    BY <1>2 DEF StoppedInv, Releasing
  <1>9. FlagInv'
    BY <1>2 DEF Resume, HandshakeInv, FlagInv, At, flags, TypeOK
  <1>led. LedInv'
    BY <1>2 DEF LedInv, Following, Counted
  <1> QED
    BY <1>led, <1>4, <1>5, <1>6, <1>7, <1>8, <1>9 DEF HandshakeInv

\* Every step keeps the type and the inductive invariant.
LEMMA HandshakeNext ==
    ASSUME TypeOK, HandshakeInv, Registration # "open", [Next]_vars
    PROVE  TypeOK' /\ HandshakeInv'
  <1>1. CASE UNCHANGED vars
    BY <1>1 DEF vars, arena, flags, stw, TypeOK, HandshakeInv, ArenaInv,
       OwnerInv, CountInv, StoppedInv, LedInv, FlagInv, At, Parked, Waiting
  <1>2. CASE Next
    <2>1. PICK m \in Mutator : User(m) \/ Protocol(m) \/ PanicInGC(m)
      BY <1>2 DEF Next
    <2> QED
      BY <2>1, NewStep, DestroyStep, LocalSteps, WalkSteps, CountingSteps,
         ParkStep, FlagSteps, ResumeStep
      DEF User, Protocol
  <1> QED
    BY <1>1, <1>2

\* The inductive invariant holds in every reachable state: counts, locks, flags
\* and the places of the threads stay consistent.
THEOREM HandshakeConsistent ==
    ASSUME Registration # "open"
    PROVE  Spec => [](TypeOK /\ HandshakeInv)
  <1>1. Init => TypeOK /\ HandshakeInv
    BY HandshakeInit
  <1>2. TypeOK /\ HandshakeInv /\ [Next]_vars => (TypeOK /\ HandshakeInv)'
    BY HandshakeNext
  <1> QED
    BY <1>1, <1>2, PTL DEF Spec

\* Type correctness: the two counters stay between zero and the number of slots
\* (no fetch_sub of N_MUTATORS and no += 1 of the guarded count goes astray).
THEOREM TypeCorrect ==
    ASSUME Registration # "open"
    PROVE  Spec => []TypeOK
  BY HandshakeConsistent, PTL

\* gc() runs only while every other registered mutator waits on the condition
\* variable (sync_barrier, "everyone stopped, gc will start").
THEOREM WorldIsStopped ==
    ASSUME Registration # "open"
    PROVE  Spec => []WorldStopped
  <1>1. TypeOK /\ HandshakeInv => WorldStopped
    BY DEF HandshakeInv, StoppedInv, WorldStopped, At
  <1> QED
    BY <1>1, HandshakeConsistent, PTL

\* No wake-up is lost: what notify_all wakes finds its still_blocked down and
\* leaves block_current_thread.
THEOREM NoLostWakeup ==
    ASSUME Registration # "open"
    PROVE  Spec => []WokenMayLeave
  <1>1. TypeOK /\ HandshakeInv => WokenMayLeave
    BY DEF HandshakeInv, FlagInv, WokenMayLeave
  <1> QED
    BY <1>1, HandshakeConsistent, PTL

\* The assert_ne! of sync_barrier never fires and at most one thread leads or
\* releases, although CONTROLLER is given up before anybody is released.
THEOREM SingleController ==
    ASSUME Registration # "open"
    PROVE  Spec => []OneController
  <1>1. ASSUME TypeOK, HandshakeInv PROVE OneController
    <2>1. \A m \in Mutator : At(m, "barrier") => CONTROLLER # m
      BY <1>1 DEF HandshakeInv, OwnerInv, At, Leading
    <2>2. ASSUME NEW a \in Mutator, NEW b \in Mutator,
                 pc[a] \in Leading \cup Releasing,
                 pc[b] \in Leading \cup Releasing
          PROVE  a = b
      <3>1. CASE pc[a] \in Leading /\ pc[b] \in Leading
        BY <1>1, <3>1 DEF HandshakeInv, OwnerInv
      <3>2. CASE pc[a] \in Releasing \/ pc[b] \in Releasing
        BY <1>1, <2>2, <3>2
        DEF HandshakeInv, ArenaInv, StoppedInv, At, Leading, Releasing
      <3> QED
        BY <2>2, <3>1, <3>2
    <2> QED
      BY <2>1, <2>2 DEF OneController
  <1> QED
    BY <1>1, HandshakeConsistent, PTL

-----------------------------------------------------------------------------
(***************************************************************************)
(* The refinement.                                                         *)
(***************************************************************************)

\* A step that changes neither the registered nor the counted mutators nor who
\* collects or releases is a stuttering step of Safepoint.
LEMMA StutterSteps ==
    ASSUME TypeOK, HandshakeInv, NEW m \in Mutator,
           \/ BeginDestroy(m) \/ DropMutator(m) \/ RequestGC(m) \/ Yieldpoint(m)
           \/ Lead(m) \/ Follow(m) \/ Prepare(m) \/ PanicInGC(m)
           \/ TriggerLock(m) \/ TriggerVisit(m) \/ ClearLock(m) \/ ClearVisit(m)
           \/ ReadCount(m) \/ TestFlag(m) \/ Wake(m)
    PROVE  UNCHANGED <<MUTATORS, Parked, Phase>>
  <1> USE DEF BeginDestroy, DropMutator, RequestGC, Yieldpoint, Lead, Follow,
              Prepare, PanicInGC, TriggerLock, TriggerVisit, ClearLock,
              ClearVisit, ReadCount, TestFlag, Wake, StartWalk, WalkTo
  <1>1. MUTATORS' = MUTATORS
    BY DEF arena
  <1>2. Parked' = Parked
    BY DEF HandshakeInv, FlagInv, TypeOK, Goto, Parked, At, Counted
  <1>3. \/ pc' = pc
        \/ /\ \A t \in Mutator \ {m} : pc'[t] = pc[t]
           /\ pc[m] \in {"gc", "dead"} <=> pc'[m] \in {"gc", "dead"}
           /\ pc[m] \in Releasing <=> pc'[m] \in Releasing
    BY DEF TypeOK, Goto, At, Releasing
  <1>4. /\ (\E c \in Mutator : pc[c] \in {"gc", "dead"})
             <=> (\E c \in Mutator : pc'[c] \in {"gc", "dead"})
        /\ (\E c \in Mutator : pc[c] \in Releasing)
             <=> (\E c \in Mutator : pc'[c] \in Releasing)
    BY <1>3
  <1> QED
    BY <1>1, <1>2, <1>4 DEF Phase

\* The handshake implements Safepoint: collections start with everybody parked,
\* nobody joins, leaves or parks before the release, which frees everybody.
THEOREM HandshakeImplementsSafepoint ==
    ASSUME Registration # "open"
    PROVE  Spec => ImplementsSafepoint
  <1>1. Init => SP!Init
    BY DEF Init, SP!Init, Parked, Counted, Phase, Releasing
  <1>2. ASSUME TypeOK, HandshakeInv, (TypeOK /\ HandshakeInv)', [Next]_vars
        PROVE  [SP!Next]_(SP!abstract)
    <2>1. CASE UNCHANGED vars
      BY <2>1 DEF vars, arena, SP!abstract, Parked, Phase
    <2>2. ASSUME NEW m \in Mutator, User(m) \/ Protocol(m) \/ PanicInGC(m)
          PROVE  [SP!Next]_(SP!abstract)
      <3>1. CASE New(m)
        <4>1. \A t \in Mutator : pc[t] \in Outside \cup {"dropped"}
          BY <3>1 DEF New, MayRegister, Quiescent
        <4>2. Phase = "running" /\ Phase' = "running"
          BY <1>2, <3>1, <4>1
          DEF New, Goto, TypeOK, Phase, Outside, Releasing
        <4>3. Parked = {} /\ Parked' = {}
          BY <1>2, <3>1, <4>1
          DEF New, Goto, TypeOK, Parked, Counted, Outside
        <4>4. SP!Join(m)
          BY <1>2, <3>1, <4>2, <4>3
          DEF SP!Join, New, HandshakeInv, ArenaInv, At
        <4> QED
          BY <4>4 DEF SP!Next
      <3>2. CASE Destroy(m)
        <4>1. Phase = "running" /\ Phase' = "running"
          BY <1>2, <3>2
          DEF Destroy, Goto, TypeOK, HandshakeInv, ArenaInv, StoppedInv, At,
              Phase, Releasing
        <4>2. Parked' = Parked /\ m \notin Parked
          BY <1>2, <3>2 DEF Destroy, Goto, TypeOK, Parked, At, Counted
        <4>3. Parked # {} => MUTATORS \ Parked # {m}
          BY <1>2, <3>2
          DEF Destroy, HandshakeInv, ArenaInv, LedInv, At, Parked, Leading,
              Releasing, Following, Counted
        <4>4. SP!Leave(m)
          BY <1>2, <3>2, <4>1, <4>2, <4>3
          DEF SP!Leave, Destroy, HandshakeInv, ArenaInv, At
        <4> QED
          BY <4>4 DEF SP!Next
      <3>3. CASE Park(m)
        <4>1. Phase = "running" /\ Phase' = "running"
          BY <1>2, <3>3
          DEF Park, Goto, TypeOK, HandshakeInv, ArenaInv, StoppedInv, At,
              Phase, Releasing
        <4>2. Parked' = Parked \cup {m} /\ m \notin Parked
          BY <1>2, <3>3 DEF Park, Goto, TypeOK, Parked, At, Counted
        <4>3. MUTATORS \ Parked # {m}
          BY <1>2, <3>3
          DEF Park, HandshakeInv, ArenaInv, LedInv, At, Parked, Leading,
              Releasing, Following, Counted
        <4>4. SP!Park(m)
          BY <1>2, <3>3, <4>1, <4>2, <4>3
          DEF SP!Park, Park, HandshakeInv, ArenaInv, At, arena
        <4> QED
          BY <4>4 DEF SP!Next
      <3>4. CASE CountCheck(m)
        <4>1. CASE seen[m] < N_MUTATORS - 1
          <5>1. Parked' = Parked /\ Phase' = Phase
            BY <1>2, <3>4, <4>1
            DEF CountCheck, Goto, TypeOK, Parked, Phase, At, Counted, Releasing
          <5> QED
            BY <3>4, <5>1 DEF CountCheck, SP!abstract, arena
        <4>2. CASE ~ (seen[m] < N_MUTATORS - 1)
          <5>1. \A t \in MUTATORS \ {m} : At(t, "waiting")
            BY <1>2, <3>4, <4>2, EverybodyElseWaits DEF CountCheck
          <5>2. Parked = MUTATORS \ {m} /\ Parked' = Parked
            BY <1>2, <3>4, <4>2, <5>1
            DEF CountCheck, Goto, TypeOK, HandshakeInv, ArenaInv, Parked, At,
                Counted
          <5>3. Phase = "running"
            BY <1>2, <3>4, <5>1
            DEF CountCheck, HandshakeInv, ArenaInv, At, Phase, Releasing
          <5>4. Phase' = "collecting"
            BY <1>2, <3>4, <4>2 DEF CountCheck, Goto, TypeOK, Phase
          <5>5. SP!Collect(m)
            BY <1>2, <3>4, <5>2, <5>3, <5>4
            DEF SP!Collect, CountCheck, HandshakeInv, ArenaInv, At, arena
          <5> QED
            BY <5>5 DEF SP!Next
        <4> QED
          BY <4>1, <4>2
      <3>5. CASE FinishGC(m)
        <4>1. Phase = "collecting"
          BY <3>5 DEF FinishGC, Phase, At
        <4>2. Phase' = "releasing"
          BY <1>2, <3>5, MutatorAssumption
          DEF FinishGC, Goto, TypeOK, HandshakeInv, ArenaInv, StoppedInv, At,
              Phase, Releasing
        <4>3. Parked' = Parked
          BY <1>2, <3>5 DEF FinishGC, Goto, TypeOK, Parked, At, Counted
        <4>4. SP!Finish
          BY <3>5, <4>1, <4>2, <4>3 DEF SP!Finish, FinishGC, arena
        <4> QED
          BY <4>4 DEF SP!Next
      <3>6. CASE Resume(m)
        <4>1. Phase = "releasing"
          BY <1>2, <3>6
          DEF Resume, TypeOK, HandshakeInv, ArenaInv, StoppedInv, At, Phase,
              Releasing
        <4>2. \A t \in Mutator : pc'[t] \in {"mutator", "woken", "absent"}
          BY <1>2, <3>6
          DEF Resume, TypeOK, HandshakeInv, ArenaInv, StoppedInv, At, Releasing
        <4>3. Phase' = "running" /\ Parked' = {}
          BY <4>2 DEF Phase, Parked, Counted, Releasing
        <4>4. SP!Release
          BY <3>6, <4>1, <4>3 DEF SP!Release, Resume, arena
        <4> QED
          BY <4>4 DEF SP!Next
      <3> QED
        BY <1>2, <2>2, <3>1, <3>2, <3>3, <3>4, <3>5, <3>6, StutterSteps
        DEF User, Protocol, SP!abstract
    <2> QED
      BY <1>2, <2>1, <2>2 DEF Next
  <1> QED
    BY <1>1, <1>2, HandshakeConsistent, PTL
    DEF Spec, ImplementsSafepoint, SP!Spec
=============================================================================
