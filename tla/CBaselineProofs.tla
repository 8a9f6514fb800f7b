-------------------------- MODULE CBaselineProofs --------------------------
(***************************************************************************)
(* Proofs about the C version of the allocator, for any number of threads, *)
(* slots, blocks and large objects: the block lists, who owns a block,     *)
(* where an access can first leave the allocator's memory, the mutexes and *)
(* the accounts of the free list space.                                    *)
(***************************************************************************)
EXTENDS CBaseline, NumberFacts, FiniteSetTheorems, SequenceTheorems, TLAPS

(***************************************************************************)
(* Total.  PartialSums(f, n, ns) says that f adds up the first n sizes.    *)
(***************************************************************************)
Node == [size : Nat, next : Nat]

PartialSums(f, n, ns) ==
    /\ f \in [0 .. n -> Nat]
    /\ f[0] = 0
    /\ \A i \in 1 .. n : f[i] = f[i - 1] + ns[i].size

\* The recursive definition in Total has a solution.
LEMMA SumsExist ==
    ASSUME NEW ns \in Seq(Node)
    PROVE  \E f : PartialSums(f, Len(ns), ns)
<1> DEFINE Has(n) == \E f : PartialSums(f, n, ns)
           T == {n \in 0 .. Len(ns) : ~ Has(n)}
<1>0. Len(ns) \in Nat
  OBVIOUS
<1> SUFFICES ASSUME T # {} PROVE FALSE
  BY <1>0
<1>1. PICK n \in T : \A k \in T : n <= k
  <2>1. T \subseteq Nat
    BY <1>0
  <2> QED
    BY <2>1, LeastNatural, Zenon
<1>2. n # 0
  <2>1. PartialSums([i \in 0 .. 0 |-> 0], 0, ns)
    BY DEF PartialSums
  <2> QED
    BY <1>1, <2>1
<1>3. n - 1 \in 0 .. Len(ns) /\ n \in 1 .. Len(ns) /\ ~ (n <= n - 1)
  BY <1>0, <1>1, <1>2
<1>4. PICK f : PartialSums(f, n - 1, ns)
  BY <1>1, <1>3
<1> DEFINE g == [i \in 0 .. n |-> IF i = n THEN f[n - 1] + ns[n].size ELSE f[i]]
<1>5. ns[n].size \in Nat /\ f[n - 1] \in Nat /\ n \in Nat
  <2>1. ns[n] \in Node
    BY <1>3
  <2>2. n - 1 \in 0 .. n - 1 /\ n \in Nat
    BY <1>0, <1>3
  <2> QED
    BY <1>4, <2>1, <2>2 DEF Node, PartialSums
<1>6. PartialSums(g, n, ns)
  <2>1. g \in [0 .. n -> Nat] /\ g[0] = 0
    BY <1>2, <1>3, <1>4, <1>5 DEF PartialSums
  <2>2. ASSUME NEW i \in 1 .. n PROVE g[i] = g[i - 1] + ns[i].size
    <3>1. CASE i = n
      BY <1>5, <3>1
    <3>2. CASE i # n
      <4>1. i \in 1 .. n - 1 /\ g[i] = f[i] /\ g[i - 1] = f[i - 1]
        BY <1>5, <3>2
      <4> QED
        BY <1>4, <4>1 DEF PartialSums
    <3> QED
      BY <3>1, <3>2
  <2> QED
    BY <2>1, <2>2 DEF PartialSums
<1> QED
  BY <1>1, <1>6

\* Total is the last of the partial sums.
LEMMA TotalIs ==
    ASSUME NEW ns \in Seq(Node), NEW f, PartialSums(f, Len(ns), ns)
    PROVE  Total(ns) = f[Len(ns)]
<1> DEFINE n == Len(ns)
           Solves(g) == g = [i \in 0 .. n |-> IF i = 0 THEN 0 ELSE g[i - 1] + ns[i].size]
           sum == CHOOSE g : Solves(g)
<1>1. n \in Nat
  OBVIOUS
<1>2. Total(ns) = sum[n]
  BY Zenon DEF Total
<1> HIDE DEF n
<1>3. Solves(f)
  BY <1>1 DEF PartialSums, n
<1>4. Solves(sum)
  BY <1>3, Zenon
<1> HIDE DEF sum
<1>5. \A i \in 0 .. n : sum[i] = IF i = 0 THEN 0 ELSE sum[i - 1] + ns[i].size
  BY <1>4
<1>6. \A i \in 0 .. n : sum[i] = f[i]
  <2> DEFINE T == {i \in 0 .. n : sum[i] # f[i]}
  <2> SUFFICES ASSUME T # {} PROVE FALSE
    OBVIOUS
  <2>1. PICK i \in T : \A k \in T : i <= k
    <3>1. T \subseteq Nat
      BY <1>1
    <3> QED
      BY <3>1, LeastNatural, Zenon
  <2>2. i # 0
    BY <1>1, <1>5, <2>1 DEF PartialSums
  <2>3. i \in 1 .. n /\ i - 1 \in 0 .. n /\ ~ (i <= i - 1)
    BY <1>1, <2>1, <2>2
  <2>4. sum[i - 1] = f[i - 1]
    BY <2>1, <2>3
  <2>5. sum[i] = sum[i - 1] + ns[i].size
    BY <1>5, <2>2, <2>3
  <2>6. f[i] = f[i - 1] + ns[i].size
    BY <2>3 DEF PartialSums, n
  <2> QED
    BY <2>1, <2>4, <2>5, <2>6
<1> QED
  BY <1>1, <1>2, <1>6 DEF n

LEMMA TotalEmpty == Total(<<>>) = 0
<1> DEFINE f == [i \in 0 .. 0 |-> 0]
<1>1. PartialSums(f, Len(<<>>), <<>>)
  BY DEF PartialSums
<1>2. <<>> \in Seq(Node)
  OBVIOUS
<1> QED
  BY <1>1, <1>2, TotalIs

\* Links do not count; a node at the end does.
LEMMA TotalAppend ==
    ASSUME NEW ns \in Seq(Node), NEW ms \in Seq(Node), NEW node \in Node,
           Len(ms) = Len(ns), \A i \in 1 .. Len(ns) : ms[i].size = ns[i].size
    PROVE  /\ Total(Append(ms, node)) = Total(ns) + node.size
           /\ Total(ns) \in Nat
<1> DEFINE n == Len(ns)
           new == Append(ms, node)
<1>1. PICK f : PartialSums(f, n, ns)
  BY SumsExist
<1>2. Total(ns) = f[n] /\ f[n] \in Nat /\ n \in Nat /\ node.size \in Nat
  <2>1. n \in Nat /\ node.size \in Nat
    BY DEF Node
  <2>2. Total(ns) = f[n]
    BY <1>1, TotalIs
  <2> HIDE DEF n
  <2>3. f[n] \in Nat
    BY <1>1, <2>1 DEF PartialSums
  <2> QED
    BY <2>1, <2>2, <2>3
<1>3. /\ new \in Seq(Node) /\ Len(new) = n + 1 /\ new[n + 1] = node
      /\ \A i \in 1 .. n : new[i] = ms[i]
  OBVIOUS
<1> HIDE DEF n, new
<1> DEFINE g == [i \in 0 .. n + 1 |-> IF i = n + 1 THEN f[n] + node.size ELSE f[i]]
<1>4. PartialSums(g, n + 1, new)
  <2>1. g \in [0 .. n + 1 -> Nat] /\ g[0] = 0
    BY <1>1, <1>2 DEF PartialSums
  <2>2. ASSUME NEW i \in 1 .. n + 1 PROVE g[i] = g[i - 1] + new[i].size
    <3>1. CASE i = n + 1
      <4>1. g[i] = f[n] + node.size /\ g[i - 1] = f[n]
        BY <1>2, <3>1
      <4> QED
        BY <1>3, <3>1, <4>1
    <3>2. CASE i # n + 1
      <4>1. i \in 1 .. n /\ g[i] = f[i] /\ g[i - 1] = f[i - 1]
        BY <1>2, <3>2
      <4>2. new[i].size = ns[i].size
        BY <1>3, <4>1 DEF n
      <4> QED
        BY <1>1, <4>1, <4>2 DEF PartialSums
    <3> QED
      BY <3>1, <3>2
  <2> QED
    BY <2>1, <2>2 DEF PartialSums
<1>5. Total(new) = g[n + 1]
  BY <1>3, <1>4, TotalIs
<1>6. g[n + 1] = f[n] + node.size
  BY <1>2
<1> QED
  BY <1>2, <1>5, <1>6 DEF new

(***************************************************************************)
(* The lists that ListFrom collects, when they are linked in order.        *)
(***************************************************************************)
\* NULL and Wild are no blocks, and not each other.
LEMMA Pointers ==
    /\ BLOCKS \in Nat \ {0} /\ OBJECTS \in Nat \ {0} /\ MaxStray \in Nat
    /\ INT_MAX \in Nat /\ LO_SPACE_SIZE \in Nat /\ LO_SPACE_SIZE <= INT_MAX
    /\ NULL \notin Block /\ Wild \notin Block /\ NULL # Wild
    /\ NULL \notin Thread /\ IsFiniteSet(Thread)
    /\ \A b \in Block : b \in Nat /\ b < BLOCKS
    /\ \A b \in Nat : b < BLOCKS => b \in Block
BY BaselineAssumption DEF Block

\* From usable_blocks: the blocks that have not been taken.
LEMMA UsableList ==
    ASSUME TypeOK, UsableLinked
    PROVE  ListFrom(usable_blocks) = Taken .. BLOCKS - 1
<1> DEFINE k == Taken
           p == usable_blocks
           U == k .. BLOCKS - 1
           Closed(S) == /\ p \in Block => p \in S
                        /\ \A c \in S : next[c] \in Block => next[c] \in S
<1>1. /\ k \in Nat /\ k <= BLOCKS /\ U \subseteq Block
      /\ p \in Block => p = k /\ k < BLOCKS
      /\ U # {} => p \in Block /\ p = k
  BY Pointers DEF Taken
<1>2. ListFrom(p) = {b \in Block : \A S \in SUBSET Block : Closed(S) => b \in S}
  BY DEF ListFrom
<1>3. \A c \in U : c # BLOCKS - 1 => next[c] = c + 1
  BY DEF UsableLinked
<1>4. next[BLOCKS - 1] \in {NULL, Wild} \/ U = {}
  BY <1>1, Pointers DEF UsableLinked
<1> HIDE DEF k, p
<1>5. Closed(U)
  <2>1. p \in Block => p \in U
    BY <1>1, Pointers
  <2>2. ASSUME NEW c \in U, next[c] \in Block PROVE next[c] \in U
    <3>1. c # BLOCKS - 1
      BY <1>4, <2>2, Pointers
    <3> QED
      BY <1>1, <1>3, <3>1, Pointers
  <2> QED
    BY <2>1, <2>2
<1>6. ASSUME NEW S \in SUBSET Block, Closed(S) PROVE U \subseteq S
  <2> DEFINE T == {c \in U : c \notin S}
  <2> SUFFICES ASSUME T # {} PROVE FALSE
    OBVIOUS
  <2>1. T \subseteq Nat
    BY <1>1
  <2>2. PICK c \in T : \A d \in T : c <= d
    BY <2>1, LeastNatural, Zenon
  <2>3. c # k
    BY <1>1, <1>6, <2>2
  <2>4. c - 1 \in U /\ c - 1 # BLOCKS - 1 /\ ~ (c <= c - 1) /\ (c - 1) + 1 = c
    BY <1>1, <2>2, <2>3, Pointers
  <2>5. c - 1 \in S
    BY <2>2, <2>4
  <2>6. next[c - 1] = c /\ c \in Block
    BY <1>1, <1>3, <2>2, <2>4
  <2> QED
    BY <1>6, <2>2, <2>5, <2>6
<1> HIDE DEF U, Closed
<1>7. ListFrom(p) \subseteq U
  BY <1>1, <1>2, <1>5
<1>8. U \subseteq ListFrom(p)
  BY <1>1, <1>2, <1>6
<1> QED
  BY <1>7, <1>8 DEF U, k, p

\* From used_blocks: the blocks that have been pushed.
LEMMA UsedList ==
    ASSUME TypeOK, UsedLinked
    PROVE  ListFrom(used_blocks) = 0 .. Pushed - 1
<1> DEFINE j == Pushed
           p == used_blocks
           U == 0 .. j - 1
           Closed(S) == /\ p \in Block => p \in S
                        /\ \A c \in S : next[c] \in Block => next[c] \in S
<1>1. /\ j \in Nat /\ j <= BLOCKS /\ U \subseteq Block
      /\ p \in Block => p = j - 1 /\ j > 0
      /\ U # {} => p \in Block /\ p = j - 1
  BY Pointers DEF Pushed
<1>2. ListFrom(p) = {b \in Block : \A S \in SUBSET Block : Closed(S) => b \in S}
  BY DEF ListFrom
<1>3. \A c \in U : next[c] = IF c = 0 THEN NULL ELSE c - 1
  BY DEF UsedLinked
<1> HIDE DEF j, p
<1>5. Closed(U)
  <2>1. p \in Block => p \in U
    BY <1>1, Pointers
  <2>2. ASSUME NEW c \in U, next[c] \in Block PROVE next[c] \in U
    <3>1. c # 0
      BY <1>3, <2>2, Pointers
    <3> QED
      BY <1>1, <1>3, <3>1
  <2> QED
    BY <2>1, <2>2
<1>6. ASSUME NEW S \in SUBSET Block, Closed(S) PROVE U \subseteq S
  <2> DEFINE T == {n \in U : (j - 1) - n \notin S}
  <2>0. ASSUME NEW b \in U, b \notin S PROVE FALSE
    <3>0. (j - 1) - b \in T
      <4>1. (j - 1) - b \in U /\ (j - 1) - ((j - 1) - b) = b
        BY <1>1
      <4> QED
        BY <2>0, <4>1
    <3>1. T \subseteq Nat /\ T # {}
      <4>1. U \subseteq Nat
        BY <1>1
      <4> QED
        BY <3>0, <4>1, Zenon
    <3> HIDE DEF T
    <3>2. PICK n \in T : \A d \in T : n <= d
      BY <3>1, LeastNatural, Zenon
    <3>3. n \in U /\ (j - 1) - n \notin S
      BY <3>2 DEF T
    <3>4. n # 0
      BY <1>1, <1>6, <3>3
    <3> DEFINE c == (j - 1) - (n - 1)
    <3>5. n - 1 \in U /\ ~ (n <= n - 1) /\ c - 1 = (j - 1) - n /\ c \in U /\ c # 0
      BY <1>1, <3>3, <3>4
    <3>6. c \in S
      BY <3>2, <3>5 DEF T
    <3>7. next[c] = (j - 1) - n /\ (j - 1) - n \in Block
      BY <1>1, <1>3, <3>3, <3>5
    <3> QED
      BY <1>6, <3>3, <3>6, <3>7
  <2> QED
    BY <2>0
<1> HIDE DEF U, Closed
<1>7. ListFrom(p) \subseteq U
  BY <1>1, <1>2, <1>5
<1>8. U \subseteq ListFrom(p)
  BY <1>1, <1>2, <1>6
<1> QED
  BY <1>7, <1>8 DEF U, j, p

(***************************************************************************)
(* OwnInv is BaselineInv as long as nothing is stray, which is what the    *)
(* steps preserve: no step takes stray back to 0.                          *)
(***************************************************************************)
OwnInv ==
    /\ TypeOK /\ stray = 0 /\ process # "crashed"
    /\ BlockOwnedOnce /\ FirstAndLatest
    /\ LocksInv /\ UsableLinked /\ UsedLinked /\ TakenInOrder /\ LargeInv

LEMMA OwnIs == BaselineInv <=> TypeOK /\ (stray = 0 => OwnInv)
BY Zenon DEF BaselineInv, OwnInv, BlockOwnedOnce, FirstAndLatest

USE DEF lists, mutators, locals, lo_space

\* Nothing is stray after an access that was not.
LEMMA NotStray ==
    ASSUME TypeOK, stray' = 0, NEW t \in Thread, Access(t)
    PROVE  ~ Stray(t) /\ stray = 0
<1>1. stray \in Nat
  BY DEF TypeOK
<1> QED
  BY <1>1 DEF Access

LEMMA AccessType ==
    ASSUME TypeOK, NEW t \in Thread, Access(t)
    PROVE  stray' \in Nat
BY DEF TypeOK, Access

(***************************************************************************)
(* Types.                                                                  *)
(***************************************************************************)
\* A sum of ints is an int.
LEMMA SumType ==
    ASSUME TypeOK, NEW t \in Thread
    PROVE  Sum(t) \in -(INT_MAX + 1) .. INT_MAX
<1>1. used_size \in -(INT_MAX + 1) .. INT_MAX /\ size[t] \in 0 .. INT_MAX
  BY DEF TypeOK
<1> QED
  BY <1>1, Pointers DEF Sum

\* What LinkNode does to the nodes: last, if there is one, gets a link.
LEMMA LinkNodeNodes ==
    ASSUME TypeOK, NEW t \in Thread, LinkNode(t)
    PROVE  \E old \in Seq(Node) :
              /\ Len(old) = Len(nodes)
              /\ \A i \in 1 .. Len(nodes) :
                    /\ old[i].size = nodes[i].size
                    /\ old[i].next = IF i = last THEN Len(nodes) + 1 ELSE nodes[i].next
              /\ nodes' = Append(old, [size |-> size[t], next |-> 0])
<1> DEFINE node == Len(nodes) + 1
           old == IF last = 0 THEN nodes ELSE [nodes EXCEPT ![last].next = node]
<1>1. nodes' = Append(old, [size |-> size[t], next |-> 0])
  BY DEF LinkNode
<1>2. /\ nodes \in Seq(Node) /\ Len(nodes) \in Nat /\ last \in 0 .. Len(nodes)
  BY DEF TypeOK, Node
<1>3. /\ old \in Seq(Node) /\ Len(old) = Len(nodes)
      /\ \A i \in 1 .. Len(nodes) :
            /\ old[i].size = nodes[i].size
            /\ old[i].next = IF i = last THEN node ELSE nodes[i].next
  <2>1. CASE last = 0
    BY <1>2, <2>1
  <2>2. CASE last # 0
    <3>0. last \in 1 .. Len(nodes)
      BY <1>2, <2>2
    <3>1. old = [nodes EXCEPT ![last] = [nodes[last] EXCEPT !.next = node]]
      BY <2>2
    <3>2. nodes[last] \in Node /\ [nodes[last] EXCEPT !.next = node] \in Node
      <4>1. nodes[last] \in Node /\ node \in Nat
        BY <1>2, <3>0
      <4> HIDE DEF node
      <4> QED
        BY <4>1 DEF Node
    <3>3. old \in Seq(Node) /\ Len(old) = Len(nodes)
      BY <1>2, <3>0, <3>1, <3>2
    <3>4. \A i \in 1 .. Len(nodes) :
             old[i] = IF i = last THEN [nodes[last] EXCEPT !.next = node] ELSE nodes[i]
      BY <1>2, <3>0, <3>1
    <3> HIDE DEF old, node
    <3> QED
      BY <3>2, <3>3, <3>4 DEF Node
  <2> QED
    BY <2>1, <2>2
<1> HIDE DEF old
<1> QED
  BY <1>1, <1>3

LEMMA LinkNodeType ==
    ASSUME TypeOK, NEW t \in Thread, LinkNode(t)
    PROVE  TypeOK'
<1>1. PICK old \in Seq(Node) :
          /\ Len(old) = Len(nodes)
          /\ \A i \in 1 .. Len(nodes) :
                /\ old[i].size = nodes[i].size
                /\ old[i].next = IF i = last THEN Len(nodes) + 1 ELSE nodes[i].next
          /\ nodes' = Append(old, [size |-> size[t], next |-> 0])
  BY LinkNodeNodes
<1>2. size[t] \in Nat /\ Len(nodes) \in Nat /\ {head, last} \subseteq 0 .. Len(nodes)
  BY Pointers DEF TypeOK
<1>3. [size |-> size[t], next |-> 0] \in Node
  BY <1>2 DEF Node
<1>4. nodes' \in Seq(Node) /\ Len(nodes') = Len(nodes) + 1
  BY <1>1, <1>3
<1>5. head' \in {head, Len(nodes) + 1} /\ last' \in {last, Len(nodes) + 1}
  BY DEF LinkNode
<1>6. {head', last'} \subseteq 0 .. Len(nodes')
  BY <1>2, <1>4, <1>5
<1>7. pc' \in [Thread -> {"start", "new", "mutator", "unlink", "push", "hole", "exhausted",
                          "check", "account", "full"}]
  BY DEF TypeOK, LinkNode, Goto
<1> QED
  BY <1>4, <1>6, <1>7 DEF TypeOK, LinkNode, Node

LEMMA TypeStep ==
    ASSUME TypeOK, [Next]_vars
    PROVE  TypeOK'
<1>1. CASE UNCHANGED vars
  BY <1>1 DEF vars, TypeOK
<1>2. ASSUME NEW t \in Thread, EnterNew(t) PROVE TypeOK'
  BY <1>2 DEF TypeOK, EnterNew, Goto, pthread_mutex_lock
<1>3. ASSUME NEW t \in Thread, LeaveNew(t) PROVE TypeOK'
  <2>1. stray' \in Nat /\ N_MUTATORS' \in Nat
    BY <1>3, AccessType DEF LeaveNew, TypeOK
  <2>2. MUTATORS' \in [0 .. MAX_MUTATORS - 1 -> Thread \cup {NULL}]
    BY <1>3 DEF LeaveNew, TypeOK
  <2> QED
    BY <1>3, <2>1, <2>2 DEF TypeOK, LeaveNew, Goto, pthread_mutex_unlock
<1>4. ASSUME NEW t \in Thread, Alloc(t) PROVE TypeOK'
  <2>1. room[t] - 1 \in 0 .. OBJECTS
    <3>1. room[t] \in 0 .. OBJECTS
      BY DEF TypeOK
    <3> QED
      BY <1>4, <3>1, Pointers DEF Alloc
  <2> QED
    BY <1>4, <2>1 DEF TypeOK, Alloc
<1>5. ASSUME NEW t \in Thread, AllocFromGlobal(t) PROVE TypeOK'
  BY <1>5 DEF TypeOK, AllocFromGlobal, Goto, pthread_mutex_lock
<1>6. ASSUME NEW t \in Thread, NoneUsable(t) PROVE TypeOK'
  BY <1>6 DEF TypeOK, NoneUsable, Goto, pthread_mutex_unlock
<1>7. ASSUME NEW t \in Thread, Exhausted(t) \/ ExhaustedLarge(t) \/ FailedAlloc(t)
      PROVE TypeOK'
  BY <1>7 DEF TypeOK, Exhausted, ExhaustedLarge, FailedAlloc, Exit
<1>8. ASSUME NEW t \in Thread, Unlink(t) PROVE TypeOK'
  <2>1. PICK n \in NextOf(block[t]) :
            usable_blocks' = n /\ prev' = [b \in Block |-> IF b = n THEN NULL ELSE prev[b]]
    BY <1>8 DEF Unlink
  <2>2. n \in Pointer /\ stray' \in Nat
    BY <1>8, AccessType DEF NextOf, TypeOK, Unlink
  <2>3. prev' \in [Block -> Pointer]
    BY <2>1 DEF TypeOK, Pointer
  <2> QED
    BY <1>8, <2>1, <2>2, <2>3 DEF TypeOK, Unlink, Goto
<1>9. ASSUME NEW t \in Thread, PushUsed(t) PROVE TypeOK'
  <2>1. stray' \in Nat /\ block[t] \in Pointer /\ NULL \in Pointer /\ used_blocks \in Pointer
    BY <1>9, AccessType DEF TypeOK, PushUsed, Pointer
  <2>2. next' \in [Block -> Pointer] /\ prev' \in [Block -> Pointer]
    BY <1>9, <2>1 DEF TypeOK, PushUsed
  <2> QED
    BY <1>9, <2>1, <2>2 DEF TypeOK, PushUsed, Goto, pthread_mutex_unlock
<1>10. ASSUME NEW t \in Thread, TakeHole(t) PROVE TypeOK'
  <2>1. stray' \in Nat
    BY <1>10, AccessType DEF TakeHole
  <2> QED
    BY <1>10, <2>1 DEF TypeOK, TakeHole, Goto
<1>11. ASSUME NEW t \in Thread, AllocLarge(t) PROVE TypeOK'
  <2>1. PICK s \in Sizes : size' = [size EXCEPT ![t] = s]
    BY <1>11 DEF AllocLarge
  <2>2. s \in 0 .. INT_MAX
    BY BaselineAssumption
  <2> QED
    BY <1>11, <2>1, <2>2 DEF TypeOK, AllocLarge, Goto, pthread_mutex_lock
<1>12. ASSUME NEW t \in Thread, NoRoom(t) PROVE TypeOK'
  BY <1>12 DEF TypeOK, NoRoom, Goto, pthread_mutex_unlock
<1>13. ASSUME NEW t \in Thread, Account(t) PROVE TypeOK'
  <2>1. used_size' \in -(INT_MAX + 1) .. INT_MAX
    BY <1>13, SumType DEF Account
  <2> QED
    BY <1>13, <2>1 DEF TypeOK, Account, Goto, pthread_mutex_unlock
<1>14. ASSUME NEW t \in Thread, Crash(t) PROVE TypeOK'
  BY <1>14 DEF TypeOK, Crash
<1> QED
  BY <1>1, <1>2, <1>3, <1>4, <1>5, <1>6, <1>7, <1>8, <1>9, <1>10, <1>11, <1>12, <1>13,
     <1>14, LinkNodeType DEF Next, Inside
(***************************************************************************)
(* OwnInv holds initially, and every action preserves it unless it strays. *)
(***************************************************************************)
LEMMA InitInv ==
    Init => OwnInv
<1> SUFFICES ASSUME Init PROVE OwnInv
  OBVIOUS
<1>1. TypeOK
  <2>1. prev \in [Block -> Pointer] /\ next \in [Block -> Pointer]
    <3>1. \A b \in Block : /\ b # 0 => b - 1 \in Block
                           /\ b # BLOCKS - 1 => b + 1 \in Block
      BY Pointers
    <3> QED
      BY <3>1 DEF Init, Pointer
  <2>2. usable_blocks \in Pointer /\ used_blocks \in Pointer
    BY Pointers DEF Init, Pointer
  <2>3. nodes \in Seq([size : Nat, next : Nat]) /\ Len(nodes) = 0
    BY DEF Init
  <2> QED
    BY <2>1, <2>2, <2>3, Pointers DEF Init, TypeOK, Pointer
<1>2. LocksInv
  <2>1. {t \in Thread : pc[t] \notin {"start", "new"}} = {}
    BY DEF Init
  <2> QED
    BY <2>1, FS_EmptySet, Pointers DEF Init, LocksInv
<1>3. Taken = 0 /\ Pushed = 0
  BY Pointers DEF Init, Taken, Pushed
<1>4. UsableLinked
  BY <1>3, Pointers DEF Init, UsableLinked
<1>5. UsedLinked /\ TakenInOrder /\ BlockOwnedOnce
  BY <1>3, Pointers DEF Init, UsedLinked, TakenInOrder, BlockOwnedOnce
<1>6. FirstAndLatest /\ LargeInv
  <2>1. nodes = <<>> /\ Len(nodes) = 0 /\ used_size = 0 /\ head = 0 /\ last = 0
        /\ \A t \in Thread : pc[t] = "start"
    BY DEF Init
  <2>2. Total(nodes) = 0 + 0 * (2 * (INT_MAX + 1))
    BY <2>1, TotalEmpty, Pointers
  <2> QED
    BY <2>1, <2>2, TotalEmpty, Pointers DEF FirstAndLatest, LargeInv
<1> QED
  BY <1>1, <1>2, <1>4, <1>5, <1>6 DEF OwnInv, Init

\* The Immix space, for steps that leave the lists, the blocks and the critical
\* section alone.
LEMMA ImmixFrame ==
    ASSUME OwnInv, UNCHANGED <<stray, lists, block>>,
           \A t \in Thread : /\ \A l \in {"unlink", "push"} : pc'[t] = l <=> pc[t] = l
                             /\ pc'[t] = "exhausted" => pc[t] = "exhausted"
    PROVE  BlockOwnedOnce' /\ UsableLinked' /\ UsedLinked' /\ TakenInOrder'
<1>1. Taken' = Taken /\ Pushed' = Pushed
  BY DEF Taken, Pushed
<1>2. BlockOwnedOnce' /\ UsableLinked' /\ UsedLinked'
  BY <1>1 DEF OwnInv, BlockOwnedOnce, UsableLinked, UsedLinked
<1>3. TakenInOrder'
  BY <1>1 DEF OwnInv, TakenInOrder
<1> QED
  BY <1>2, <1>3

\* The free list space, for steps that leave it alone.
LEMMA LargeFrame ==
    ASSUME OwnInv, UNCHANGED <<stray, lo_space>>,
           \A t \in Thread : /\ pc'[t] = "account" <=> pc[t] = "account"
                             /\ pc[t] = "account" => size'[t] = size[t]
    PROVE  FirstAndLatest' /\ LargeInv'
<1>1. FirstAndLatest'
  BY DEF OwnInv, FirstAndLatest
<1>2. NoneWraps' <=> NoneWraps
  BY DEF NoneWraps
<1>3. \A t \in Thread : pc[t] = "account" => Sum(t)' = Sum(t) /\ (TooLarge(t)' <=> TooLarge(t))
  BY DEF Sum, TooLarge
<1>4. LargeInv'
  BY <1>2, <1>3 DEF OwnInv, LargeInv
<1> QED
  BY <1>1, <1>4

\* The count of mutators, for steps that do not leave ImmixMutatorLocal_new.
LEMMA CountFrame ==
    ASSUME OwnInv, UNCHANGED N_MUTATORS,
           \A t \in Thread : pc'[t] \in {"start", "new"} <=> pc[t] \in {"start", "new"}
    PROVE  N_MUTATORS' = Cardinality({t \in Thread : pc'[t] \notin {"start", "new"}})
<1>1. {t \in Thread : pc'[t] \notin {"start", "new"}}
        = {t \in Thread : pc[t] \notin {"start", "new"}}
  OBVIOUS
<1> QED
  BY <1>1 DEF OwnInv, LocksInv

LEMMA EnterNewInv ==
    ASSUME OwnInv, TypeOK', NEW t \in Thread, EnterNew(t)
    PROVE  OwnInv'
<1>1. /\ TypeOK /\ LocksInv /\ stray = 0 /\ pc[t] = "start" /\ process = "running"
      /\ lock["id"] = NULL /\ lock' = [lock EXCEPT !["id"] = t]
      /\ pc' = [pc EXCEPT ![t] = "new"]
      /\ UNCHANGED <<process, stray, mutators, lists, locals, lo_space, size>>
  BY DEF EnterNew, At, Goto, pthread_mutex_lock, OwnInv
<1>2. \A u \in Thread : pc'[u] = IF u = t THEN "new" ELSE pc[u]
  BY <1>1 DEF TypeOK
<1>3. LocksInv'
  <2>1. N_MUTATORS' = Cardinality({u \in Thread : pc'[u] \notin {"start", "new"}})
    BY <1>1, <1>2, CountFrame
  <2>2. lock'["id"] = t /\ lock'["immix"] = lock["immix"] /\ lock'["lo"] = lock["lo"]
    BY <1>1 DEF TypeOK
  <2> QED
    BY <1>1, <1>2, <2>1, <2>2, Pointers DEF LocksInv
<1>4. BlockOwnedOnce' /\ UsableLinked' /\ UsedLinked' /\ TakenInOrder'
  BY <1>1, <1>2, ImmixFrame
<1>5. FirstAndLatest' /\ LargeInv'
  BY <1>1, <1>2, LargeFrame
<1> QED
  BY <1>1, <1>3, <1>4, <1>5 DEF OwnInv

LEMMA LeaveNewInv ==
    ASSUME OwnInv, TypeOK', stray' = 0, NEW t \in Thread, LeaveNew(t)
    PROVE  OwnInv'
<1>1. /\ TypeOK /\ LocksInv /\ stray = 0 /\ pc[t] = "new" /\ process = "running"
      /\ lock' = [lock EXCEPT !["id"] = NULL]
      /\ N_MUTATORS' = N_MUTATORS + 1
      /\ pc' = [pc EXCEPT ![t] = "mutator"]
      /\ UNCHANGED <<process, stray, lists, locals, lo_space, size>>
  BY DEF LeaveNew, At, Goto, pthread_mutex_unlock, OwnInv
<1>2. \A u \in Thread : pc'[u] = IF u = t THEN "mutator" ELSE pc[u]
  BY <1>1 DEF TypeOK
<1> DEFINE S == {u \in Thread : pc[u] \notin {"start", "new"}}
<1>3. {u \in Thread : pc'[u] \notin {"start", "new"}} = S \cup {t} /\ t \notin S
  BY <1>1, <1>2
<1>4. N_MUTATORS' = Cardinality(S \cup {t})
  <2>1. IsFiniteSet(S)
    BY Pointers, FS_Subset
  <2>2. N_MUTATORS = Cardinality(S)
    BY <1>1 DEF LocksInv
  <2> HIDE DEF S
  <2>3. Cardinality(S \cup {t}) = Cardinality(S) + 1
    BY <1>3, <2>1, FS_AddElement
  <2> QED
    BY <1>1, <2>2, <2>3
<1> HIDE DEF S
<1>5. LocksInv'
  <2>1. N_MUTATORS' = Cardinality({u \in Thread : pc'[u] \notin {"start", "new"}})
    BY <1>3, <1>4
  <2>2. lock'["id"] = NULL /\ lock'["immix"] = lock["immix"] /\ lock'["lo"] = lock["lo"]
    BY <1>1 DEF TypeOK
  <2>3. \A u \in Thread : pc'[u] # "new"
    BY <1>1, <1>2 DEF LocksInv
  <2> QED
    BY <1>1, <1>2, <2>1, <2>2, <2>3, Pointers DEF LocksInv
<1>6. BlockOwnedOnce' /\ UsableLinked' /\ UsedLinked' /\ TakenInOrder'
  BY <1>1, <1>2, ImmixFrame
<1>7. FirstAndLatest' /\ LargeInv'
  BY <1>1, <1>2, LargeFrame
<1> QED
  BY <1>1, <1>5, <1>6, <1>7 DEF OwnInv

\* Steps that only a thread's own hole, or nothing but the process, knows of.
LEMMA OwnStepInv ==
    ASSUME OwnInv, TypeOK', process' # "crashed",
           UNCHANGED <<stray, lock, pc, mutators, lists, block, lo_space, size>>
    PROVE  OwnInv'
<1>1. LocksInv'
  BY DEF OwnInv, LocksInv
<1>2. BlockOwnedOnce' /\ UsableLinked' /\ UsedLinked' /\ TakenInOrder'
  BY ImmixFrame
<1>3. FirstAndLatest' /\ LargeInv'
  BY LargeFrame
<1> QED
  BY <1>1, <1>2, <1>3 DEF OwnInv

LEMMA AllocInv ==
    ASSUME OwnInv, TypeOK', NEW t \in Thread, Alloc(t)
    PROVE  OwnInv'
BY OwnStepInv DEF Alloc, OwnInv

\* The process ends with exit(1).
LEMMA ExitInv ==
    ASSUME OwnInv, TypeOK', NEW t \in Thread,
           Exhausted(t) \/ ExhaustedLarge(t) \/ FailedAlloc(t)
    PROVE  OwnInv'
BY OwnStepInv DEF Exhausted, ExhaustedLarge, FailedAlloc, Exit

LEMMA TakeHoleInv ==
    ASSUME OwnInv, TypeOK', stray' = 0, NEW t \in Thread, TakeHole(t)
    PROVE  OwnInv'
<1>1. /\ TypeOK /\ LocksInv /\ stray = 0 /\ pc[t] = "hole" /\ process = "running"
      /\ pc' = [pc EXCEPT ![t] = "mutator"]
      /\ UNCHANGED <<process, stray, lock, mutators, lists, block, lo_space, size>>
  BY DEF TakeHole, At, Goto, OwnInv
<1>2. \A u \in Thread : pc'[u] = IF u = t THEN "mutator" ELSE pc[u]
  BY <1>1 DEF TypeOK
<1>3. N_MUTATORS' = Cardinality({u \in Thread : pc'[u] \notin {"start", "new"}})
  BY <1>1, <1>2, CountFrame
<1>4. LocksInv'
  BY <1>1, <1>2, <1>3 DEF LocksInv
<1>5. BlockOwnedOnce' /\ UsableLinked' /\ UsedLinked' /\ TakenInOrder'
  BY <1>1, <1>2, ImmixFrame
<1>6. FirstAndLatest' /\ LargeInv'
  BY <1>1, <1>2, LargeFrame
<1> QED
  BY <1>1, <1>4, <1>5, <1>6 DEF OwnInv

\* The head of usable_blocks belongs to nobody, and the mutex is free: nobody is
\* about to take it or between the lists.
LEMMA AllocFromGlobalInv ==
    ASSUME OwnInv, TypeOK', NEW t \in Thread, AllocFromGlobal(t)
    PROVE  OwnInv'
<1>1. /\ TypeOK /\ LocksInv /\ stray = 0 /\ process = "running" /\ pc[t] = "mutator"
      /\ lock["immix"] = NULL /\ lock' = [lock EXCEPT !["immix"] = t]
      /\ block' = [block EXCEPT ![t] = usable_blocks]
      /\ pc' = [pc EXCEPT ![t] = "unlink"]
      /\ UNCHANGED <<process, stray, mutators, lists, room, lo_space, size>>
  BY DEF AllocFromGlobal, At, Goto, pthread_mutex_lock, OwnInv
<1>2. \A u \in Thread : /\ pc'[u] = IF u = t THEN "unlink" ELSE pc[u]
                        /\ block'[u] = IF u = t THEN usable_blocks ELSE block[u]
  BY <1>1 DEF TypeOK
<1>3. \A u \in Thread : pc[u] \notin {"unlink", "push"}
  BY <1>1, Pointers DEF LocksInv
<1>4. LocksInv'
  <2>1. N_MUTATORS' = Cardinality({u \in Thread : pc'[u] \notin {"start", "new"}})
    BY <1>1, <1>2, CountFrame
  <2>2. lock'["immix"] = t /\ lock'["id"] = lock["id"] /\ lock'["lo"] = lock["lo"]
    BY <1>1 DEF TypeOK
  <2> QED
    BY <1>1, <1>2, <1>3, <2>1, <2>2 DEF LocksInv
<1>5. Taken' = Taken /\ Pushed' = Pushed /\ Taken = Pushed /\ usable_blocks # Wild
  BY <1>1, <1>3 DEF Taken, Pushed, OwnInv, TakenInOrder
<1>6. UsableLinked' /\ UsedLinked'
  BY <1>1, <1>5 DEF OwnInv, UsableLinked, UsedLinked
<1>7. TakenInOrder'
  BY <1>1, <1>2, <1>3, <1>5 DEF OwnInv, TakenInOrder
<1>8. BlockOwnedOnce'
  <2>1. \A u \in Thread \ {t} : block[u] \in Block => block[u] # usable_blocks
    <3>1. \A u \in Thread : block[u] \in Block => block[u] < Taken /\ block[u] \in Nat
      BY <1>1, <1>3, <1>5, Pointers DEF OwnInv, TakenInOrder
    <3>2. usable_blocks \in Block => Taken = usable_blocks
      BY DEF Taken
    <3> QED
      BY <3>1, <3>2
  <2> QED
    BY <1>1, <1>2, <2>1 DEF OwnInv, BlockOwnedOnce
<1>9. FirstAndLatest' /\ LargeInv'
  BY <1>1, <1>2, LargeFrame
<1> QED
  BY <1>1, <1>4, <1>6, <1>7, <1>8, <1>9 DEF OwnInv

\* The thread in the critical section is the only one between the lists.
LEMMA Alone ==
    ASSUME OwnInv, NEW t \in Thread, pc[t] \in {"unlink", "push"}
    PROVE  \A u \in Thread \ {t} : pc[u] \notin {"unlink", "push"}
BY DEF OwnInv, LocksInv

\* No block left means that all are in use.
LEMMA NoneUsableInv ==
    ASSUME OwnInv, TypeOK', NEW t \in Thread, NoneUsable(t)
    PROVE  OwnInv'
<1>1. /\ TypeOK /\ LocksInv /\ stray = 0 /\ process = "running" /\ pc[t] = "unlink"
      /\ block[t] = NULL /\ lock' = [lock EXCEPT !["immix"] = NULL]
      /\ pc' = [pc EXCEPT ![t] = "exhausted"]
      /\ UNCHANGED <<process, stray, mutators, lists, locals, lo_space, size>>
  BY DEF NoneUsable, At, Goto, pthread_mutex_unlock, OwnInv
<1>2. \A u \in Thread : pc'[u] = IF u = t THEN "exhausted" ELSE pc[u]
  BY <1>1 DEF TypeOK
<1>3. \A u \in Thread \ {t} : pc[u] \notin {"unlink", "push"}
  BY <1>1, Alone
<1>4. LocksInv'
  <2>1. N_MUTATORS' = Cardinality({u \in Thread : pc'[u] \notin {"start", "new"}})
    BY <1>1, <1>2, CountFrame
  <2>2. lock'["immix"] = NULL /\ lock'["id"] = lock["id"] /\ lock'["lo"] = lock["lo"]
    BY <1>1 DEF TypeOK
  <2> QED
    BY <1>1, <1>2, <1>3, <2>1, <2>2, Pointers DEF LocksInv
<1>5. Taken' = Taken /\ Pushed' = Pushed /\ Taken = Pushed /\ usable_blocks = NULL
  BY <1>1, <1>3 DEF Taken, Pushed, OwnInv, TakenInOrder
<1>6. Pushed = BLOCKS
  BY <1>5, Pointers DEF Taken
<1>7. UsableLinked' /\ UsedLinked' /\ BlockOwnedOnce'
  BY <1>1, <1>5 DEF OwnInv, UsableLinked, UsedLinked, BlockOwnedOnce
<1>8. TakenInOrder'
  BY <1>1, <1>2, <1>3, <1>5, <1>6 DEF OwnInv, TakenInOrder
<1>9. FirstAndLatest' /\ LargeInv'
  BY <1>1, <1>2, LargeFrame
<1> QED
  BY <1>1, <1>4, <1>7, <1>8, <1>9 DEF OwnInv
\* The head of usable_blocks is taken.  When next of the last block is garbage
\* this strays; when it is NULL there is no block left.
LEMMA UnlinkInv ==
    ASSUME OwnInv, TypeOK', stray' = 0, NEW t \in Thread, Unlink(t)
    PROVE  OwnInv'
<1> DEFINE k == block[t]
           n == next[k]
<1>1. /\ TypeOK /\ LocksInv /\ UsableLinked /\ UsedLinked /\ TakenInOrder
      /\ stray = 0 /\ process = "running" /\ pc[t] = "unlink" /\ k # NULL
      /\ pc' = [pc EXCEPT ![t] = "push"]
      /\ UNCHANGED <<process, stray, lock, mutators, used_blocks, next, locals, lo_space,
                     size>>
  BY DEF Unlink, At, Goto, OwnInv
<1>2. \A u \in Thread \ {t} : pc[u] \notin {"unlink", "push"}
  BY <1>1, Alone
<1>3. k \in Block /\ k = usable_blocks /\ Taken = k /\ Pushed = k /\ k # Wild
  BY <1>1, <1>2 DEF TakenInOrder, TypeOK, Pointer, Taken
<1>4. IF k = BLOCKS - 1 THEN n \in {NULL, Wild} ELSE n = k + 1
  BY <1>1, <1>3, Pointers DEF UsableLinked
<1>5. /\ usable_blocks' = n
      /\ prev' = [b \in Block |-> IF b = n THEN NULL ELSE prev[b]]
  BY <1>3 DEF Unlink, NextOf
<1>6. n # Wild
  <2>1. ~ Stray(t)
    BY <1>1, NotStray DEF Unlink
  <2> QED
    BY <1>1, <1>3, <2>1 DEF Stray, NextOf
<1> HIDE DEF n
<1>7. n \in Pointer /\ (k = BLOCKS - 1 <=> n \notin Block)
  BY <1>3, <1>4, Pointers DEF Pointer
<1>8. \A u \in Thread : pc'[u] = IF u = t THEN "push" ELSE pc[u]
  BY <1>1 DEF TypeOK
<1>9. LocksInv'
  <2>1. N_MUTATORS' = Cardinality({u \in Thread : pc'[u] \notin {"start", "new"}})
    BY <1>1, <1>8, CountFrame
  <2> QED
    BY <1>1, <1>8, <2>1 DEF LocksInv
<1>10. Taken' = k + 1 /\ Pushed' = k
  BY <1>1, <1>3, <1>4, <1>5, <1>7, Pointers DEF Taken, Pushed
<1>11. UsableLinked'
  <2> SUFFICES ASSUME NEW b \in k + 1 .. BLOCKS - 1
               PROVE  /\ IF b = BLOCKS - 1 THEN next[b] \in {NULL, Wild}
                         ELSE next[b] = b + 1
                      /\ prev'[b] = IF b = k + 1 THEN NULL ELSE b - 1
    BY <1>1, <1>10 DEF UsableLinked
  <2>1. b \in Taken .. BLOCKS - 1 /\ b \in Block /\ b # Taken
    BY <1>3, Pointers
  <2>2. n = k + 1
    BY <1>3, <1>4, Pointers
  <2> QED
    BY <1>1, <1>5, <2>1, <2>2 DEF UsableLinked
<1>12. UsedLinked'
  <2> SUFFICES ASSUME NEW b \in 0 .. k - 1
               PROVE  /\ next[b] = IF b = 0 THEN NULL ELSE b - 1
                      /\ prev'[b] = IF b = k - 1 THEN NULL ELSE b + 1
    BY <1>1, <1>10 DEF UsedLinked
  <2>1. b \in Block /\ b # n
    BY <1>3, <1>4, Pointers
  <2> QED
    BY <1>1, <1>3, <1>5, <2>1 DEF UsedLinked
<1>13. TakenInOrder'
  BY <1>1, <1>2, <1>3, <1>5, <1>6, <1>8, <1>10 DEF TakenInOrder
<1>14. BlockOwnedOnce'
  BY <1>1 DEF OwnInv, BlockOwnedOnce
<1>15. FirstAndLatest' /\ LargeInv'
  BY <1>1, <1>8, LargeFrame
<1> QED
  BY <1>1, <1>9, <1>11, <1>12, <1>13, <1>14, <1>15 DEF OwnInv

\* The block becomes the head of used_blocks.  Where malloc has left garbage
\* there, pushing the first block strays.
LEMMA PushUsedInv ==
    ASSUME OwnInv, TypeOK', stray' = 0, NEW t \in Thread, PushUsed(t)
    PROVE  OwnInv'
<1> DEFINE j == block[t]
<1>1. /\ TypeOK /\ LocksInv /\ UsableLinked /\ UsedLinked /\ TakenInOrder
      /\ stray = 0 /\ process = "running" /\ pc[t] = "push"
      /\ next' = [b \in Block |-> IF b = j THEN used_blocks ELSE next[b]]
      /\ prev' = [b \in Block |-> IF b = used_blocks THEN j
                                  ELSE IF b = j THEN NULL ELSE prev[b]]
      /\ used_blocks' = j
      /\ lock' = [lock EXCEPT !["immix"] = NULL]
      /\ pc' = [pc EXCEPT ![t] = "hole"]
      /\ UNCHANGED <<process, stray, mutators, usable_blocks, locals, lo_space, size>>
  BY DEF PushUsed, At, Goto, pthread_mutex_unlock, OwnInv
<1>2. \A u \in Thread \ {t} : pc[u] \notin {"unlink", "push"}
  BY <1>1, Alone
<1>3. /\ j = Pushed /\ Taken = j + 1 /\ j \in Block
      /\ IF j = 0 THEN used_blocks = NULL ELSE used_blocks = j - 1
  <2>1. j = Pushed /\ Taken = j + 1
    BY <1>1 DEF TakenInOrder
  <2>2. Taken \in 0 .. BLOCKS /\ Pushed \in Nat
    BY Pointers DEF Taken, Pushed
  <2>3. used_blocks \in Pointer
    BY <1>1 DEF TypeOK
  <2>4. j \in Block
    BY <2>1, <2>2, Pointers
  <2>5. used_blocks # Wild
    BY <1>1, NotStray DEF PushUsed, Stray
  <2>6. IF j = 0 THEN used_blocks = NULL ELSE used_blocks = j - 1
    BY <2>1, <2>3, <2>5, Pointers DEF Pushed, Pointer
  <2> QED
    BY <2>1, <2>4, <2>6
<1>4. /\ next'[j] = used_blocks /\ \A b \in Block \ {j} : next'[b] = next[b]
      /\ prev'[j] = NULL
      /\ \A b \in Block \ {j} : prev'[b] = IF b = used_blocks THEN j ELSE prev[b]
  <2>1. j # used_blocks
    BY <1>3, Pointers
  <2> QED
    BY <1>1, <1>3, <2>1
<1>5. Taken' = Taken /\ Pushed' = j + 1
  BY <1>1, <1>3 DEF Taken, Pushed
<1>6. UsableLinked'
  <2> SUFFICES ASSUME NEW b \in Taken .. BLOCKS - 1
               PROVE  next'[b] = next[b] /\ prev'[b] = prev[b]
    BY <1>1, <1>5 DEF UsableLinked
  <2>1. b \in Block /\ b # j /\ b # used_blocks
    BY <1>3, Pointers
  <2> QED
    BY <1>4, <2>1
<1>7. \A u \in Thread : pc'[u] = IF u = t THEN "hole" ELSE pc[u]
  BY <1>1 DEF TypeOK
<1>8. LocksInv'
  <2>1. N_MUTATORS' = Cardinality({u \in Thread : pc'[u] \notin {"start", "new"}})
    BY <1>1, <1>7, CountFrame
  <2>2. lock'["immix"] = NULL /\ lock'["id"] = lock["id"] /\ lock'["lo"] = lock["lo"]
    BY <1>1 DEF TypeOK
  <2> QED
    BY <1>1, <1>2, <1>7, <2>1, <2>2, Pointers DEF LocksInv
<1>9. UsedLinked'
  <2> SUFFICES ASSUME NEW b \in 0 .. j
               PROVE  /\ next'[b] = IF b = 0 THEN NULL ELSE b - 1
                      /\ prev'[b] = IF b = j THEN NULL ELSE b + 1
    BY <1>3, <1>5, Pointers DEF UsedLinked
  <2>1. CASE b = j
    BY <1>3, <1>4, <2>1
  <2>2. CASE b # j
    <3>1. b \in Block /\ b \in 0 .. Pushed - 1
      BY <1>3, <2>2, Pointers
    <3>2. /\ next[b] = IF b = 0 THEN NULL ELSE b - 1
          /\ prev[b] = IF b = j - 1 THEN NULL ELSE b + 1
      BY <1>1, <1>3, <3>1 DEF UsedLinked
    <3>3. j # 0 /\ used_blocks = j - 1
      BY <1>3, <2>2, <3>1, Pointers
    <3>4. next'[b] = next[b] /\ prev'[b] = IF b = j - 1 THEN j ELSE prev[b]
      BY <1>4, <2>2, <3>1, <3>3
    <3>5. b = j - 1 => b + 1 = j
      BY <1>3, Pointers
    <3> QED
      BY <2>2, <3>2, <3>4, <3>5
  <2> QED
    BY <2>1, <2>2
<1>10. TakenInOrder'
  <2>1. ASSUME NEW u \in Thread
        PROVE  /\ block[u] # Wild
               /\ pc'[u] \notin {"unlink", "push", "exhausted"}
               /\ block[u] # NULL => block[u] < j + 1
    <3>1. CASE u = t
      BY <1>3, <1>7, <3>1, Pointers
    <3>2. CASE u # t
      <4>1. block[u] # NULL => block[u] < j
        BY <1>1, <1>2, <1>3, <3>2 DEF TakenInOrder
      <4>2. block[u] # Wild /\ block[u] \in Pointer
        BY <1>1 DEF TakenInOrder, TypeOK
      <4>3. pc[u] # "exhausted"
        BY <1>1, <1>3, Pointers DEF TakenInOrder
      <4> QED
        BY <1>2, <1>3, <1>7, <3>2, <4>1, <4>2, <4>3, Pointers DEF Pointer
    <3> QED
      BY <3>1, <3>2
  <2> QED
    BY <1>1, <1>3, <1>5, <2>1 DEF TakenInOrder
<1>11. BlockOwnedOnce'
  BY <1>1 DEF OwnInv, BlockOwnedOnce
<1>12. FirstAndLatest' /\ LargeInv'
  BY <1>1, <1>7, LargeFrame
<1> QED
  BY <1>1, <1>6, <1>8, <1>9, <1>10, <1>11, <1>12 DEF OwnInv

LEMMA AllocLargeInv ==
    ASSUME OwnInv, TypeOK', NEW t \in Thread, AllocLarge(t)
    PROVE  OwnInv'
<1>1. PICK s \in Sizes : size' = [size EXCEPT ![t] = s]
  BY DEF AllocLarge
<1>2. /\ TypeOK /\ LocksInv /\ stray = 0 /\ process = "running" /\ pc[t] = "mutator"
      /\ lock["lo"] = NULL /\ lock' = [lock EXCEPT !["lo"] = t]
      /\ pc' = [pc EXCEPT ![t] = "check"]
      /\ UNCHANGED <<process, stray, mutators, lists, locals, lo_space>>
  BY DEF AllocLarge, At, Goto, pthread_mutex_lock, OwnInv
<1>3. \A u \in Thread : /\ pc'[u] = IF u = t THEN "check" ELSE pc[u]
                        /\ u # t => size'[u] = size[u]
  BY <1>1, <1>2 DEF TypeOK
<1>4. LocksInv'
  <2>1. N_MUTATORS' = Cardinality({u \in Thread : pc'[u] \notin {"start", "new"}})
    BY <1>2, <1>3, CountFrame
  <2>2. lock'["lo"] = t /\ lock'["id"] = lock["id"] /\ lock'["immix"] = lock["immix"]
    BY <1>2 DEF TypeOK
  <2> QED
    BY <1>2, <1>3, <2>1, <2>2, Pointers DEF LocksInv
<1>5. BlockOwnedOnce' /\ UsableLinked' /\ UsedLinked' /\ TakenInOrder'
  BY <1>2, <1>3, ImmixFrame
<1>6. FirstAndLatest' /\ LargeInv'
  BY <1>2, <1>3, LargeFrame
<1> QED
  BY <1>2, <1>4, <1>5, <1>6 DEF OwnInv

LEMMA NoRoomInv ==
    ASSUME OwnInv, TypeOK', NEW t \in Thread, NoRoom(t)
    PROVE  OwnInv'
<1>1. /\ TypeOK /\ LocksInv /\ stray = 0 /\ process = "running" /\ pc[t] = "check"
      /\ lock' = [lock EXCEPT !["lo"] = NULL]
      /\ pc' = [pc EXCEPT ![t] = "full"]
      /\ UNCHANGED <<process, stray, mutators, lists, locals, lo_space, size>>
  BY DEF NoRoom, At, Goto, pthread_mutex_unlock, OwnInv
<1>2. \A u \in Thread : pc'[u] = IF u = t THEN "full" ELSE pc[u]
  BY <1>1 DEF TypeOK
<1>3. LocksInv'
  <2>1. N_MUTATORS' = Cardinality({u \in Thread : pc'[u] \notin {"start", "new"}})
    BY <1>1, <1>2, CountFrame
  <2>2. lock'["lo"] = NULL /\ lock'["id"] = lock["id"] /\ lock'["immix"] = lock["immix"]
    BY <1>1 DEF TypeOK
  <2> QED
    BY <1>1, <1>2, <2>1, <2>2, Pointers DEF LocksInv
<1>4. BlockOwnedOnce' /\ UsableLinked' /\ UsedLinked' /\ TakenInOrder'
  BY <1>1, <1>2, ImmixFrame
<1>5. FirstAndLatest' /\ LargeInv'
  BY <1>1, <1>2, LargeFrame
<1> QED
  BY <1>1, <1>3, <1>4, <1>5 DEF OwnInv

\* One more turn around the ints.
LEMMA Turn ==
    ASSUME NEW k \in Nat, NEW m \in Nat
    PROVE  k * m \in Nat /\ (k + 1) * m = k * m + m
OBVIOUS

\* The first node is head and last for ever; a later one is linked behind it.
LEMMA LinkNodeInv ==
    ASSUME OwnInv, TypeOK', NEW t \in Thread, LinkNode(t)
    PROVE  OwnInv'
<1>1. /\ TypeOK /\ LocksInv /\ stray = 0 /\ process = "running" /\ pc[t] = "check"
      /\ ~ TooLarge(t) /\ FirstAndLatest /\ LargeInv
      /\ pc' = [pc EXCEPT ![t] = "account"]
      /\ UNCHANGED <<process, stray, lock, mutators, lists, locals, used_size, size>>
  BY DEF LinkNode, At, Goto, OwnInv
<1> DEFINE node == Len(nodes) + 1
           new == [size |-> size[t], next |-> 0]
<1>2. PICK old \in Seq(Node) :
          /\ Len(old) = Len(nodes)
          /\ \A i \in 1 .. Len(nodes) :
                /\ old[i].size = nodes[i].size
                /\ old[i].next = IF i = last THEN Len(nodes) + 1 ELSE nodes[i].next
          /\ nodes' = Append(old, [size |-> size[t], next |-> 0])
  BY <1>1, LinkNodeNodes
<1>3. /\ nodes \in Seq(Node) /\ Len(nodes) \in Nat /\ new \in Node
      /\ last \in 0 .. Len(nodes) /\ head \in 0 .. Len(nodes)
      /\ used_size \in Int /\ size[t] \in 0 .. INT_MAX
  BY <1>1, Pointers DEF TypeOK, Node
<1>4. /\ last = 0 => nodes = <<>> /\ Len(nodes) = 0
      /\ last # 0 => last = 1 /\ head = 1 /\ nodes # <<>> /\ 1 \in 1 .. Len(nodes)
  BY <1>1, <1>3 DEF FirstAndLatest, LargeInv
<1>5. /\ head' = IF last = 0 THEN node ELSE head
      /\ last' = IF last = 0 THEN node ELSE last
  BY DEF LinkNode
<1>6. /\ Total(nodes') = Total(nodes) + new.size /\ new.size = size[t] /\ new.next = 0
      /\ Total(nodes) \in Nat
  BY <1>2, <1>3, TotalAppend
<1> HIDE DEF new
<1>7. /\ Len(nodes') = node /\ nodes'[node] = new
      /\ \A i \in 1 .. Len(nodes) : nodes'[i] = old[i]
  BY <1>2, <1>3 DEF new
<1>8. \A u \in Thread : pc'[u] = IF u = t THEN "account" ELSE pc[u]
  BY <1>1 DEF TypeOK
<1>9. LocksInv'
  <2>1. N_MUTATORS' = Cardinality({u \in Thread : pc'[u] \notin {"start", "new"}})
    BY <1>1, <1>8, CountFrame
  <2> QED
    BY <1>1, <1>8, <2>1 DEF LocksInv
<1>10. FirstAndLatest'
  <2>1. head' = 1 /\ last' = 1
    BY <1>4, <1>5
  <2>2. nodes'[1].next = IF Len(nodes') = 1 THEN 0 ELSE Len(nodes')
    <3>1. CASE last = 0
      BY <1>4, <1>6, <1>7, <3>1
    <3>2. CASE last # 0
      BY <1>2, <1>3, <1>4, <1>7, <3>2
    <3> QED
      BY <3>1, <3>2
  <2>3. \A i \in 2 .. Len(nodes') : nodes'[i].next = 0
    <3> SUFFICES ASSUME NEW i \in 2 .. node PROVE nodes'[i].next = 0
      BY <1>7
    <3>1. CASE i = node
      BY <1>6, <1>7, <3>1
    <3>2. CASE i # node
      <4>1. i \in 2 .. Len(nodes) /\ i \in 1 .. Len(nodes) /\ i # last /\ nodes # <<>>
        BY <1>3, <1>4, <3>2
      <4> QED
        BY <1>1, <1>2, <1>7, <4>1 DEF FirstAndLatest
    <3> QED
      BY <3>1, <3>2
  <2> QED
    BY <2>1, <2>2, <2>3 DEF FirstAndLatest
<1>11. LargeInv'
  <2>1. \A u \in Thread : pc[u] # "account"
    BY <1>1 DEF LocksInv
  <2>2. /\ \E k \in 0 .. Len(nodes) : Total(nodes) = used_size + k * (2 * (INT_MAX + 1))
        /\ NoneWraps => used_size = Total(nodes)
        /\ used_size <= LO_SPACE_SIZE
    BY <1>1, <2>1 DEF LargeInv
  <2>3. Sum(t)' = Sum(t) /\ ~ TooLarge(t)'
    BY <1>1 DEF Sum, TooLarge
  <2>4. \E k \in 0 .. Len(nodes') : Total(nodes') = Sum(t)' + k * (2 * (INT_MAX + 1))
    <3>1. PICK k \in 0 .. Len(nodes) : Total(nodes) = used_size + k * (2 * (INT_MAX + 1))
      BY <2>2
    <3> DEFINE m == 2 * (INT_MAX + 1)
    <3>2. m \in Nat /\ k \in Nat /\ k \in 0 .. Len(nodes') /\ k + 1 \in 0 .. Len(nodes')
      BY <1>3, <1>7, Pointers
    <3>3. k * m \in Nat /\ (k + 1) * m = k * m + m
      BY <3>2, Turn
    <3>4. Sum(t) = used_size + size[t] \/ Sum(t) = used_size + size[t] - m
      BY DEF Sum
    <3>5. Total(nodes') = used_size + k * m + size[t] /\ size[t] \in Int
      BY <1>3, <1>6, <3>1
    <3> HIDE DEF m
    <3>6. CASE Sum(t) = used_size + size[t]
      <4>1. Total(nodes') = Sum(t)' + k * m
        BY <1>3, <2>3, <3>3, <3>5, <3>6
      <4> QED
        BY <3>2, <4>1 DEF m
    <3>7. CASE Sum(t) = used_size + size[t] - m
      <4>1. Total(nodes') = Sum(t)' + (k + 1) * m
        BY <1>3, <2>3, <3>2, <3>3, <3>5, <3>7
      <4> QED
        BY <3>2, <4>1 DEF m
    <3> QED
      BY <3>4, <3>6, <3>7
  <2>5. ASSUME NoneWraps' PROVE Sum(t)' = Total(nodes')
    <3>1. size[t] <= INT_MAX - LO_SPACE_SIZE
      <4>1. node \in 1 .. Len(nodes')
        BY <1>3, <1>7
      <4>2. nodes'[node].size <= INT_MAX - LO_SPACE_SIZE
        BY <2>5, <4>1 DEF NoneWraps
      <4> QED
        BY <1>6, <1>7, <4>2
    <3>2. NoneWraps
      <4> SUFFICES ASSUME NEW i \in 1 .. Len(nodes)
                   PROVE  nodes[i].size <= INT_MAX - LO_SPACE_SIZE
        BY DEF NoneWraps
      <4>1. i \in 1 .. Len(nodes') /\ nodes'[i].size = nodes[i].size
        BY <1>2, <1>3, <1>7
      <4>2. nodes'[i].size <= INT_MAX - LO_SPACE_SIZE
        BY <2>5, <4>1 DEF NoneWraps
      <4> QED
        BY <4>1, <4>2
    <3>3. used_size + size[t] <= INT_MAX
      BY <1>3, <2>2, <3>1, Pointers
    <3>4. Sum(t) = used_size + size[t]
      BY <1>3, <3>3, Pointers DEF Sum
    <3> QED
      BY <1>6, <2>2, <2>3, <3>2, <3>4
  <2>6. nodes' # <<>>
    BY <1>3, <1>7
  <2> QED
    BY <1>1, <1>8, <2>1, <2>2, <2>3, <2>4, <2>5, <2>6 DEF LargeInv
<1>12. BlockOwnedOnce' /\ UsableLinked' /\ UsedLinked' /\ TakenInOrder'
  BY <1>1, <1>8, ImmixFrame
<1> QED
  BY <1>1, <1>9, <1>10, <1>11, <1>12 DEF OwnInv

LEMMA AccountInv ==
    ASSUME OwnInv, TypeOK', NEW t \in Thread, Account(t)
    PROVE  OwnInv'
<1>1. /\ TypeOK /\ LocksInv /\ stray = 0 /\ process = "running" /\ pc[t] = "account"
      /\ FirstAndLatest /\ LargeInv
      /\ used_size' = Sum(t)
      /\ lock' = [lock EXCEPT !["lo"] = NULL]
      /\ pc' = [pc EXCEPT ![t] = "mutator"]
      /\ UNCHANGED <<process, stray, mutators, lists, locals, head, last, nodes, size>>
  BY DEF Account, At, Goto, pthread_mutex_unlock, OwnInv
<1>2. \A u \in Thread : pc'[u] = IF u = t THEN "mutator" ELSE pc[u]
  BY <1>1 DEF TypeOK
<1>3. \A u \in Thread : pc'[u] \notin {"account", "check"}
  BY <1>1, <1>2 DEF LocksInv
<1>4. LocksInv'
  <2>1. N_MUTATORS' = Cardinality({u \in Thread : pc'[u] \notin {"start", "new"}})
    BY <1>1, <1>2, CountFrame
  <2>2. lock'["lo"] = NULL /\ lock'["id"] = lock["id"] /\ lock'["immix"] = lock["immix"]
    BY <1>1 DEF TypeOK
  <2> QED
    BY <1>1, <1>2, <1>3, <2>1, <2>2, Pointers DEF LocksInv
<1>5. FirstAndLatest' /\ LargeInv'
  <2>1. /\ ~ TooLarge(t)
        /\ \E k \in 0 .. Len(nodes) : Total(nodes) = Sum(t) + k * (2 * (INT_MAX + 1))
        /\ NoneWraps => Sum(t) = Total(nodes)
    BY <1>1 DEF LargeInv
  <2>2. Sum(t) <= LO_SPACE_SIZE
    <3>1. Sum(t) \in Int
      BY <1>1, SumType, Pointers
    <3> QED
      BY <2>1, <3>1, Pointers DEF TooLarge
  <2>3. NoneWraps' <=> NoneWraps
    BY <1>1 DEF NoneWraps
  <2>4. FirstAndLatest'
    BY <1>1 DEF FirstAndLatest
  <2> QED
    BY <1>1, <1>3, <2>1, <2>2, <2>3, <2>4 DEF LargeInv
<1>6. BlockOwnedOnce' /\ UsableLinked' /\ UsedLinked' /\ TakenInOrder'
  BY <1>1, <1>2, ImmixFrame
<1> QED
  BY <1>1, <1>4, <1>5, <1>6 DEF OwnInv

LEMMA StutterInv ==
    ASSUME OwnInv, TypeOK', UNCHANGED vars
    PROVE  OwnInv'
BY OwnStepInv DEF vars, OwnInv

\* A step that starts with a stray access behind it does not undo it.
LEMMA StrayStays ==
    ASSUME TypeOK, [Next]_vars, stray' = 0
    PROVE  stray = 0
<1>1. stray \in Nat
  BY DEF TypeOK
<1>2. ASSUME NEW t \in Thread, Access(t) \/ Crash(t) \/ UNCHANGED stray PROVE stray = 0
  BY <1>1, <1>2 DEF Access, Crash
<1>3. CASE UNCHANGED vars
  BY <1>3 DEF vars
<1>4. CASE Next
  <2>1. PICK t \in Thread :
            Inside(t) \/ EnterNew(t) \/ Alloc(t) \/ AllocFromGlobal(t) \/ AllocLarge(t)
    BY <1>4 DEF Next
  <2>2. Access(t) \/ Crash(t) \/ UNCHANGED stray
    BY <2>1 DEF Inside, LeaveNew, NoneUsable, Exhausted, Unlink, PushUsed, TakeHole, NoRoom,
                ExhaustedLarge, FailedAlloc, LinkNode, Account, EnterNew, Alloc,
                AllocFromGlobal, AllocLarge, Exit
  <2> QED
    BY <1>2, <2>2
<1> QED
  BY <1>3, <1>4

LEMMA OwnStep ==
    ASSUME OwnInv, [Next]_vars, TypeOK', stray' = 0
    PROVE  OwnInv'
<1>1. CASE UNCHANGED vars
  BY <1>1, StutterInv
<1>2. ASSUME NEW t \in Thread, EnterNew(t) \/ LeaveNew(t) PROVE OwnInv'
  BY <1>2, EnterNewInv, LeaveNewInv
<1>3. ASSUME NEW t \in Thread, Alloc(t) \/ AllocFromGlobal(t) \/ NoneUsable(t) PROVE OwnInv'
  BY <1>3, AllocInv, AllocFromGlobalInv, NoneUsableInv
<1>4. ASSUME NEW t \in Thread, Exhausted(t) \/ ExhaustedLarge(t) \/ FailedAlloc(t)
      PROVE  OwnInv'
  BY <1>4, ExitInv
<1>5. ASSUME NEW t \in Thread, Unlink(t) \/ PushUsed(t) \/ TakeHole(t) PROVE OwnInv'
  BY <1>5, UnlinkInv, PushUsedInv, TakeHoleInv
<1>6. ASSUME NEW t \in Thread, AllocLarge(t) \/ NoRoom(t) PROVE OwnInv'
  BY <1>6, AllocLargeInv, NoRoomInv
<1>7. ASSUME NEW t \in Thread, LinkNode(t) \/ Account(t) PROVE OwnInv'
  BY <1>7, LinkNodeInv, AccountInv
<1>8. ASSUME NEW t \in Thread, Crash(t) PROVE OwnInv'
  BY <1>8 DEF OwnInv, Crash
<1> QED
  BY <1>1, <1>2, <1>3, <1>4, <1>5, <1>6, <1>7, <1>8 DEF Next, Inside
(***************************************************************************)
(* What the inductive invariant says of the lists.                         *)
(***************************************************************************)
LEMMA OwnLists ==
    ASSUME OwnInv
    PROVE  /\ ListFrom(usable_blocks) = Taken .. BLOCKS - 1
           /\ ListFrom(used_blocks) = 0 .. Pushed - 1
           /\ Cardinality(ListFrom(used_blocks)) = Pushed
           /\ Taken \in 0 .. BLOCKS /\ Pushed \in 0 .. BLOCKS
<1>1. TypeOK /\ UsableLinked /\ UsedLinked
  BY DEF OwnInv
<1>2. /\ ListFrom(usable_blocks) = Taken .. BLOCKS - 1
      /\ ListFrom(used_blocks) = 0 .. Pushed - 1
  BY <1>1, UsableList, UsedList
<1>3. Taken \in 0 .. BLOCKS /\ Pushed \in 0 .. BLOCKS
  BY Pointers DEF Taken, Pushed
<1>4. Cardinality(0 .. Pushed - 1) = Pushed
  BY <1>3, FS_Interval, Pointers
<1> QED
  BY <1>2, <1>3, <1>4

LEMMA OwnListsSound ==
    ASSUME OwnInv
    PROVE  ListsSound
<1>1. TypeOK /\ UsableLinked /\ UsedLinked /\ TakenInOrder /\ LocksInv
  BY DEF OwnInv
<1>2. /\ ListFrom(usable_blocks) = Taken .. BLOCKS - 1
      /\ ListFrom(used_blocks) = 0 .. Pushed - 1
  BY OwnLists
<1>3. /\ Taken \in 0 .. BLOCKS /\ Pushed \in 0 .. BLOCKS
      /\ Block = 0 .. BLOCKS - 1
  BY OwnLists DEF Block
<1>4. ListsSound
  <2> SUFFICES ASSUME lock["immix"] = NULL, stray = 0
               PROVE  ListsSound
    BY DEF ListsSound
  <2>1. \A t \in Thread : pc[t] \notin {"push", "unlink"}
    BY <1>1, Pointers DEF LocksInv
  <2>2. /\ Taken = Pushed /\ usable_blocks # Wild
        /\ \A t \in Thread : block[t] # NULL => block[t] \in Block /\ block[t] < Pushed
    BY <1>1, <2>1 DEF TakenInOrder, TypeOK, Pointer
  <2>3. /\ ListFrom(usable_blocks) \cap ListFrom(used_blocks) = {}
        /\ ListFrom(usable_blocks) \cup ListFrom(used_blocks) = Block
    BY <1>2, <1>3, <2>2, Pointers
  <2>4. ASSUME NEW b \in Block
        PROVE  /\ next[b] \in Block => prev[next[b]] = b
               /\ prev[b] = NULL <=> b \in {usable_blocks, used_blocks}
    <3>1. CASE b < Pushed
      <4>1. /\ next[b] = IF b = 0 THEN NULL ELSE b - 1
            /\ prev[b] = IF b = Pushed - 1 THEN NULL ELSE b + 1
        BY <1>1, <1>3, <3>1, Pointers DEF UsedLinked
      <4>2. b # 0 => prev[b - 1] = b
        BY <1>1, <1>3, <3>1, Pointers DEF UsedLinked
      <4>3. used_blocks = Pushed - 1
        BY <3>1, Pointers DEF Pushed
      <4>4. b # usable_blocks
        BY <2>2, <3>1, Pointers DEF Taken
      <4>5. b # Pushed - 1 => b + 1 # NULL
        BY <1>3, <3>1, Pointers
      <4> QED
        BY <4>1, <4>2, <4>3, <4>4, <4>5, Pointers
    <3>2. CASE ~ (b < Pushed)
      <4>1. b \in Taken .. BLOCKS - 1
        BY <1>3, <2>2, <3>2, Pointers
      <4>2. /\ IF b = BLOCKS - 1 THEN next[b] \in {NULL, Wild} ELSE next[b] = b + 1
            /\ prev[b] = IF b = Taken THEN NULL ELSE b - 1
        BY <1>1, <4>1 DEF UsableLinked
      <4>3. b # BLOCKS - 1 => prev[b + 1] = b
        BY <1>1, <1>3, <4>1, Pointers DEF UsableLinked
      <4>4. usable_blocks = Taken
        BY <1>3, <4>1, Pointers DEF Taken
      <4>5. b # used_blocks
        BY <1>3, <3>2, Pointers DEF Pushed
      <4>6. b # Taken => b - 1 # NULL
        BY <1>3, <4>1, Pointers
      <4> QED
        BY <4>2, <4>3, <4>4, <4>5, <4>6, Pointers
    <3> QED
      BY <3>1, <3>2
  <2>5. \A t \in Thread : block[t] # NULL => block[t] \in ListFrom(used_blocks)
    BY <1>2, <1>3, <2>2, Pointers
  <2> QED
    BY <2>3, <2>4, <2>5 DEF ListsSound
<1> QED
  BY <1>4

\* A first stray access is one more mutator, or one with the first block or the
\* last.
LEMMA FirstStray ==
    ASSUME OwnInv, NEW t \in Thread, Stray(t)
    PROVE  N_MUTATORS >= MAX_MUTATORS \/ Pushed \in {0, BLOCKS - 1, BLOCKS}
<1>1. /\ TypeOK /\ TakenInOrder /\ UsableLinked /\ Pushed \in 0 .. BLOCKS
      /\ block[t] # Wild
  BY OwnLists DEF OwnInv, TakenInOrder
<1>2. ASSUME pc[t] = "unlink", block[t] # NULL, Wild \in {block[t]} \cup NextOf(block[t])
      PROVE  Pushed = BLOCKS - 1
  <2>1. block[t] \in Block /\ block[t] = usable_blocks
    BY <1>1, <1>2 DEF TypeOK, Pointer, TakenInOrder
  <2>2. next[block[t]] = Wild /\ Taken = block[t]
    BY <1>1, <1>2, <2>1 DEF NextOf, Taken
  <2>3. \A u \in Thread : pc[u] # "push"
    BY <1>2, Alone
  <2>4. Taken = Pushed
    BY <1>1, <2>3 DEF TakenInOrder
  <2>5. block[t] # BLOCKS - 1 => next[block[t]] = block[t] + 1 /\ block[t] + 1 \in Block
    BY <1>1, <2>1, <2>2, Pointers DEF UsableLinked
  <2> QED
    BY <2>1, <2>2, <2>4, <2>5, Pointers
<1>3. ASSUME pc[t] = "push", Wild \in {block[t], used_blocks} PROVE Pushed = 0
  BY <1>1, <1>3, Pointers DEF Pushed
<1>4. ASSUME pc[t] = "hole", block[t] = BLOCKS - 1 PROVE Pushed = BLOCKS
  <2>1. block[t] # NULL
    BY <1>4, Pointers
  <2>2. block[t] < Pushed
    BY <1>1, <1>4, <2>1 DEF TakenInOrder
  <2> QED
    BY <1>1, <1>4, <2>2, Pointers
<1> QED
  BY <1>1, <1>2, <1>3, <1>4 DEF Stray

LEMMA EndsStep ==
    ASSUME BaselineInv, [Next]_vars, stray = 0
    PROVE  /\ stray' # 0 =>
                \/ N_MUTATORS >= MAX_MUTATORS
                \/ Cardinality(ListFrom(used_blocks)) \in {0, BLOCKS - 1, BLOCKS}
           /\ process' = "immix_exhausted" =>
                ListFrom(used_blocks) = Block \/ UNCHANGED vars
<1>1. OwnInv
  BY OwnIs
<1>2. CASE UNCHANGED vars
  BY <1>2 DEF vars
<1>3. CASE Next
  <2>1. PICK t \in Thread :
            Inside(t) \/ EnterNew(t) \/ Alloc(t) \/ AllocFromGlobal(t) \/ AllocLarge(t)
    BY <1>3 DEF Next
  <2>2. stray' # 0 => Stray(t)
    BY <2>1 DEF Inside, LeaveNew, NoneUsable, Exhausted, Unlink, PushUsed, TakeHole, NoRoom,
                ExhaustedLarge, FailedAlloc, LinkNode, Account, EnterNew, Alloc,
                AllocFromGlobal, AllocLarge, Exit, Access, Crash
  <2>3. process' = "immix_exhausted" => pc[t] = "exhausted"
    BY <2>1 DEF Inside, LeaveNew, NoneUsable, Exhausted, Unlink, PushUsed, TakeHole, NoRoom,
                ExhaustedLarge, FailedAlloc, LinkNode, Account, EnterNew, Alloc,
                AllocFromGlobal, AllocLarge, Exit, Crash, At
  <2>4. pc[t] = "exhausted" => Pushed = BLOCKS
    BY <1>1 DEF OwnInv, TakenInOrder
  <2> QED
    BY <1>1, <2>2, <2>3, <2>4, FirstStray, OwnLists DEF Block
<1> QED
  BY <1>2, <1>3

(***************************************************************************)
(* Theorems.                                                               *)
(***************************************************************************)
\* As long as every access was to the allocator's own memory, blocks are taken
\* in the order of their addresses under the mutex of the space and pushed one by
\* one, every mutex is held by exactly the thread inside its critical section,
\* and the large objects are accounted for, modulo the width of int.
THEOREM BaselineInvariant == Spec => []BaselineInv
<1>1. Init => BaselineInv
  BY InitInv, OwnIs DEF OwnInv
<1>2. BaselineInv /\ [Next]_vars => BaselineInv'
  <2> SUFFICES ASSUME BaselineInv, [Next]_vars PROVE BaselineInv'
    OBVIOUS
  <2>1. TypeOK /\ (stray = 0 => OwnInv)
    BY OwnIs
  <2>2. TypeOK'
    BY <2>1, TypeStep
  <2>3. stray' = 0 => stray = 0
    BY <2>1, StrayStays
  <2>4. stray' = 0 => OwnInv'
    BY <2>1, <2>2, <2>3, OwnStep
  <2>5. TypeOK' /\ (stray' = 0 => OwnInv') => BaselineInv'
    BY Zenon DEF BaselineInv, OwnInv, BlockOwnedOnce, FirstAndLatest
  <2> QED
    BY <2>2, <2>4, <2>5
<1> QED
  BY <1>1, <1>2, PTL DEF Spec

\* Every variable keeps its type, also after a stray access: what a mutator
\* bumps through is never more than a block, and used_size stays an int.
THEOREM TypeCorrect == Spec => []TypeOK
<1>1. BaselineInv => TypeOK
  BY DEF BaselineInv
<1> QED
  BY <1>1, BaselineInvariant, PTL

\* Until an access strays, two mutators never bump through the same block.
THEOREM BlocksOwnedOnce == Spec => []BlockOwnedOnce
<1>1. BaselineInv => BlockOwnedOnce
  BY DEF BaselineInv
<1> QED
  BY <1>1, BaselineInvariant, PTL

\* Until an access strays, and outside the critical section, the two lists hold
\* every block once, are linked both ways, and the blocks in use are on the second.
THEOREM ListsAreSound == Spec => []ListsSound
<1>1. BaselineInv => ListsSound
  <2>1. stray # 0 => ListsSound
    BY DEF ListsSound
  <2> QED
    BY <2>1, OwnIs, OwnListsSound
<1> QED
  BY <1>1, BaselineInvariant, PTL

\* The first access that strays is that of a mutator more than MAX_MUTATORS, or it
\* is with the first block or the last one: the two uninitialised pointers and the
\* end of the mapping do no harm in between.  Until then "Space exhausted" means
\* that every block is in use.
THEOREM HarmAtTheEndsOnly == Spec => EndsAtTheEnds
<1>1. BaselineInv /\ [Next]_vars =>
        [/\ stray = 0 /\ stray' # 0 =>
              \/ N_MUTATORS >= MAX_MUTATORS
              \/ Cardinality(ListFrom(used_blocks)) \in {0, BLOCKS - 1, BLOCKS}
         /\ stray = 0 /\ process' = "immix_exhausted" => ListFrom(used_blocks) = Block]_vars
  BY EndsStep
<1> QED
  BY <1>1, BaselineInvariant, PTL DEF Spec, EndsAtTheEnds

\* Until an access strays, the list of large objects is the first node and the
\* latest one.
THEOREM ListIsFirstAndLatest == Spec => []FirstAndLatest
<1>1. BaselineInv => FirstAndLatest
  BY DEF BaselineInv
<1> QED
  BY <1>1, BaselineInvariant, PTL

\* Until an access strays, and between two calls, used_size is the sum of the
\* sizes that FreeListSpace_alloc has granted up to a multiple of the range of
\* int; if no size exceeds INT_MAX - LO_SPACE_SIZE it is that sum, and within the
\* size of the space.
THEOREM LargeIsAccounted == Spec => []LargeAccounted
<1>1. BaselineInv => LargeAccounted
  <2> SUFFICES ASSUME BaselineInv, lock["lo"] = NULL, stray = 0 PROVE LargeAccounted
    BY DEF LargeAccounted
  <2>1. OwnInv
    BY OwnIs
  <2>2. \A t \in Thread : pc[t] # "account"
    BY <2>1, Pointers DEF OwnInv, LocksInv
  <2> QED
    BY <2>1, <2>2 DEF OwnInv, LargeInv, LargeAccounted
<1> QED
  BY <1>1, BaselineInvariant, PTL

\* Until an access strays, no function returns with a mutex that it has locked,
\* also not on the paths that end in exit.
THEOREM FunctionsReturnUnlocked == Spec => []ReturnsUnlocked
<1>1. BaselineInv => ReturnsUnlocked
  <2> SUFFICES ASSUME BaselineInv, stray = 0 PROVE ReturnsUnlocked
    BY DEF ReturnsUnlocked
  <2>1. OwnInv
    BY OwnIs
  <2> QED
    BY <2>1 DEF OwnInv, LocksInv, ReturnsUnlocked
<1> QED
  BY <1>1, BaselineInvariant, PTL
=============================================================================
