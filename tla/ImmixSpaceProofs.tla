-------------------------- MODULE ImmixSpaceProofs --------------------------
(***************************************************************************)
(* Proofs about the Immix space: the safety invariants of ImmixSpace hold  *)
(* for any number of mutators, blocks and lines and for any line size.     *)
(*                                                                         *)
(* The geometry comes first: what BlockOf, LineOf and AlignUp do, proved   *)
(* with the arithmetic of products and quotients and not expanded after    *)
(* that.  Then the holes that get_next_available_line and                  *)
(* get_next_unavailable_line find.  Then SpaceInv, one lemma per action.   *)
(***************************************************************************)
EXTENDS ImmixSpace, NumberFacts, FiniteSetTheorems, TLAPS

(***************************************************************************)
(* Geometry of the space.                                                  *)
(***************************************************************************)
\* Rounding an address up never moves it down.
LEMMA AlignUpProp ==
    ASSUME NEW addr \in Nat, NEW align \in Nat \ {0}
    PROVE  AlignUp(addr, align) \in Nat /\ addr <= AlignUp(addr, align)
<1> DEFINE q == (addr + align - 1) \div align
<1>1. q \in Int /\ addr + align - 1 < (q + 1) * align
  BY DivBounds
<1> HIDE DEF q
<1>2. q * align \in Int /\ (q + 1) * align = q * align + align
  BY <1>1
<1>3. addr <= q * align
  BY <1>1, <1>2
<1> QED
  BY <1>2, <1>3 DEF AlignUp, q

\* Sizes of the space.
LEMMA Sizes ==
    /\ BYTES_IN_BLOCK \in Nat \ {0}
    /\ SpaceStart \in Nat \ {0}
    /\ TotalLines \in Nat \ {0}
    /\ \A b \in Int : BlockStart(b) \in Int
    /\ BlockStart(BLOCKS) = SpaceStart + TotalLines * BYTES_IN_LINE
    /\ None \notin Block
<1>1. /\ BLOCKS \in Nat \ {0} /\ LINES_IN_BLOCK \in Nat \ {0}
      /\ BYTES_IN_LINE \in Nat \ {0} /\ None \notin Block
  BY SpaceAssumption DEF Block
<1>2. /\ LINES_IN_BLOCK * BYTES_IN_LINE \in Nat \ {0}
      /\ BLOCKS * LINES_IN_BLOCK \in Nat \ {0}
  BY <1>1
<1>3. \A b \in Int : b * (LINES_IN_BLOCK * BYTES_IN_LINE) \in Int
  BY <1>2
<1>4. BLOCKS * (LINES_IN_BLOCK * BYTES_IN_LINE)
        = (BLOCKS * LINES_IN_BLOCK) * BYTES_IN_LINE
  BY <1>1
<1> QED
  BY <1>1, <1>2, <1>3, <1>4
  DEF BYTES_IN_BLOCK, SpaceStart, TotalLines, BlockStart

\* An address of a block is an address of the space.
LEMMA BlockInSpace ==
    ASSUME NEW a \in Int, BlockOf(a) \in Block
    PROVE  a \in SpaceStart .. BlockStart(BLOCKS) - 1
<1> DEFINE B == BYTES_IN_BLOCK
           x == a - SpaceStart
           q == x \div B
<1>1. B \in Nat \ {0} /\ SpaceStart \in Nat /\ x \in Int /\ BLOCKS \in Nat
  BY Sizes, SpaceAssumption
<1>2. q \in Int /\ q * B <= x /\ x < (q + 1) * B
  BY <1>1, DivBounds
<1>3. 0 <= q /\ q + 1 <= BLOCKS
  BY <1>1 DEF BlockOf, Block
<1>4. BlockStart(BLOCKS) = SpaceStart + BLOCKS * B
  BY DEF BlockStart
<1> HIDE DEF B, q
<1>5. 0 * B <= q * B /\ (q + 1) * B <= BLOCKS * B
  BY <1>1, <1>2, <1>3, MulLeq
<1>6. 0 <= x /\ x < BLOCKS * B /\ BLOCKS * B \in Int
  BY <1>1, <1>2, <1>5
<1> QED
  BY <1>1, <1>4, <1>6

\* An address of the space has a line.
LEMMA LineInSpace ==
    ASSUME NEW a \in SpaceStart .. BlockStart(BLOCKS) - 1
    PROVE  LineOf(a) \in Line
<1> DEFINE Y == BYTES_IN_LINE
           x == a - SpaceStart
           q == x \div Y
<1>1. Y \in Nat \ {0} /\ SpaceStart \in Nat /\ TotalLines \in Nat
  BY Sizes, SpaceAssumption
<1>2. x \in Int /\ 0 <= x /\ x < TotalLines * Y /\ a \in Int
  BY <1>1, Sizes
<1>3. q \in Int /\ q * Y <= x /\ x < (q + 1) * Y
  BY <1>1, <1>2, DivBounds
<1> HIDE DEF Y, q, x
<1>4. q * Y < TotalLines * Y /\ 0 * Y < (q + 1) * Y
  BY <1>1, <1>2, <1>3
<1>5. q < TotalLines /\ 0 < q + 1
  BY <1>1, <1>3, <1>4, MulLess
<1> QED
  BY <1>1, <1>3, <1>5 DEF LineOf, Line, q, x, Y

\* The bytes of lines first .. end - 1 of block b are on those lines and in that
\* block.
LEMMA HoleBytes ==
    ASSUME NEW b \in Block, NEW first \in 0 .. LINES_IN_BLOCK,
           NEW end \in 0 .. LINES_IN_BLOCK,
           NEW a \in BlockStart(b) + first * BYTES_IN_LINE ..
                     (BlockStart(b) + end * BYTES_IN_LINE) - 1
    PROVE  /\ BlockOf(a) = b
           /\ LineOf(a) \in Line
           /\ LineOf(a) - b * LINES_IN_BLOCK \in first .. end - 1
<1> DEFINE Y == BYTES_IN_LINE
           L == LINES_IN_BLOCK
           x == a - SpaceStart
           q == x \div Y
<1>1. /\ Y \in Nat \ {0} /\ L \in Nat \ {0} /\ b \in Nat /\ SpaceStart \in Nat
      /\ first \in Nat /\ end \in Nat /\ end <= L /\ BLOCKS \in Nat
      /\ BYTES_IN_BLOCK = L * Y /\ BlockStart(b) = SpaceStart + b * (L * Y)
  BY Sizes, SpaceAssumption DEF Block, BYTES_IN_BLOCK, BlockStart
<1>2. /\ first * Y \in Nat /\ end * Y \in Nat /\ b * (L * Y) \in Nat
      /\ b * L \in Nat
      /\ b * (L * Y) + first * Y = (b * L + first) * Y
      /\ b * (L * Y) + end * Y = (b * L + end) * Y
      /\ b * (L * Y) + L * Y = (b + 1) * (L * Y)
  BY <1>1
<1>3. /\ x \in Int /\ (b * L + first) * Y <= x /\ x < (b * L + end) * Y
      /\ a \in Int
  <2>1. BlockStart(b) \in Int /\ first * Y \in Int /\ end * Y \in Int
    BY <1>1, <1>2
  <2>2. /\ a \in Int
        /\ BlockStart(b) + first * Y <= a /\ a < BlockStart(b) + end * Y
    BY <2>1
  <2> HIDE DEF Y, L
  <2> QED
    BY <1>1, <1>2, <2>2
<1>4. q \in Int /\ q * Y <= x /\ x < (q + 1) * Y
  BY <1>1, <1>3, DivBounds
<1>5. b * L + first <= q /\ q < b * L + end
  <2> HIDE DEF Y, L, q, x
  <2>1. b * L + first \in Int /\ b * L + end \in Int /\ q + 1 \in Int
    BY <1>1, <1>2, <1>4
  <2>2. (b * L + first) * Y < (q + 1) * Y /\ q * Y < (b * L + end) * Y
    BY <1>1, <1>3, <1>4, <2>1
  <2>3. b * L + first < q + 1
    BY <1>1, <2>1, <2>2, MulLess
  <2>4. q < b * L + end
    BY <1>1, <1>4, <2>1, <2>2, MulLess
  <2> QED
    BY <1>1, <1>2, <1>4, <2>3, <2>4
<1>6. BlockOf(a) = b
  <2> HIDE DEF Y, L, q, x
  <2>1. end * Y <= L * Y
    BY <1>1, MulLeq
  <2>2. b * (L * Y) <= x /\ x < (b + 1) * (L * Y) /\ L * Y \in Nat \ {0}
    BY <1>1, <1>2, <1>3, <2>1
  <2>3. x \div (L * Y) = b
    BY <1>1, <1>3, <2>2, DivUnique
  <2> QED
    BY <1>1, <2>3 DEF BlockOf, x
<1>7. LineOf(a) = q
  BY DEF LineOf
<1>8. LineOf(a) \in Line
  BY <1>3, <1>6, BlockInSpace, LineInSpace
<1> HIDE DEF Y, L, q, x
<1>9. q - b * L \in first .. end - 1
  BY <1>1, <1>2, <1>4, <1>5
<1> QED
  BY <1>6, <1>7, <1>8, <1>9 DEF L

\* The ends of a hole are addresses of the space, or its end.
LEMMA HoleEnds ==
    ASSUME NEW b \in Block, NEW first \in 0 .. LINES_IN_BLOCK,
           NEW end \in 0 .. LINES_IN_BLOCK, first <= end
    PROVE  /\ BlockStart(b) + first * BYTES_IN_LINE \in Nat
           /\ BlockStart(b) + end * BYTES_IN_LINE \in Nat
           /\ InBounds(BlockStart(b) + first * BYTES_IN_LINE,
                       BlockStart(b) + end * BYTES_IN_LINE)
<1> DEFINE Y == BYTES_IN_LINE
           L == LINES_IN_BLOCK
<1>1. /\ Y \in Nat \ {0} /\ L \in Nat \ {0} /\ b \in Nat /\ SpaceStart \in Nat
      /\ first \in Nat /\ end \in Nat /\ end <= L /\ BLOCKS \in Nat /\ b + 1 <= BLOCKS
      /\ BlockStart(b) = SpaceStart + b * (L * Y)
      /\ BlockStart(BLOCKS) = SpaceStart + BLOCKS * (L * Y)
  BY Sizes, SpaceAssumption DEF Block, BYTES_IN_BLOCK, BlockStart
<1> HIDE DEF Y, L
<1>2. /\ L * Y \in Nat /\ first * Y \in Nat /\ end * Y \in Nat /\ b * (L * Y) \in Nat
      /\ BLOCKS * (L * Y) \in Nat
      /\ (b + 1) * (L * Y) = b * (L * Y) + L * Y
  BY <1>1
<1>3. first * Y <= end * Y /\ end * Y <= L * Y
  BY <1>1, MulLeq
<1>4. (b + 1) * (L * Y) <= BLOCKS * (L * Y)
  BY <1>1, <1>2, MulLeq
<1>5. /\ BlockStart(b) + first * Y \in Nat /\ BlockStart(b) + end * Y \in Nat
      /\ SpaceStart <= BlockStart(b) + first * Y
      /\ BlockStart(b) + first * Y <= BlockStart(b) + end * Y
      /\ BlockStart(b) + end * Y <= BlockStart(BLOCKS)
  BY <1>1, <1>2, <1>3, <1>4
<1> QED
  BY <1>5 DEF InBounds, Y

\* An object of at most a line lies on the line of its address and on the next
\* one: the two that mark_line_live marks.
LEMMA CoversTwo ==
    ASSUME NEW o \in [start : Nat, size : 0 .. BYTES_IN_LINE],
           NEW l \in Covers(o)
    PROVE  /\ l \in {LineOf(o.start), LineOf(o.start) + 1}
           /\ o.start \in Extent(o)
<1> DEFINE Y == BYTES_IN_LINE
<1>1. PICK a \in Extent(o) : l = LineOf(a)
  BY DEF Covers
<1>2. /\ Y \in Nat \ {0} /\ SpaceStart \in Nat /\ o.start \in Nat
      /\ o.size \in Nat /\ o.size <= Y
  BY Sizes, SpaceAssumption
<1>3. a \in Int /\ o.start <= a /\ a < o.start + o.size
  BY <1>2 DEF Extent
<1>4. o.start \in Extent(o)
  BY <1>2, <1>3 DEF Extent
<1> DEFINE x == a - SpaceStart
           z == o.start - SpaceStart
           p == x \div Y
           q == z \div Y
<1>5. p \in Int /\ p * Y <= x /\ x < (p + 1) * Y
  BY <1>2, <1>3, DivBounds
<1>6. q \in Int /\ q * Y <= z /\ z < (q + 1) * Y
  <2>1. z \in Int
    BY <1>2
  <2> HIDE DEF z
  <2> QED
    BY <1>2, <2>1, DivBounds
<1>7. l = p /\ LineOf(o.start) = q
  BY <1>1 DEF LineOf
<1>8. x \in Int /\ z \in Int /\ z <= x /\ x < z + Y
  BY <1>2, <1>3
<1> HIDE DEF Y, x, z, p, q
<1>9. (q + 2) * Y = (q + 1) * Y + Y /\ q + 2 \in Int /\ p + 1 \in Int
  BY <1>2, <1>5, <1>6
<1>10. q * Y < (p + 1) * Y /\ p * Y < (q + 2) * Y
  BY <1>2, <1>5, <1>6, <1>8, <1>9
<1>11. q < p + 1
  BY <1>2, <1>5, <1>6, <1>9, <1>10, MulLess
<1>12. p < q + 2
  BY <1>2, <1>5, <1>6, <1>9, <1>10, MulLess
<1> QED
  BY <1>4, <1>5, <1>6, <1>7, <1>11, <1>12

(***************************************************************************)
(* LineMarkTableSlice.                                                     *)
(***************************************************************************)
\* From the first free line at or after i to the next one that is not free, all
\* lines are free.
LEMMA HoleIsFree ==
    ASSUME NEW b, NEW i \in 0 .. LINES_IN_BLOCK - 1, ~ NoHole(b, i)
    PROVE  LET first == get_next_available_line(b, i)
               end == get_next_unavailable_line(b, first)
           IN  /\ first \in 0 .. LINES_IN_BLOCK - 1
               /\ end \in 0 .. LINES_IN_BLOCK
               /\ first <= end
               /\ \A k \in first .. end - 1 : IsFree(b, k)
<1> DEFINE first == get_next_available_line(b, i)
           end == get_next_unavailable_line(b, first)
<1>0. LINES_IN_BLOCK \in Nat
  BY SpaceAssumption
<1>1. /\ first \in i .. LINES_IN_BLOCK - 1
      /\ IsFree(b, first) /\ \A k \in i .. first - 1 : ~ IsFree(b, k)
  <2> DEFINE T == {j \in i .. LINES_IN_BLOCK - 1 : IsFree(b, j)}
  <2>1. T \subseteq Nat /\ T # {}
    BY <1>0 DEF NoHole
  <2>2. PICK j \in T : \A k \in T : j <= k
    BY <2>1, LeastNatural
  <2>3. \A k \in i .. j - 1 : ~ IsFree(b, k)
    BY <1>0, <2>2
  <2> QED
    BY <2>2, <2>3 DEF get_next_available_line
<1> HIDE DEF first
<1>2. /\ end \in first .. LINES_IN_BLOCK
      /\ \A k \in first .. end - 1 : IsFree(b, k)
  <2> DEFINE T == {j \in first .. LINES_IN_BLOCK :
                     j < LINES_IN_BLOCK => ~ IsFree(b, j)}
  <2>1. T \subseteq Nat /\ LINES_IN_BLOCK \in T
    BY <1>0, <1>1
  <2>2. PICK j \in T : \A k \in T : j <= k
    BY <2>1, LeastNatural
  <2>3. \A k \in first .. j - 1 : IsFree(b, k)
    BY <1>0, <1>1, <2>2
  <2> QED
    BY <2>2, <2>3 DEF get_next_unavailable_line
<1>3. first \in 0 .. LINES_IN_BLOCK - 1 /\ end \in 0 .. LINES_IN_BLOCK /\ first <= end
  BY <1>0, <1>1, <1>2
<1> QED
  BY <1>2, <1>3 DEF first

(***************************************************************************)
(* SpaceInv holds initially and is preserved by every action.              *)
(***************************************************************************)
USE DEF world, queues, locals, sweeping

LEMMA InitInv ==
    Init => SpaceInv
<1> SUFFICES ASSUME Init PROVE SpaceInv
  OBVIOUS
<1> USE SpaceAssumption DEF Init, SP!Init
<1>1. TypeOK
  BY DEF TypeOK, LineMark, Null, Block, InBounds
<1>2. BlocksConserved
  BY DEF BlocksConserved, Held
<1>3. \A m \in registered : Region(m) = {}
  BY DEF Region, Null
<1>4. RegionOwned /\ RegionInv
  BY <1>3 DEF RegionOwned, RegionInv
<1>5. ObjectsDisjoint /\ LiveLinesKept /\ OutsideOnlyIfEmpty
  BY DEF ObjectsDisjoint, LiveLinesKept, OutsideOnlyIfEmpty
<1>6. PlacesInv /\ SweepInv
  BY DEF PlacesInv, SweepInv
<1> QED
  BY <1>1, <1>2, <1>4, <1>5, <1>6 DEF SpaceInv

\* A mutator that allocates bumps through bytes of its own block only.
LEMMA OwnBytes ==
    ASSUME SpaceInv, NEW m \in Mutator, Allocating(m), NEW a \in Region(m)
    PROVE  /\ a \in Int /\ block[m] \in Block /\ BlockOf(a) = block[m]
           /\ a \in SpaceStart .. BlockStart(BLOCKS) - 1
           /\ LineOf(a) \in Line /\ line_mark_table[LineOf(a)] = "FreshAlloc"
<1>1. m \in registered /\ a \in Int
  BY DEF SpaceInv, TypeOK, Allocating, Running, Region
<1>2. block[m] \in Block /\ BlockOf(a) = block[m]
  BY <1>1 DEF SpaceInv, TypeOK, RegionOwned, RegionInv
<1>3. a \in SpaceStart .. BlockStart(BLOCKS) - 1
  BY <1>1, <1>2, BlockInSpace
<1>4. line_mark_table[LineOf(a)] = "FreshAlloc"
  BY <1>1 DEF SpaceInv, RegionOwned
<1> QED
  BY <1>1, <1>2, <1>3, <1>4, LineInSpace

\* alloc, from the fast path and from the slow path.
LEMMA BumpInv ==
    ASSUME SpaceInv, NEW m \in Mutator, NEW lo \in Layouts,
           Running(m), pc[m] \in {"mutator", "alloc"}, Bump(m, lo),
           UNCHANGED <<world, queues, line_mark_table, block, limit, line, sweeping>>
    PROVE  SpaceInv'
<1> DEFINE start == AlignUp(cursor[m], lo.align)
           end == start + lo.size
           new == [start |-> start, size |-> lo.size]
<1>1. /\ lo.size \in 0 .. BYTES_IN_LINE /\ lo.align \in Nat \ {0}
      /\ BYTES_IN_LINE \in Nat
  BY SpaceAssumption
<1>2. TypeOK /\ cursor[m] \in Nat /\ limit[m] \in Nat
  BY DEF SpaceInv, TypeOK
<1>3. start \in Nat /\ cursor[m] <= start
  BY <1>1, <1>2, AlignUpProp
<1>4. \A n \in Mutator : Allocating(n)' <=> Allocating(n)
  BY <1>2 DEF Bump, Goto, Allocating, Running, TypeOK
<1>5. Allocating(m) /\ m \in registered
  BY DEF Allocating, Running
<1> HIDE DEF start
<1>6. CASE end <= limit[m]
  <2>1. /\ cursor' = [cursor EXCEPT ![m] = end]
        /\ objects' = objects \cup {new}
        /\ layout' = [layout EXCEPT ![m] = None]
        /\ pc' = [pc EXCEPT ![m] = "mutator"]
    BY <1>6 DEF Bump, Goto, start
  <2>2. /\ new \in [start : Nat, size : 0 .. BYTES_IN_LINE]
        /\ Extent(new) \subseteq Region(m)
        /\ new.size # 0 => new.start \in Region(m)
    BY <1>1, <1>2, <1>3, <1>6 DEF Extent, Region
  <2>3. \A n \in Mutator : /\ Region(n)' \subseteq Region(n)
                           /\ Extent(new) \cap Region(m)' = {}
    <3>1. \A n \in Mutator : n # m => Region(n)' = Region(n)
      BY <1>2, <2>1 DEF Region, TypeOK
    <3>2. cursor'[m] = end /\ limit'[m] = limit[m]
      BY <1>2, <2>1 DEF TypeOK
    <3>3. Region(m)' \subseteq Region(m) /\ Extent(new) \cap Region(m)' = {}
      BY <1>1, <1>2, <1>3, <1>6, <3>2 DEF Region, Extent
    <3> QED
      BY <3>1, <3>3
  <2> HIDE DEF new
  <2>4. TypeOK'
    <3>1. Extent(new) \subseteq SpaceStart .. BlockStart(BLOCKS) - 1
      BY <1>5, <2>2, OwnBytes
    <3>2. cursor' \in [Mutator -> Nat]
      BY <1>1, <1>2, <1>3, <2>1 DEF TypeOK
    <3>3. InBounds(end, limit[m])
      <4>1. InBounds(cursor[m], limit[m]) /\ end \in Nat /\ cursor[m] <= end
        BY <1>1, <1>2, <1>3 DEF TypeOK
      <4> HIDE DEF end
      <4> QED
        BY <1>2, <1>6, <4>1, Sizes, SpaceAssumption DEF InBounds, Null
    <3>4. \A n \in Mutator : InBounds(cursor'[n], limit[n])
      BY <1>2, <2>1, <3>3 DEF TypeOK
    <3> QED
      BY <1>2, <2>1, <2>2, <3>1, <3>2, <3>4 DEF TypeOK
  <2>5. BlocksConserved'
    BY DEF SpaceInv, BlocksConserved, Held
  <2>6. RegionOwned' /\ RegionInv'
    <3>1. \A n \in registered : n \in Mutator
      BY <1>2 DEF TypeOK
    <3> QED
      BY <1>4, <2>3, <3>1 DEF SpaceInv, RegionOwned, RegionInv
  <2>7. ObjectsDisjoint'
    <3>1. \A p \in objects : Extent(new) \cap Extent(p) = {}
      BY <1>5, <2>2 DEF SpaceInv, ObjectsDisjoint
    <3>2. ASSUME NEW n \in registered, n # m PROVE Extent(new) \cap Region(n) = {}
      <4> SUFFICES ASSUME NEW a \in Extent(new), a \in Region(n) PROVE FALSE
        OBVIOUS
      <4>1. block[m] \in Block /\ BlockOf(a) = block[m] /\ n \in Mutator
        BY <1>2, <1>5, <2>2, OwnBytes DEF TypeOK
      <4>2. block[m] # None /\ block[m] \notin used_blocks
        BY <4>1, Sizes DEF SpaceInv, BlocksConserved, Held
      <4>3. CASE Allocating(n)
        BY <3>2, <4>1, <4>2, <4>3 DEF SpaceInv, RegionOwned, BlocksConserved
      <4>4. CASE ~ Allocating(n)
        <5>1. phase = "running"
          BY DEF Running
        <5> QED
          BY <4>1, <4>2, <4>4, <5>1 DEF SpaceInv, RegionInv
      <4> QED
        BY <4>3, <4>4
    <3>3. \A n \in registered : Extent(new) \cap Region(n)' = {}
      BY <1>2, <2>3, <3>2 DEF TypeOK
    <3>4. \A o \in objects, n \in registered : Extent(o) \cap Region(n)' = {}
      BY <1>2, <2>3 DEF TypeOK, SpaceInv, ObjectsDisjoint
    <3> QED
      BY <2>1, <3>1, <3>3, <3>4 DEF SpaceInv, ObjectsDisjoint
  <2>8. LiveLinesKept'
    <3>1. \A l \in Covers(new) : line_mark_table[l] # "Free"
      BY <1>5, <2>2, OwnBytes DEF Covers
    <3> QED
      BY <2>1, <3>1 DEF SpaceInv, LiveLinesKept
  <2>9. OutsideOnlyIfEmpty'
    <3>1. ~ InSpace(new) => new.size = 0
      BY <1>5, <2>2, OwnBytes, Sizes, SpaceAssumption DEF InSpace
    <3> QED
      BY <2>1, <3>1 DEF SpaceInv, OutsideOnlyIfEmpty
  <2>10. PlacesInv'
    BY <1>2, <1>4, <2>1 DEF SpaceInv, PlacesInv, TypeOK
  <2>11. SweepInv'
    BY DEF SpaceInv, SweepInv, Running
  <2> QED
    BY <2>4, <2>5, <2>6, <2>7, <2>8, <2>9, <2>10, <2>11 DEF SpaceInv
<1>7. CASE ~ (end <= limit[m])
  <2>1. /\ layout' = [layout EXCEPT ![m] = lo]
        /\ pc' = [pc EXCEPT ![m] = "local"]
        /\ UNCHANGED <<cursor, objects>>
    BY <1>7 DEF Bump, Goto, start
  <2>2. TypeOK'
    BY <1>2, <2>1 DEF TypeOK
  <2>3. \A n \in Mutator : Region(n)' = Region(n)
    BY <2>1 DEF Region
  <2>4. RegionOwned' /\ RegionInv' /\ ObjectsDisjoint'
    <3>1. \A n \in registered : n \in Mutator
      BY <1>2 DEF TypeOK
    <3> QED
      BY <1>4, <2>1, <2>3, <3>1 DEF SpaceInv, RegionOwned, RegionInv, ObjectsDisjoint
  <2>5. PlacesInv'
    BY <1>2, <1>4, <2>1 DEF SpaceInv, PlacesInv, TypeOK
  <2>6. BlocksConserved' /\ LiveLinesKept' /\ OutsideOnlyIfEmpty' /\ SweepInv'
    BY <2>1 DEF SpaceInv, BlocksConserved, Held, LiveLinesKept, OutsideOnlyIfEmpty,
                SweepInv, Kept
  <2> QED
    BY <2>2, <2>4, <2>5, <2>6 DEF SpaceInv
<1> QED
  BY <1>6, <1>7

\* return_block passes the mutator's block on.
LEMMA ReturnBlockProp ==
    ASSUME TypeOK, BlocksConserved, NEW m \in Mutator, ReturnBlock(m),
           UNCHANGED <<usable_blocks, live_blocks>>
    PROVE  /\ BlocksConserved'
           /\ used_blocks' \subseteq Block
           /\ used_blocks \subseteq used_blocks'
           /\ block' \in [Mutator -> Block \cup {None}]
           /\ block'[m] = None
           /\ \A n \in Mutator \ {m} : block'[n] = block[n]
           /\ block[m] # None => block[m] \in used_blocks'
<1>1. /\ block'[m] = None
      /\ \A n \in Mutator \ {m} : block'[n] = block[n]
      /\ block' \in [Mutator -> Block \cup {None}]
      /\ used_blocks' = used_blocks \cup ({block[m]} \ {None})
  BY DEF ReturnBlock, TypeOK
<1>2. Held' = Held \ {block[m]}
  BY <1>1 DEF Held, BlocksConserved
<1>3. block[m] # None => block[m] \in Held
  BY DEF Held
<1>4. used_blocks' \subseteq Block
  BY <1>1 DEF TypeOK
<1>5. BlocksConserved'
  <2>1. used_blocks' \cup Held' = used_blocks \cup Held
    BY <1>1, <1>2, <1>3 DEF Held
  <2>2. /\ usable_blocks \cup used_blocks' \cup live_blocks \cup Held' = Block
        /\ usable_blocks \cap (used_blocks' \cup live_blocks \cup Held') = {}
    BY <2>1 DEF BlocksConserved
  <2>3. used_blocks' \cap (live_blocks \cup Held') = {}
    BY <1>1, <1>2, <1>3 DEF BlocksConserved
  <2>4. live_blocks \cap Held' = {}
    BY <1>2 DEF BlocksConserved
  <2>5. \A n, k \in Mutator : n # k /\ block'[n] # None => block'[n] # block'[k]
    BY <1>1 DEF BlocksConserved
  <2> QED
    BY <2>2, <2>3, <2>4, <2>5 DEF BlocksConserved
<1> QED
  BY <1>1, <1>4, <1>5

LEMMA AllocInv ==
    ASSUME SpaceInv, NEW m \in Mutator, NEW lo \in Layouts, Alloc(m, lo)
    PROVE  SpaceInv'
BY BumpInv DEF Alloc, At

LEMMA AllocAgainInv ==
    ASSUME SpaceInv, NEW m \in Mutator, AllocAgain(m)
    PROVE  SpaceInv'
<1>1. pc[m] = "alloc" /\ layout[m] \in Layouts
  BY DEF AllocAgain, At, SpaceInv, PlacesInv
<1> QED
  BY <1>1, BumpInv DEF AllocAgain

LEMMA TryAllocFromLocalInv ==
    ASSUME SpaceInv, NEW m \in Mutator, TryAllocFromLocal(m)
    PROVE  SpaceInv'
<1>1. /\ TypeOK /\ BlocksConserved /\ registered \subseteq Mutator
      /\ m \in registered /\ Allocating(m) /\ phase = "running"
      /\ line[m] \in 0 .. LINES_IN_BLOCK
      /\ UNCHANGED <<world, usable_blocks, layout, objects, sweeping>>
  BY DEF TryAllocFromLocal, At, Running, Allocating, SpaceInv, TypeOK
<1>2. gc = "idle"
  BY <1>1 DEF SpaceInv, SweepInv
<1>3. SweepInv' /\ OutsideOnlyIfEmpty'
  BY <1>1, <1>2 DEF SpaceInv, SweepInv, OutsideOnlyIfEmpty
<1>4. CASE line[m] < LINES_IN_BLOCK /\ ~ NoHole(block[m], line[m])
  <2> DEFINE b == block[m]
             first == get_next_available_line(b, line[m])
             end == get_next_unavailable_line(b, first)
             Hole == BlockStart(b) + first * BYTES_IN_LINE ..
                     (BlockStart(b) + end * BYTES_IN_LINE) - 1
  <2>1. /\ cursor' = [cursor EXCEPT ![m] = BlockStart(b) + first * BYTES_IN_LINE]
        /\ limit' = [limit EXCEPT ![m] = BlockStart(b) + end * BYTES_IN_LINE]
        /\ line' = [line EXCEPT ![m] = end]
        /\ line_mark_table' = [l \in Line |->
              IF l - b * LINES_IN_BLOCK \in first .. end - 1
              THEN "FreshAlloc" ELSE line_mark_table[l]]
        /\ pc' = [pc EXCEPT ![m] = "alloc"]
        /\ UNCHANGED <<used_blocks, block>>
    BY <1>4 DEF TryAllocFromLocal, Goto
  <2>2. b \in Block /\ b # None
    BY <1>1, <1>4 DEF SpaceInv, RegionOwned, TypeOK
  <2>3. /\ first \in 0 .. LINES_IN_BLOCK - 1 /\ end \in 0 .. LINES_IN_BLOCK
        /\ first <= end
        /\ \A k \in first .. end - 1 : IsFree(b, k)
    <3>1. line[m] \in 0 .. LINES_IN_BLOCK - 1
      BY <1>1, <1>4, SpaceAssumption
    <3> QED
      BY <1>4, <3>1, HoleIsFree
  <2> HIDE DEF first, end
  <2>4. first \in 0 .. LINES_IN_BLOCK
    BY <2>3, SpaceAssumption
  <2>5. ASSUME NEW a \in Hole
        PROVE  /\ BlockOf(a) = b /\ LineOf(a) \in Line
               /\ LineOf(a) - b * LINES_IN_BLOCK \in first .. end - 1
               /\ line_mark_table[LineOf(a)] = "Free"
    <3>1. /\ BlockOf(a) = b /\ LineOf(a) \in Line
          /\ LineOf(a) - b * LINES_IN_BLOCK \in first .. end - 1
      BY <2>2, <2>3, <2>4, HoleBytes
    <3>2. LineOf(a) \in Int /\ b * LINES_IN_BLOCK \in Int
      BY <2>2, <3>1, Sizes, SpaceAssumption DEF Line, Block
    <3>3. b * LINES_IN_BLOCK + (LineOf(a) - b * LINES_IN_BLOCK) = LineOf(a)
      BY <3>2
    <3> QED
      BY <2>3, <3>1, <3>3 DEF IsFree
  <2>6. /\ cursor'[m] \in Nat /\ limit'[m] \in Nat
        /\ cursor' \in [Mutator -> Nat] /\ limit' \in [Mutator -> Nat]
        /\ \A n \in Mutator : InBounds(cursor'[n], limit'[n])
    <3>1. /\ BlockStart(b) + first * BYTES_IN_LINE \in Nat
          /\ BlockStart(b) + end * BYTES_IN_LINE \in Nat
          /\ InBounds(BlockStart(b) + first * BYTES_IN_LINE,
                      BlockStart(b) + end * BYTES_IN_LINE)
      BY <2>2, <2>3, <2>4, HoleEnds
    <3> QED
      BY <1>1, <2>1, <3>1 DEF TypeOK
  <2>7. Region(m)' = Hole /\ \A n \in Mutator \ {m} : Region(n)' = Region(n)
    <3>1. /\ cursor'[m] = BlockStart(b) + first * BYTES_IN_LINE
          /\ limit'[m] = BlockStart(b) + end * BYTES_IN_LINE
          /\ \A n \in Mutator \ {m} : cursor'[n] = cursor[n] /\ limit'[n] = limit[n]
      BY <1>1, <2>1 DEF TypeOK
    <3>2. Region(m)' = Hole
      BY <3>1 DEF Region
    <3> QED
      BY <3>1, <3>2 DEF Region
  <2> HIDE DEF Hole
  <2>8. \A n \in Mutator : Allocating(n)' <=> Allocating(n)
    BY <1>1, <2>1 DEF Allocating, Running, TypeOK
  <2>9. \A l \in Line : line_mark_table'[l] \in {"FreshAlloc", line_mark_table[l]}
    BY <2>1
  <2>10. TypeOK'
    <3>1. line_mark_table' \in [Line -> LineMark]
      BY <1>1, <2>1 DEF TypeOK, LineMark
    <3> QED
      BY <1>1, <2>1, <2>3, <2>6, <3>1 DEF TypeOK
  <2>11. BlocksConserved'
    BY <1>1, <2>1 DEF BlocksConserved, Held
  <2>12. RegionOwned' /\ RegionInv'
    <3>1. ASSUME NEW n \in registered, Allocating(n)', NEW a \in Region(n)'
          PROVE  /\ BlockOf(a) = block[n] /\ block[n] # None
                 /\ line_mark_table'[LineOf(a)] = "FreshAlloc"
      <4>1. CASE n = m
        BY <2>1, <2>2, <2>5, <2>7, <4>1
      <4>2. CASE n # m
        <5>1. a \in Region(n) /\ Allocating(n) /\ n \in Mutator
          BY <1>1, <2>7, <2>8, <3>1, <4>2
        <5> QED
          BY <2>9, <5>1, OwnBytes, Sizes
      <4> QED
        BY <4>1, <4>2
    <3>2. \A n \in registered : Allocating(n)' =>
             (line'[n] < LINES_IN_BLOCK => block[n] # None)
      BY <1>1, <2>1, <2>2, <2>8 DEF SpaceInv, RegionOwned, TypeOK
    <3>3. \A n \in registered : ~ Allocating(n)' => Region(n)' = Region(n)
      BY <1>1, <2>7, <2>8
    <3> QED
      BY <1>1, <2>1, <2>8, <3>1, <3>2, <3>3 DEF SpaceInv, RegionOwned, RegionInv
  <2>13. ObjectsDisjoint'
    <3>1. ASSUME NEW o \in objects, NEW a \in Extent(o), a \in Hole PROVE FALSE
      BY <2>5, <3>1 DEF SpaceInv, LiveLinesKept, Covers
    <3>2. \A o \in objects, n \in registered : Extent(o) \cap Region(n)' = {}
      BY <1>1, <2>7, <3>1 DEF SpaceInv, ObjectsDisjoint
    <3> QED
      BY <1>1, <3>2 DEF SpaceInv, ObjectsDisjoint
  <2>14. LiveLinesKept'
    <3>1. \A o \in objects : \A l \in Covers(o) : l \in Line
      BY <1>1, LineInSpace DEF Covers, TypeOK
    <3> QED
      BY <1>1, <2>9, <3>1 DEF SpaceInv, LiveLinesKept
  <2>15. PlacesInv'
    BY <1>1, <2>1, <2>8 DEF SpaceInv, PlacesInv, TypeOK, Allocating, TryAllocFromLocal, At
  <2> QED
    BY <1>3, <2>10, <2>11, <2>12, <2>13, <2>14, <2>15 DEF SpaceInv
<1>5. CASE ~ (line[m] < LINES_IN_BLOCK /\ ~ NoHole(block[m], line[m]))
  <2>1. /\ ReturnBlock(m)
        /\ pc' = [pc EXCEPT ![m] = "global"]
        /\ UNCHANGED <<cursor, limit, line, line_mark_table>>
    BY <1>5 DEF TryAllocFromLocal, Goto
  <2>2. /\ BlocksConserved' /\ used_blocks' \subseteq Block
        /\ used_blocks \subseteq used_blocks'
        /\ block' \in [Mutator -> Block \cup {None}] /\ block'[m] = None
        /\ \A n \in Mutator \ {m} : block'[n] = block[n]
        /\ block[m] # None => block[m] \in used_blocks'
    BY <1>1, <2>1, ReturnBlockProp
  <2>3. TypeOK'
    BY <1>1, <2>1, <2>2 DEF TypeOK
  <2>4. /\ \A n \in Mutator \ {m} : Allocating(n)' <=> Allocating(n)
        /\ ~ Allocating(m)'
        /\ \A n \in Mutator : Region(n)' = Region(n)
    BY <1>1, <2>1 DEF Allocating, Running, TypeOK, Region
  <2>5. RegionOwned' /\ RegionInv'
    BY <1>1, <2>1, <2>2, <2>4 DEF SpaceInv, RegionOwned, RegionInv
  <2>6. ObjectsDisjoint' /\ LiveLinesKept'
    BY <1>1, <2>1, <2>4 DEF SpaceInv, ObjectsDisjoint, LiveLinesKept
  <2>7. PlacesInv'
    BY <1>1, <2>1, <2>2, <2>4
    DEF SpaceInv, PlacesInv, TypeOK, TryAllocFromLocal, At
  <2> QED
    BY <1>3, <2>2, <2>3, <2>5, <2>6, <2>7 DEF SpaceInv
<1> QED
  BY <1>4, <1>5

LEMMA AllocFromGlobalInv ==
    ASSUME SpaceInv, NEW m \in Mutator, AllocFromGlobal(m)
    PROVE  SpaceInv'
<1>1. /\ TypeOK /\ BlocksConserved /\ registered \subseteq Mutator
      /\ m \in registered /\ ~ Allocating(m) /\ phase = "running" /\ Running(m)
      /\ pc[m] \in {"global", "steal"} /\ gc = "idle"
      /\ UNCHANGED <<world, used_blocks, line_mark_table, layout, objects, sweeping>>
  BY DEF AllocFromGlobal, Running, Allocating, SpaceInv, TypeOK, SweepInv
<1>2. block[m] = None /\ layout[m] \in Layouts
  BY <1>1 DEF SpaceInv, PlacesInv
<1>3. LiveLinesKept' /\ OutsideOnlyIfEmpty' /\ SweepInv'
  BY <1>1 DEF SpaceInv, LiveLinesKept, OutsideOnlyIfEmpty, SweepInv
<1>4. ASSUME NEW b \in usable_blocks,
             usable_blocks' = usable_blocks \ {b},
             block' = [block EXCEPT ![m] = b],
             cursor' = [cursor EXCEPT ![m] = BlockStart(b)],
             limit' = [limit EXCEPT ![m] = BlockStart(b)],
             line' = [line EXCEPT ![m] = 0],
             Goto(m, "alloc")
      PROVE  SpaceInv'
  <2>1. /\ b \in Block /\ b # None
        /\ BlockStart(b) \in Nat /\ InBounds(BlockStart(b), BlockStart(b))
    <3>1. b \in Block /\ b # None
      BY <1>1, Sizes DEF TypeOK
    <3>2. 0 \in 0 .. LINES_IN_BLOCK /\ BlockStart(b) + 0 * BYTES_IN_LINE = BlockStart(b)
      BY <3>1, Sizes, SpaceAssumption DEF Block
    <3> QED
      BY <3>1, <3>2, HoleEnds
  <2>2. /\ block'[m] = b /\ \A n \in Mutator \ {m} : block'[n] = block[n]
        /\ cursor'[m] = BlockStart(b) /\ limit'[m] = BlockStart(b) /\ line'[m] = 0
        /\ \A n \in Mutator \ {m} : /\ cursor'[n] = cursor[n]
                                    /\ limit'[n] = limit[n] /\ line'[n] = line[n]
    BY <1>1, <1>4 DEF TypeOK
  <2>3. Region(m)' = {} /\ \A n \in Mutator \ {m} : Region(n)' = Region(n)
    <3>1. Region(m)' = BlockStart(b) .. BlockStart(b) - 1
      BY <2>2 DEF Region
    <3>2. BlockStart(b) .. BlockStart(b) - 1 = {}
      BY <2>1
    <3> QED
      BY <2>2, <3>1, <3>2 DEF Region
  <2>4. /\ Allocating(m)'
        /\ \A n \in Mutator \ {m} : Allocating(n)' <=> Allocating(n)
    BY <1>1, <1>4 DEF Allocating, Running, Goto, TypeOK
  <2>5. TypeOK'
    <3>1. \A n \in Mutator : InBounds(cursor'[n], limit'[n])
      BY <1>1, <2>1, <2>2 DEF TypeOK
    <3> QED
      BY <1>1, <1>4, <2>1, <3>1, SpaceAssumption DEF TypeOK, Goto
  <2>6. BlocksConserved'
    <3>1. Held' = Held \cup {b}
      BY <1>2, <2>1, <2>2 DEF Held
    <3>2. b \notin used_blocks \cup live_blocks \cup Held
      BY <1>1 DEF BlocksConserved
    <3>3. \A n, k \in Mutator : n # k /\ block'[n] # None => block'[n] # block'[k]
      BY <1>1, <2>1, <2>2, <3>2 DEF BlocksConserved, Held
    <3>4. /\ usable_blocks' \cup used_blocks \cup live_blocks \cup Held' = Block
          /\ usable_blocks' \cap (used_blocks \cup live_blocks \cup Held') = {}
      BY <1>1, <1>4, <3>1 DEF BlocksConserved
    <3>5. used_blocks \cap (live_blocks \cup Held') = {} /\ live_blocks \cap Held' = {}
      BY <1>1, <3>1, <3>2 DEF BlocksConserved
    <3> QED
      BY <1>1, <3>3, <3>4, <3>5 DEF BlocksConserved
  <2>7. RegionOwned' /\ RegionInv' /\ ObjectsDisjoint'
    BY <1>1, <2>1, <2>2, <2>3, <2>4 DEF SpaceInv, RegionOwned, RegionInv, ObjectsDisjoint
  <2>8. PlacesInv'
    BY <1>1, <1>2, <1>4, <2>2, <2>4 DEF SpaceInv, PlacesInv, Goto, TypeOK
  <2> QED
    BY <1>3, <2>5, <2>6, <2>7, <2>8 DEF SpaceInv
<1>5. ASSUME Goto(m, "global"), UNCHANGED <<usable_blocks, locals>>
      PROVE  SpaceInv'
  <2>1. \A n \in Mutator : /\ Allocating(n)' <=> Allocating(n)
                           /\ Region(n)' = Region(n)
    BY <1>1, <1>5 DEF Allocating, Running, Goto, TypeOK, Region
  <2>2. TypeOK' /\ BlocksConserved'
    BY <1>1, <1>5 DEF TypeOK, BlocksConserved, Held, Goto
  <2>3. RegionOwned' /\ RegionInv' /\ ObjectsDisjoint'
    BY <1>1, <1>5, <2>1 DEF SpaceInv, RegionOwned, RegionInv, ObjectsDisjoint
  <2>4. PlacesInv'
    BY <1>1, <1>2, <1>5, <2>1 DEF SpaceInv, PlacesInv, Goto, TypeOK
  <2> QED
    BY <1>3, <2>2, <2>3, <2>4 DEF SpaceInv
<1> QED
  BY <1>4, <1>5 DEF AllocFromGlobal

LEMMA ForgetInv ==
    ASSUME SpaceInv, NEW o \in objects, Forget(o)
    PROVE  SpaceInv'
<1>1. /\ objects' \subseteq objects /\ phase = "running"
      /\ UNCHANGED <<world, queues, line_mark_table, pc, layout, locals, sweeping>>
  BY DEF Forget
<1>2. TypeOK' /\ BlocksConserved'
  BY <1>1 DEF SpaceInv, TypeOK, BlocksConserved, Held
<1>3. \A m \in Mutator : /\ Allocating(m)' <=> Allocating(m)
                         /\ Region(m)' = Region(m)
  BY <1>1 DEF Allocating, Running, Region
<1>4. RegionOwned' /\ RegionInv' /\ PlacesInv' /\ ObjectsDisjoint'
  BY <1>1, <1>3
  DEF SpaceInv, TypeOK, RegionOwned, RegionInv, PlacesInv, ObjectsDisjoint
<1>5. LiveLinesKept' /\ OutsideOnlyIfEmpty' /\ SweepInv'
  BY <1>1 DEF SpaceInv, LiveLinesKept, OutsideOnlyIfEmpty, SweepInv, Kept
<1> QED
  BY <1>2, <1>4, <1>5 DEF SpaceInv

LEMMA NewInv ==
    ASSUME SpaceInv, NEW m \in Mutator, New(m)
    PROVE  SpaceInv'
<1>1. /\ TypeOK /\ BlocksConserved /\ phase = "running" /\ m \notin registered
      /\ registered' = registered \cup {m} /\ gc = "idle"
      /\ UNCHANGED <<parked, phase, queues, line_mark_table, pc, layout, objects,
                     sweeping>>
  BY DEF New, SP!Join, SpaceInv, SweepInv
<1>2. block[m] = None
  BY <1>1 DEF SpaceInv, PlacesInv, Allocating, Running
<1>3. /\ block' = block /\ cursor'[m] = 0 /\ limit'[m] = 0 /\ line'[m] = LINES_IN_BLOCK
      /\ \A n \in Mutator \ {m} : /\ cursor'[n] = cursor[n]
                                  /\ limit'[n] = limit[n] /\ line'[n] = line[n]
  BY <1>1, <1>2 DEF New, ResetLocals, TypeOK, Null
<1>4. TypeOK'
  <2>1. /\ cursor' \in [Mutator -> Nat] /\ limit' \in [Mutator -> Nat]
        /\ line' \in [Mutator -> 0 .. LINES_IN_BLOCK]
        /\ \A n \in Mutator : InBounds(cursor'[n], limit'[n])
    BY <1>1, SpaceAssumption DEF New, ResetLocals, TypeOK, Null, InBounds
  <2> QED
    BY <1>1, <1>3, <2>1 DEF TypeOK
<1>5. BlocksConserved'
  BY <1>1, <1>3 DEF BlocksConserved, Held
<1>6. /\ \A n \in Mutator \ {m} : /\ Allocating(n)' <=> Allocating(n)
                                  /\ Region(n)' = Region(n)
      /\ Region(m)' = {}
      /\ ~ Allocating(m)
  BY <1>1, <1>3 DEF Allocating, Running, Region
<1>7. RegionOwned' /\ RegionInv' /\ ObjectsDisjoint'
  <2>1. LINES_IN_BLOCK \in Nat /\ registered \subseteq Mutator
    BY <1>1, SpaceAssumption DEF TypeOK
  <2> QED
    BY <1>1, <1>3, <1>6, <2>1 DEF SpaceInv, RegionOwned, RegionInv, ObjectsDisjoint
<1>8. PlacesInv'
  BY <1>1, <1>2, <1>3, <1>6 DEF SpaceInv, PlacesInv
<1>9. LiveLinesKept' /\ OutsideOnlyIfEmpty' /\ SweepInv'
  BY <1>1 DEF SpaceInv, LiveLinesKept, OutsideOnlyIfEmpty, SweepInv
<1> QED
  BY <1>4, <1>5, <1>7, <1>8, <1>9 DEF SpaceInv

\* A mutator that gives its block back and stops allocating, because it leaves,
\* parks or becomes the controller.  The others go on, or are stopped too.
LEMMA StopInv ==
    ASSUME SpaceInv, phase = "running", NEW m \in registered, ReturnBlock(m),
           TypeOK', PlacesInv', ~ Allocating(m)',
           \A n \in Mutator \ {m} : Allocating(n)' => Allocating(n),
           \A n \in Mutator \ {m} :
                phase' = "running" /\ n \in registered' /\ ~ Allocating(n)'
                    => ~ Allocating(n),
           registered' \subseteq registered,
           gc' # "idle" => phase' = "collecting", gc' # "sweep",
           UNCHANGED <<usable_blocks, line_mark_table, layout, cursor, limit, line,
                       objects, live_blocks, n_usable, n_full>>
    PROVE  SpaceInv'
<1>1. TypeOK /\ BlocksConserved /\ m \in Mutator
  BY DEF SpaceInv, TypeOK
<1>2. /\ BlocksConserved' /\ used_blocks \subseteq used_blocks'
      /\ block'[m] = None
      /\ \A n \in Mutator \ {m} : block'[n] = block[n]
      /\ block[m] # None => block[m] \in used_blocks'
  BY <1>1, ReturnBlockProp
<1>3. \A n \in Mutator : Region(n)' = Region(n)
  BY DEF Region
<1>4. RegionOwned'
  BY <1>1, <1>2, <1>3 DEF SpaceInv, RegionOwned, TypeOK
<1>5. RegionInv'
  <2>1. ASSUME NEW n \in registered', NEW a \in Region(n)', Allocating(n)'
        PROVE  block'[n] # None
    BY <1>1, <1>2, <1>3, <2>1 DEF SpaceInv, RegionInv, TypeOK
  <2>2. ASSUME NEW n \in registered', NEW a \in Region(n)', ~ Allocating(n)',
               phase' = "running"
        PROVE  BlockOf(a) \in used_blocks'
    <3>1. n \in registered /\ n \in Mutator /\ a \in Region(n)
      BY <1>1, <1>3, <2>2 DEF TypeOK
    <3>2. CASE ~ Allocating(n)
      BY <1>2, <3>1, <3>2 DEF SpaceInv, RegionInv
    <3>3. CASE Allocating(n)
      <4>1. n = m
        BY <2>2, <3>1, <3>3
      <4>2. BlockOf(a) = block[m] /\ block[m] # None
        BY <3>1, <3>3, <4>1 DEF SpaceInv, RegionOwned, RegionInv
      <4> QED
        BY <1>2, <4>2
    <3> QED
      BY <3>2, <3>3
  <2> QED
    BY <2>1, <2>2 DEF RegionInv
<1>6. ObjectsDisjoint' /\ LiveLinesKept' /\ OutsideOnlyIfEmpty'
  BY <1>1, <1>3
  DEF SpaceInv, TypeOK, ObjectsDisjoint, LiveLinesKept, OutsideOnlyIfEmpty
<1>7. SweepInv'
  BY DEF SweepInv
<1> QED
  BY <1>2, <1>4, <1>5, <1>6, <1>7 DEF SpaceInv

LEMMA DestroyInv ==
    ASSUME SpaceInv, NEW m \in Mutator, Destroy(m)
    PROVE  SpaceInv'
<1>1. /\ TypeOK /\ BlocksConserved /\ m \in registered /\ m \notin parked
      /\ phase = "running" /\ gc = "idle" /\ ReturnBlock(m)
      /\ registered' = registered \ {m}
      /\ UNCHANGED <<parked, phase, usable_blocks, line_mark_table, pc, layout,
                     cursor, limit, line, objects, sweeping>>
  BY DEF Destroy, SP!Leave, SpaceInv, SweepInv, Running
<1>2. /\ used_blocks' \subseteq Block /\ block' \in [Mutator -> Block \cup {None}]
      /\ block'[m] = None /\ \A n \in Mutator \ {m} : block'[n] = block[n]
  BY <1>1, ReturnBlockProp
<1>3. TypeOK'
  BY <1>1, <1>2 DEF TypeOK
<1>4. ~ Allocating(m)' /\ \A n \in Mutator \ {m} : Allocating(n)' <=> Allocating(n)
  BY <1>1 DEF Allocating, Running
<1>5. PlacesInv'
  BY <1>1, <1>2, <1>4 DEF SpaceInv, PlacesInv
<1> QED
  BY <1>1, <1>3, <1>4, <1>5, StopInv

LEMMA StopAtSafepointInv ==
    ASSUME SpaceInv, NEW m \in Mutator, StopAtSafepoint(m)
    PROVE  SpaceInv'
<1>1. /\ TypeOK /\ BlocksConserved /\ m \in registered /\ m \notin parked
      /\ phase = "running" /\ gc = "idle" /\ ReturnBlock(m)
      /\ parked' = parked \cup {m}
      /\ pc[m] \in {"mutator", "global"}
      /\ pc' = [pc EXCEPT ![m] = IF pc[m] = "global" THEN "steal" ELSE "mutator"]
      /\ UNCHANGED <<registered, phase, usable_blocks, line_mark_table, layout,
                     cursor, limit, line, objects, sweeping>>
  BY DEF StopAtSafepoint, PrepareForGC, Goto, At, SP!Park, SpaceInv, SweepInv
<1>2. /\ used_blocks' \subseteq Block /\ block' \in [Mutator -> Block \cup {None}]
      /\ block'[m] = None /\ \A n \in Mutator \ {m} : block'[n] = block[n]
  BY <1>1, ReturnBlockProp
<1>3. TypeOK'
  BY <1>1, <1>2 DEF TypeOK
<1>4. ~ Allocating(m)' /\ \A n \in Mutator \ {m} : Allocating(n)' <=> Allocating(n)
  BY <1>1 DEF Allocating, Running, TypeOK
<1>5. PlacesInv'
  BY <1>1, <1>2, <1>4 DEF SpaceInv, PlacesInv, TypeOK
<1> QED
  BY <1>1, <1>3, <1>4, <1>5, StopInv

LEMMA StartGCInv ==
    ASSUME SpaceInv, NEW m \in Mutator, StartGC(m)
    PROVE  SpaceInv'
<1>1. /\ TypeOK /\ BlocksConserved /\ m \in registered
      /\ parked = registered \ {m}
      /\ phase = "running" /\ phase' = "collecting" /\ gc' = "trace"
      /\ ReturnBlock(m) /\ pc[m] \in {"mutator", "global"}
      /\ pc' = [pc EXCEPT ![m] = IF pc[m] = "global" THEN "steal" ELSE "mutator"]
      /\ UNCHANGED <<registered, parked, usable_blocks, line_mark_table, layout,
                     cursor, limit, line, objects, live_blocks, n_usable, n_full>>
  BY DEF StartGC, PrepareForGC, Goto, At, SP!Collect, SpaceInv
<1>2. /\ used_blocks' \subseteq Block /\ block' \in [Mutator -> Block \cup {None}]
      /\ block'[m] = None /\ \A n \in Mutator \ {m} : block'[n] = block[n]
  BY <1>1, ReturnBlockProp
<1>3. TypeOK'
  BY <1>1, <1>2 DEF TypeOK
<1>4. /\ \A n \in Mutator : ~ Allocating(n)'
      /\ \A n \in Mutator \ {m} : ~ Allocating(n)
  BY <1>1 DEF Allocating, Running
<1>5. PlacesInv'
  BY <1>1, <1>2, <1>4 DEF SpaceInv, PlacesInv, TypeOK
<1> QED
  BY <1>1, <1>3, <1>4, <1>5, StopInv

\* While the world is stopped the collector disturbs marks and queues only.
LEMMA StoppedInv ==
    ASSUME SpaceInv, phase # "running", phase' # "running", TypeOK', BlocksConserved',
           LiveLinesKept', SweepInv',
           UNCHANGED <<registered, parked, pc, layout, locals, objects>>
    PROVE  SpaceInv'
<1>1. \A m \in Mutator : ~ Allocating(m) /\ ~ Allocating(m)' /\ Region(m)' = Region(m)
  BY DEF Allocating, Running, Region
<1>2. RegionOwned' /\ RegionInv' /\ PlacesInv'
  BY <1>1 DEF SpaceInv, TypeOK, RegionOwned, RegionInv, PlacesInv
<1>3. ObjectsDisjoint' /\ OutsideOnlyIfEmpty'
  BY <1>1 DEF SpaceInv, TypeOK, ObjectsDisjoint, OutsideOnlyIfEmpty
<1> QED
  BY <1>2, <1>3 DEF SpaceInv

\* The marks of the trace are on every line of an object in use.
LEMMA TraceInv ==
    ASSUME SpaceInv, Trace
    PROVE  SpaceInv'
<1>1. /\ TypeOK /\ phase = "collecting" /\ gc = "trace" /\ gc' = "sweep"
      /\ n_usable' = 0 /\ n_full' = 0
      /\ UNCHANGED <<world, queues, pc, layout, locals, objects, live_blocks>>
  BY DEF Trace, SpaceInv
<1>2. PICK late \in SUBSET (StartLines \cap NextLines) :
        line_mark_table' = [l \in Line |->
            IF l \in StartLines \ late THEN "Live"
            ELSE IF l \in NextLines THEN "ConservLive"
            ELSE line_mark_table[l]]
  BY DEF Trace
<1>3. TypeOK'
  <2>1. line_mark_table' \in [Line -> LineMark]
    BY <1>1, <1>2 DEF TypeOK, LineMark
  <2> QED
    BY <1>1, <2>1, SpaceAssumption DEF TypeOK
<1>4. BlocksConserved'
  BY <1>1 DEF SpaceInv, BlocksConserved, Held
<1>5. ASSUME NEW o \in objects, NEW l \in Covers(o)
      PROVE  Kept(l)'
  <2>1. /\ l \in {LineOf(o.start), LineOf(o.start) + 1} /\ o.start \in Extent(o)
        /\ l \in Line
    BY <1>1, CoversTwo, LineInSpace DEF TypeOK, Covers
  <2>2. InSpace(o) /\ o.start \in Int
    <3>1. SpaceStart \in Int /\ BlockStart(BLOCKS) \in Int
      BY Sizes, SpaceAssumption
    <3> QED
      BY <1>1, <2>1, <3>1 DEF TypeOK, InSpace
  <2>3. LineOf(o.start) \in StartLines /\ LineOf(o.start) \in Line
    BY <1>1, <2>1, <2>2, LineInSpace DEF StartLines, TypeOK
  <2>4. l \in StartLines \cup NextLines
    <3>1. CASE l = LineOf(o.start) + 1
      <4>1. LineOf(o.start) < TotalLines - 1
        BY <2>1, <2>3, <3>1, Sizes DEF Line
      <4> QED
        BY <2>3, <3>1, <4>1 DEF NextLines
    <3> QED
      BY <2>1, <2>3, <3>1
  <2> QED
    BY <1>2, <2>1, <2>4 DEF Kept
<1>6. LiveLinesKept'
  BY <1>1, <1>5 DEF LiveLinesKept, Kept
<1>7. SweepInv'
  <2>1. Cardinality(used_blocks) <= BLOCKS /\ Cardinality(used_blocks) \in Nat
    <3>1. IsFiniteSet(Block) /\ Cardinality(Block) = BLOCKS
      BY SpaceAssumption, FS_Interval DEF Block
    <3> QED
      BY <1>1, <3>1, FS_Subset, FS_CardinalityType DEF TypeOK
  <2> QED
    BY <1>1, <1>5, <2>1 DEF SweepInv
<1> QED
  BY <1>1, <1>3, <1>4, <1>6, <1>7, StoppedInv

\* The sweep frees only lines without an object in use.
LEMMA SweepBlockInv ==
    ASSUME SpaceInv, SweepBlock
    PROVE  SpaceInv'
<1>1. /\ TypeOK /\ BlocksConserved /\ gc = "sweep" /\ phase = "collecting"
      /\ n_usable \in Nat /\ n_full \in Nat
      /\ n_usable + n_full + Cardinality(used_blocks) <= BLOCKS
      /\ UNCHANGED <<world, pc, layout, locals, objects, gc>>
  BY DEF SweepBlock, SpaceInv, TypeOK, SweepInv
<1>2. PICK b \in used_blocks :
        /\ used_blocks' = used_blocks \ {b}
        /\ line_mark_table' = [l \in Line |->
                IF l \in LinesOf(b) /\ ~ Kept(l) THEN "Free"
                ELSE line_mark_table[l]]
        /\ \/ /\ usable_blocks' = usable_blocks \cup {b}
              /\ n_usable' = n_usable + 1
              /\ UNCHANGED <<live_blocks, n_full>>
           \/ /\ live_blocks' = live_blocks \cup {b}
              /\ n_full' = n_full + 1
              /\ UNCHANGED <<usable_blocks, n_usable>>
  BY DEF SweepBlock
<1>3. /\ Cardinality(used_blocks') \in Nat
      /\ Cardinality(used_blocks) = Cardinality(used_blocks') + 1
  <2>1. IsFiniteSet(used_blocks)
    <3>1. IsFiniteSet(Block)
      BY SpaceAssumption, FS_Interval DEF Block
    <3> QED
      BY <1>1, <3>1, FS_Subset DEF TypeOK
  <2>2. IsFiniteSet(used_blocks') /\ Cardinality(used_blocks') = Cardinality(used_blocks) - 1
    BY <1>2, <2>1, FS_RemoveElement
  <2> QED
    BY <2>1, <2>2, FS_CardinalityType
<1>4. \A l \in Line : Kept(l) => line_mark_table'[l] = line_mark_table[l]
  BY <1>2
<1>5. \A o \in objects : \A l \in Covers(o) : Kept(l) /\ Kept(l)'
  <2>1. \A o \in objects : \A l \in Covers(o) : l \in Line
    BY <1>1, LineInSpace DEF Covers, TypeOK
  <2> QED
    BY <1>1, <1>4, <2>1 DEF SpaceInv, SweepInv, Kept
<1>6. LiveLinesKept'
  BY <1>1, <1>5 DEF LiveLinesKept, Kept
<1>7. /\ n_usable' \in Nat /\ n_full' \in Nat
      /\ n_usable' + n_full' + Cardinality(used_blocks') <= BLOCKS
  BY <1>1, <1>2, <1>3, SpaceAssumption
<1>8. SweepInv'
  BY <1>1, <1>5, <1>7 DEF SweepInv
<1>9. TypeOK'
  <2>1. line_mark_table' \in [Line -> LineMark]
    BY <1>1, <1>2 DEF TypeOK, LineMark
  <2>2. n_usable' \in 0 .. BLOCKS /\ n_full' \in 0 .. BLOCKS
    BY <1>3, <1>7, SpaceAssumption
  <2>3. /\ usable_blocks' \subseteq Block /\ used_blocks' \subseteq Block
        /\ live_blocks' \subseteq Block
    BY <1>1, <1>2 DEF TypeOK
  <2> QED
    BY <1>1, <2>1, <2>2, <2>3 DEF TypeOK
<1>10. BlocksConserved'
  <2>1. Held' = Held
    BY <1>1 DEF Held
  <2> QED
    BY <1>1, <1>2, <2>1 DEF BlocksConserved
<1> QED
  BY <1>1, <1>6, <1>8, <1>9, <1>10, StoppedInv

LEMMA EndSweepInv ==
    ASSUME SpaceInv, EndSweep
    PROVE  SpaceInv'
<1>1. /\ TypeOK /\ BlocksConserved /\ phase = "collecting" /\ used_blocks = {}
      /\ used_blocks' = live_blocks /\ live_blocks' = {}
      /\ gc' \in {"swept", "panicked"}
      /\ UNCHANGED <<world, usable_blocks, line_mark_table, pc, layout, locals,
                     objects, n_usable, n_full>>
  BY DEF EndSweep, SpaceInv, SweepInv
<1>2. TypeOK'
  BY <1>1 DEF TypeOK
<1>3. BlocksConserved'
  BY <1>1 DEF BlocksConserved, Held
<1>4. LiveLinesKept' /\ SweepInv'
  BY <1>1 DEF SpaceInv, LiveLinesKept, SweepInv
<1> QED
  BY <1>1, <1>2, <1>3, <1>4, StoppedInv

LEMMA FinishGCInv ==
    ASSUME SpaceInv, FinishGC
    PROVE  SpaceInv'
<1>1. /\ TypeOK /\ phase = "collecting" /\ phase' = "releasing" /\ gc' = "idle"
      /\ UNCHANGED <<registered, parked, queues, line_mark_table, pc, layout, locals,
                     objects, live_blocks, n_usable, n_full>>
  BY DEF FinishGC, SP!Finish, SpaceInv
<1>2. TypeOK' /\ BlocksConserved' /\ LiveLinesKept' /\ SweepInv'
  BY <1>1 DEF SpaceInv, TypeOK, BlocksConserved, Held, LiveLinesKept, SweepInv
<1> QED
  BY <1>1, <1>2, StoppedInv

\* Nobody holds a block when the locals are reset.
LEMMA ResumeInv ==
    ASSUME SpaceInv, Resume
    PROVE  SpaceInv'
<1>1. /\ TypeOK /\ phase = "releasing" /\ phase' = "running" /\ parked' = {}
      /\ UNCHANGED <<registered, queues, line_mark_table, pc, layout, objects, sweeping>>
  BY DEF Resume, SP!Release, SpaceInv
<1>2. \A m \in Mutator : block[m] = None
  BY <1>1 DEF SpaceInv, PlacesInv, Allocating, Running
<1>3. /\ block' = block
      /\ \A m \in registered :
            cursor'[m] = 0 /\ limit'[m] = 0 /\ line'[m] = LINES_IN_BLOCK
  BY <1>1, <1>2 DEF Resume, ResetLocals, TypeOK, Null
<1>4. TypeOK'
  <2>1. /\ cursor' \in [Mutator -> Nat] /\ limit' \in [Mutator -> Nat]
        /\ line' \in [Mutator -> 0 .. LINES_IN_BLOCK]
        /\ \A n \in Mutator : InBounds(cursor'[n], limit'[n])
    BY <1>1, SpaceAssumption DEF Resume, ResetLocals, TypeOK, Null, InBounds
  <2> QED
    BY <1>1, <1>3, <2>1 DEF TypeOK
<1>5. BlocksConserved'
  BY <1>1, <1>3 DEF SpaceInv, BlocksConserved, Held
<1>6. \A m \in registered : Region(m)' = {}
  BY <1>3 DEF Region
<1>7. RegionOwned' /\ RegionInv' /\ ObjectsDisjoint'
  <2>1. LINES_IN_BLOCK \in Nat
    BY SpaceAssumption
  <2> QED
    BY <1>1, <1>3, <1>6, <2>1 DEF SpaceInv, RegionOwned, RegionInv, ObjectsDisjoint
<1>8. PlacesInv'
  BY <1>1, <1>2, <1>3 DEF SpaceInv, PlacesInv
<1>9. LiveLinesKept' /\ OutsideOnlyIfEmpty' /\ SweepInv'
  BY <1>1 DEF SpaceInv, LiveLinesKept, OutsideOnlyIfEmpty, SweepInv
<1> QED
  BY <1>4, <1>5, <1>7, <1>8, <1>9 DEF SpaceInv

LEMMA StutterInv ==
    ASSUME SpaceInv, UNCHANGED vars
    PROVE  SpaceInv'
<1>1. TypeOK' /\ BlocksConserved'
  BY DEF vars, SpaceInv, TypeOK, BlocksConserved, Held
<1>2. \A m \in Mutator : /\ Allocating(m)' <=> Allocating(m)
                         /\ Region(m)' = Region(m)
  BY DEF vars, Allocating, Running, Region
<1>3. RegionOwned' /\ RegionInv' /\ PlacesInv' /\ ObjectsDisjoint'
  BY <1>2
  DEF vars, SpaceInv, TypeOK, RegionOwned, RegionInv, PlacesInv, ObjectsDisjoint
<1>4. LiveLinesKept' /\ OutsideOnlyIfEmpty' /\ SweepInv'
  BY DEF vars, SpaceInv, LiveLinesKept, OutsideOnlyIfEmpty, SweepInv, Kept
<1> QED
  BY <1>1, <1>3, <1>4 DEF SpaceInv

\* The inductive invariant: every reachable state of alloc, of the handshake's
\* steps and of the collector satisfies SpaceInv.
THEOREM SpaceInvariant == Spec => []SpaceInv
<1>1. SpaceInv /\ [Next]_vars => SpaceInv'
  <2> SUFFICES ASSUME SpaceInv, [Next]_vars PROVE SpaceInv'
    OBVIOUS
  <2>1. ASSUME NEW m \in Mutator, NEW lo \in Layouts, Alloc(m, lo) PROVE SpaceInv'
    BY <2>1, AllocInv
  <2>2. ASSUME NEW m \in Mutator, AllocAgain(m) PROVE SpaceInv'
    BY <2>2, AllocAgainInv
  <2>3. ASSUME NEW m \in Mutator, TryAllocFromLocal(m) PROVE SpaceInv'
    BY <2>3, TryAllocFromLocalInv
  <2>4. ASSUME NEW m \in Mutator, AllocFromGlobal(m) PROVE SpaceInv'
    BY <2>4, AllocFromGlobalInv
  <2>5. ASSUME NEW m \in Mutator, New(m) PROVE SpaceInv'
    BY <2>5, NewInv
  <2>6. ASSUME NEW m \in Mutator, Destroy(m) PROVE SpaceInv'
    BY <2>6, DestroyInv
  <2>7. ASSUME NEW m \in Mutator, StopAtSafepoint(m) PROVE SpaceInv'
    BY <2>7, StopAtSafepointInv
  <2>8. ASSUME NEW m \in Mutator, StartGC(m) PROVE SpaceInv'
    BY <2>8, StartGCInv
  <2>9. ASSUME NEW o \in objects, Forget(o) PROVE SpaceInv'
    BY <2>9, ForgetInv
  <2>10. CASE Trace
    BY <2>10, TraceInv
  <2>11. CASE SweepBlock
    BY <2>11, SweepBlockInv
  <2>12. CASE EndSweep
    BY <2>12, EndSweepInv
  <2>13. CASE FinishGC
    BY <2>13, FinishGCInv
  <2>14. CASE Resume
    BY <2>14, ResumeInv
  <2>15. CASE UNCHANGED vars
    BY <2>15, StutterInv
  <2> QED
    BY <2>1, <2>2, <2>3, <2>4, <2>5, <2>6, <2>7, <2>8, <2>9, <2>10, <2>11, <2>12,
       <2>13, <2>14, <2>15 DEF Next
<1> QED
  BY InitInv, <1>1, PTL DEF Spec

\* Every variable of the allocator and the collector keeps its type; in
\* particular an object in use lies inside the space.
THEOREM TypeCorrect == Spec => []TypeOK
<1>1. SpaceInv => TypeOK
  BY DEF SpaceInv
<1> QED
  BY <1>1, SpaceInvariant, PTL

\* No block is lost or handed out twice between the queues, the mutators and the
\* sweep.
THEOREM BlocksAreConserved == Spec => []BlocksConserved
<1>1. SpaceInv => BlocksConserved
  BY DEF SpaceInv
<1> QED
  BY <1>1, SpaceInvariant, PTL

\* alloc bumps only through FreshAlloc lines of the mutator's own block, although
\* return_block leaves cursor, limit and line behind.
THEOREM RegionsAreOwned == Spec => []RegionOwned
<1>1. SpaceInv => RegionOwned
  BY DEF SpaceInv
<1> QED
  BY <1>1, SpaceInvariant, PTL

\* Objects in use share no byte with each other or with what a mutator is about
\* to hand out.
THEOREM ObjectsAreDisjoint == Spec => []ObjectsDisjoint
<1>1. SpaceInv => ObjectsDisjoint
  BY DEF SpaceInv
<1> QED
  BY <1>1, SpaceInvariant, PTL

\* The sweep never frees a line that an object in use lies on: mark_line_live's
\* two marks are enough for objects of at most a line.
THEOREM LiveLinesAreKept == Spec => []LiveLinesKept
<1>1. SpaceInv => LiveLinesKept
  BY DEF SpaceInv
<1> QED
  BY <1>1, SpaceInvariant, PTL

\* alloc returns an address outside the space only for an empty object.
THEOREM OnlyEmptyObjectsOutside == Spec => []OutsideOnlyIfEmpty
<1>1. SpaceInv => OutsideOnlyIfEmpty
  BY DEF SpaceInv
<1> QED
  BY <1>1, SpaceInvariant, PTL
=============================================================================
