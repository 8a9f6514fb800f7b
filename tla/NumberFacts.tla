---------------------------- MODULE NumberFacts ----------------------------
(***************************************************************************)
(* What the proofs need to know about products, quotients and sets of      *)
(* natural numbers.  LeastNatural stands in for induction: the least       *)
(* counterexample of a statement about all numbers is contradicted by its  *)
(* predecessor.                                                            *)
(***************************************************************************)
EXTENDS Integers, WellFoundedInduction, TLAPS

\* A quotient is bounded from both sides by its definition.
LEMMA DivBounds ==
    ASSUME NEW x \in Int, NEW d \in Nat \ {0}
    PROVE  /\ x \div d \in Int
           /\ (x \div d) * d <= x
           /\ x < (x \div d + 1) * d
OBVIOUS

\* A positive factor can be cancelled.
LEMMA MulLess ==
    ASSUME NEW p \in Int, NEW q \in Int, NEW d \in Nat \ {0}, p * d < q * d
    PROVE  p < q
OBVIOUS

\* Multiplication by a natural number is monotonic.
LEMMA MulLeq ==
    ASSUME NEW p \in Int, NEW q \in Int, NEW d \in Nat, p <= q
    PROVE  p * d <= q * d
OBVIOUS

\* The quotient is the only number with those bounds.
LEMMA DivUnique ==
    ASSUME NEW x \in Int, NEW d \in Nat \ {0}, NEW p \in Int,
           p * d <= x, x < (p + 1) * d
    PROVE  x \div d = p
<1> DEFINE q == x \div d
<1>1. q \in Int /\ q * d <= x /\ x < (q + 1) * d
  BY DivBounds
<1> HIDE DEF q
<1>2. q * d < (p + 1) * d /\ p * d < (q + 1) * d
  BY <1>1
<1>3. q < p + 1
  BY <1>1, <1>2, MulLess
<1>4. p < q + 1
  BY <1>1, <1>2, MulLess
<1>5. q = p
  BY <1>1, <1>3, <1>4
<1> QED
  BY <1>5 DEF q

\* A set of natural numbers that is not empty has a least element.
LEMMA LeastNatural ==
    ASSUME NEW T, T \subseteq Nat, T # {}
    PROVE  \E x \in T : \A y \in T : x <= y
<1> DEFINE R == OpToRel(<, Nat)
<1>1. ASSUME NEW x \in Nat, NEW y \in Nat, y < x
      PROVE  <<y, x>> \in R
  BY <1>1 DEF OpToRel
<1>2. IsWellFoundedOn(R, Nat)
  BY NatLessThanWellFounded
<1> HIDE DEF R
<1>3. PICK x \in T : \A y \in T : ~ (<<y, x>> \in R)
  BY <1>2, WFMin
<1>4. \A y \in T : ~ (y < x)
  BY <1>1, <1>3
<1> QED
  BY <1>3, <1>4
=============================================================================
