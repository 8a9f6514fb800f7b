----------------------------- MODULE AddressMap -----------------------------
(***************************************************************************)
(* Addresses, and the two maps from the words of the space to values that  *)
(* the collector keeps: AddressMap (alloc_map, unchecked) and              *)
(* SafeAddressMap (inside TraceMap, bounds-checked).  An address is a      *)
(* usize: arithmetic is modulo ADDRESSES.                                  *)
(***************************************************************************)
EXTENDS Integers

CONSTANTS
    ADDRESSES,    \* 2^64: the number of addresses
    START, END    \* the space; END is the first address after it

POINTER_SIZE == 8       \* 1 << LOG_POINTER_SIZE

ASSUME AddressAssumption ==
    /\ ADDRESSES \in Nat /\ START \in Nat \ {0} /\ END \in Nat
    /\ START <= END
    /\ END + POINTER_SIZE <= ADDRESSES

Address == 0 .. ADDRESSES - 1
Null == 0

\* addr_in_space, and the first test of is_valid_object.
InSpace(addr) == addr >= START /\ addr < END

\* Address::diff, whose debug_assert! wants addr >= another.
diff(addr, another) == addr - another

\* Variant of overflowing_sub: the difference saturates at zero.
saturating_sub(a, b) == IF a >= b THEN a - b ELSE 0

\* usize::overflowing_sub(..).0
overflowing_sub(a, b) == IF a >= b THEN a - b ELSE a - b + ADDRESSES

\* AddressMap: the number of entries, and the entry an address falls on.
MapLen == diff(END, START) \div POINTER_SIZE
Index(addr) == diff(addr, START) \div POINTER_SIZE

\* SafeAddressMap: its length is rounded up; get() wraps around before it
\* divides, and answers None when the entry does not exist.
SafeLen == ((END - START) + POINTER_SIZE - 1) \div POINTER_SIZE
SafeIndex(addr) == overflowing_sub(addr, START) \div POINTER_SIZE
HasEntry(addr) == SafeIndex(addr) < SafeLen

Word == 0 .. SafeLen - 1
=============================================================================
