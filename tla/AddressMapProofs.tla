--------------------------- MODULE AddressMapProofs ---------------------------
(***************************************************************************)
(* What the two maps do with an arbitrary word, for every space and every  *)
(* width of an address.                                                    *)
(***************************************************************************)
EXTENDS AddressMap, TLAPS

\* The first address after the last entry of a SafeAddressMap.
SafeEnd == START + SafeLen * POINTER_SIZE

\* new_of rounds the length up: it covers the space, and at most one word more
\* than its last byte needs.
LEMMA SafeEndBounds == END <= SafeEnd /\ SafeEnd < END + POINTER_SIZE
BY AddressAssumption DEF SafeEnd, SafeLen, POINTER_SIZE

LEMMA SafeLenNat == SafeLen \in Nat
BY AddressAssumption DEF SafeLen, POINTER_SIZE

\* SafeAddressMap::get (address_map.rs) answers Some exactly for the addresses
\* from the start to the end of its entries: the wrap-around of overflowing_sub
\* never brings an address below the space, null among them, back into the map.
THEOREM SafeGetExact ==
    \A addr \in Address : HasEntry(addr) <=> START <= addr /\ addr < SafeEnd
<1> SUFFICES ASSUME NEW addr \in Address
             PROVE  HasEntry(addr) <=> START <= addr /\ addr < SafeEnd
    OBVIOUS
<1> USE AddressAssumption, SafeLenNat DEF Address, POINTER_SIZE
<1>1. CASE addr >= START
    <2>1. overflowing_sub(addr, START) = addr - START
        BY <1>1 DEF overflowing_sub
    <2>2. (addr - START) \div 8 < SafeLen <=> addr - START < SafeLen * 8
        BY <1>1
    <2>3. QED
        BY <1>1, <2>1, <2>2 DEF HasEntry, SafeIndex, SafeEnd
<1>2. CASE addr < START
    <2>1. overflowing_sub(addr, START) = addr - START + ADDRESSES
        BY <1>2 DEF overflowing_sub
    <2>2. addr - START + ADDRESSES >= (END - START) + 8
        BY <1>2
    <2>3. (addr - START + ADDRESSES) \div 8 >= SafeLen
        BY <1>2, <2>2 DEF SafeLen
    <2>4. QED
        BY <1>2, <2>1, <2>3 DEF HasEntry, SafeIndex
<1>3. QED
    BY <1>1, <1>2

\* For an address of the space the two maps agree: SafeAddressMap has an entry,
\* at the index where AddressMap looks without checking.
THEOREM SameEntry ==
    \A addr \in Address : InSpace(addr) => HasEntry(addr) /\ Index(addr) = SafeIndex(addr)
<1> SUFFICES ASSUME NEW addr \in Address, InSpace(addr)
             PROVE  HasEntry(addr) /\ Index(addr) = SafeIndex(addr)
    OBVIOUS
<1>1. START <= addr /\ addr < END
    BY DEF InSpace
<1>2. HasEntry(addr)
    BY <1>1, SafeGetExact, SafeEndBounds, AddressAssumption, SafeLenNat
    DEF Address, SafeEnd, POINTER_SIZE
<1>3. overflowing_sub(addr, START) = diff(addr, START)
    BY <1>1, AddressAssumption DEF overflowing_sub, diff, Address
<1>4. QED
    BY <1>2, <1>3 DEF Index, SafeIndex

\* When the space is a whole number of words, as blocks make it, an address that
\* passes is_untraced_and_valid or is_valid_object has an entry in the unchecked
\* AddressMap: the tracer's get_ref_byte and the stack scan stay inside.
THEOREM UncheckedGetInside ==
    ASSUME (END - START) % POINTER_SIZE = 0
    PROVE  \A addr \in Address :
              /\ HasEntry(addr) <=> InSpace(addr)
              /\ InSpace(addr) => Index(addr) \in 0 .. MapLen - 1
<1> SUFFICES ASSUME NEW addr \in Address
             PROVE  /\ HasEntry(addr) <=> InSpace(addr)
                    /\ InSpace(addr) => Index(addr) \in 0 .. MapLen - 1
    OBVIOUS
<1> USE AddressAssumption DEF Address, POINTER_SIZE
<1>1. SafeLen = (END - START) \div 8 /\ SafeLen * 8 = END - START
    BY DEF SafeLen
<1>2. SafeEnd = END
    BY <1>1 DEF SafeEnd
<1>3. HasEntry(addr) <=> InSpace(addr)
    BY <1>2, SafeGetExact DEF InSpace
<1>4. ASSUME InSpace(addr) PROVE Index(addr) \in 0 .. MapLen - 1
    <2>1. addr - START \in Nat /\ addr - START < END - START
        BY <1>4 DEF InSpace
    <2>2. (addr - START) \div 8 \in 0 .. SafeLen - 1
        BY <2>1, <1>1
    <2>3. QED
        BY <2>2, <1>1 DEF Index, MapLen, diff
<1>5. QED
    BY <1>3, <1>4
===============================================================================
