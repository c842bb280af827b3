------------------------- MODULE RunnerStacksProofs -------------------------
(***************************************************************************)
(* What the arithmetic of RunnerStacks guarantees, for stacks, data,       *)
(* alignments and numbers of runners of every size.                        *)
(***************************************************************************)
EXTENDS RunnerStacks, TLAPS

(* Multiples of a size keep the order of their factors.                    *)
LEMMA Monotone ==
    ASSUME NEW s \in Nat, NEW a \in Nat, NEW b \in Nat, a <= b
    PROVE  s * a <= s * b
<1>1. PICK d \in Nat : b = a + d
  BY b - a \in Nat
<1>2. s * b = s * a + s * d
  BY <1>1, SMTT(30)
<1>3. s * d \in Nat /\ s * a \in Nat
  OBVIOUS
<1> QED BY <1>2, <1>3

(* A multiple of a divisor leaves no rest.                                 *)
LEMMA MultipleLeavesNoRest ==
    ASSUME NEW a \in Nat \ {0}, NEW k \in Nat
    PROVE  k * a \in Nat /\ (k * a) % a = 0
<1> DEFINE m == k * a
<1>1. m \in Nat
  BY SMTT(30)
<1>0. m = a * k
  BY SMTT(30)
<1> HIDE DEF m
<1>2. PICK q \in Nat, r \in 0 .. a - 1 : m = q * a + r /\ r = m % a
  <2>1. m \div a \in Nat
    BY <1>1, SMTT(30)
  <2>2. m = (m \div a) * a + (m % a)
    BY <1>1, SMTT(30)
  <2>3. m % a \in 0 .. a - 1
    BY <1>1
  <2> QED BY <2>1, <2>2, <2>3
<1>3. /\ a * q \in Nat /\ a * q = q * a
      /\ a * k \in Nat /\ a * (q + 1) = a * q + a
  BY SMTT(30)
<1>4. CASE k <= q
  BY <1>0, <1>1, <1>2, <1>3, <1>4, Monotone
<1>5. CASE q + 1 <= k
  <2>1. a * (q + 1) <= a * k
    BY <1>5, Monotone, q + 1 \in Nat
  <2> QED BY <1>0, <1>1, <1>2, <1>3, <2>1
<1> QED BY <1>1, <1>4, <1>5 DEF m

(* A stack that may be divided is exactly its slices.                      *)
LEMMA SlicesFill ==
    ASSUME NEW base \in Nat, NEW end \in Nat, NEW n \in Nat \ {0},
           Divisible(base, end, n)
    PROVE  /\ SliceSize(base, n) \in Nat
           /\ SliceSize(base, n) >= 16
           /\ SliceSize(base, n) % 16 = 0
           /\ SliceSize(base, n) * n = base
<1>1. base % n = 0
  BY DEF Divisible
<1>2. base \div n \in Nat
  BY SMTT(30)
<1>3. base = (base \div n) * n + (base % n)
  BY SMTT(30)
<1> QED BY <1>1, <1>2, <1>3 DEF SliceSize, Divisible

(* The bounds of a slice.                                                  *)
LEMMA SliceBounds ==
    ASSUME NEW base \in Nat, NEW end \in Nat, NEW n \in Nat \ {0},
           Divisible(base, end, n), NEW i \in 0 .. n - 1
    PROVE  /\ SliceSize(base, n) * i \in Nat
           /\ SliceSize(base, n) * (i + 1) = SliceSize(base, n) * i + SliceSize(base, n)
           /\ Slice(base, n, i) = Region(SliceSize(base, n) * i,
                                         SliceSize(base, n) * (i + 1))
<1> DEFINE s == SliceSize(base, n)
<1>1. s \in Nat
  BY SlicesFill
<1> HIDE DEF s
<1>2. s * i \in Nat
  BY <1>1
<1>3. s * (i + 1) = s * i + s
  BY <1>1, SMTT(30)
<1>4. s * (i + 1) - s = s * i
  BY <1>1, <1>2, <1>3
<1> QED BY <1>2, <1>3, <1>4 DEF s, Slice, SliceTop

(* No two configured runners share a byte of stack (wahe_core.c:1465-1479, *)
(* 1654-1692), whatever the sizes.                                         *)
THEOREM SlicesApart ==
    ASSUME NEW base \in Nat, NEW end \in Nat, NEW n \in Nat \ {0},
           Divisible(base, end, n),
           NEW i \in 0 .. n - 1, NEW j \in 0 .. n - 1, i # j
    PROVE  Apart(Slice(base, n, i), Slice(base, n, j))
<1> DEFINE s == SliceSize(base, n)
<1>1. s \in Nat
  BY SlicesFill
<1>2. /\ Slice(base, n, i) = Region(s * i, s * (i + 1))
      /\ Slice(base, n, j) = Region(s * j, s * (j + 1))
  BY SliceBounds
<1> HIDE DEF s
<1>3. CASE i < j
  <2>1. s * (i + 1) <= s * j
    BY <1>1, <1>3, Monotone, i + 1 \in Nat, j \in Nat, i + 1 <= j
  <2> QED BY <1>2, <2>1 DEF Apart, Region
<1>4. CASE j < i
  <2>1. s * (j + 1) <= s * i
    BY <1>1, <1>4, Monotone, j + 1 \in Nat, i \in Nat, j + 1 <= i
  <2> QED BY <1>2, <2>1 DEF Apart, Region
<1> QED BY <1>3, <1>4

(* Every slice is nonempty, within the linked stack, below the static data *)
(* and aligned for the guest (wahe_core.c:1417-1425).                      *)
THEOREM SlicesUsable ==
    ASSUME NEW base \in Nat, NEW end \in Nat, NEW n \in Nat \ {0},
           Divisible(base, end, n), NEW i \in 0 .. n - 1
    PROVE  /\ Inside(Slice(base, n, i), Region(0, base))
           /\ Slice(base, n, i).hi <= end
           /\ Slice(base, n, i).lo + 16 <= Slice(base, n, i).hi
           /\ Slice(base, n, i).hi % 16 = 0
<1> DEFINE s == SliceSize(base, n)
<1>1. s \in Nat /\ s >= 16 /\ s % 16 = 0 /\ s * n = base
  BY SlicesFill
<1>2. /\ s * i \in Nat
      /\ s * (i + 1) = s * i + s
      /\ Slice(base, n, i) = Region(s * i, s * (i + 1))
  BY SliceBounds
<1> HIDE DEF s
<1>3. s * (i + 1) <= base
  <2>1. s * (i + 1) <= s * n
    BY <1>1, Monotone, i + 1 \in Nat, n \in Nat, i + 1 <= n
  <2> QED BY <1>1, <2>1
<1>4. (s * (i + 1)) % 16 = 0
  <2>1. PICK q \in Nat : s = 16 * q
    <3>1. s \div 16 \in Nat /\ s = 16 * (s \div 16) + (s % 16)
      BY <1>1
    <3> QED BY <1>1, <3>1
  <2>2. q * (i + 1) \in Nat
    OBVIOUS
  <2>3. s * (i + 1) = 16 * (q * (i + 1))
    BY <2>1, SMTT(30)
  <2> QED BY <2>2, <2>3
<1>5. base <= end
  BY DEF Divisible
<1> QED BY <1>1, <1>2, <1>3, <1>4, <1>5 DEF Inside, Region

(* What wahe_blank_module_stack fills ends at the stack's top and is clear *)
(* of the data of both layouts, provided that a module whose data come     *)
(* first tells where they end (wahe_core.c:606).                           *)
THEOREM BlankingSparesData ==
    ASSUME NEW base \in Nat, NEW lo \in Nat, NEW hi \in Nat, lo <= hi,
           NEW end \in {0, hi},
           \/ base <= lo
           \/ hi < base /\ end = hi
    PROVE  /\ Apart(BlankedRegion(base, end), Region(lo, hi))
           /\ BlankedRegion(base, end).hi = base
BY DEF BlankedRegion, Apart, Region

(* An aligned block of a TLS area or a thread's stack stays inside the     *)
(* allocation made for it, for every alignment (wahe_core.c:1616,          *)
(* wahe_threads.c:187, wahe_wamr.c:335).                                   *)
THEOREM AlignedBlockFits ==
    ASSUME NEW addr \in Nat, NEW size \in Nat, NEW align \in Nat \ {0}
    PROVE  /\ Inside(AlignedBlock(addr, size, align),
                     Region(addr, addr + AllocationSize(size, align)))
           /\ AlignedBlock(addr, size, align).lo % align = 0
<1> DEFINE x == addr + align - 1
           k == x \div align
<1>1. x \in Nat
  OBVIOUS
<1> HIDE DEF x
<1>2. k \in Nat /\ x = k * align + (x % align) /\ x % align \in 0 .. align - 1
  <2>1. k \in Nat
    BY <1>1, SMTT(30)
  <2>2. x = k * align + (x % align)
    BY <1>1, SMTT(30)
  <2>3. x % align \in 0 .. align - 1
    BY <1>1
  <2> QED BY <2>1, <2>2, <2>3
<1> HIDE DEF k
<1>3. k * align \in Nat /\ (k * align) % align = 0
  BY <1>2, MultipleLeavesNoRest
<1>4. addr <= k * align /\ k * align <= addr + align - 1
  <2>1. PICK r \in 0 .. align - 1 : x = k * align + r
    BY <1>2
  <2> QED BY <1>3, <2>1 DEF x
<1>5. AlignUp(addr, align) = k * align
  BY DEF AlignUp, k, x
<1> DEFINE m == k * align
<1>6. m \in Nat /\ addr <= m /\ m <= addr + align - 1 /\ m % align = 0
  BY <1>3, <1>4
<1>7. AlignUp(addr, align) = m
  BY <1>5
<1> HIDE DEF m
<1> QED BY <1>6, <1>7 DEF AlignedBlock, AllocationSize, Inside, Region
=============================================================================
