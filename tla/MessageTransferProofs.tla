----------------------- MODULE MessageTransferProofs -----------------------
(***************************************************************************)
(* The safety properties of the data path: memories that grow and shrink,  *)
(* sizes that threads are told, and transfers of messages, for any modules *)
(* and kinds of memory, any messages, any threads and any address width.   *)
(***************************************************************************)
EXTENDS MessageTransfer, WellFoundedInduction, TLAPS

(* The least and the greatest of some natural numbers.                     *)
LEMMA LeastElement ==
  ASSUME NEW S, S \subseteq Nat, S # {}
  PROVE  \E k \in S : \A j \in S : j >= k
<1>1. IsWellFoundedOn(OpToRel(<, Nat), Nat)
  BY NatLessThanWellFounded
<1>2. PICK k \in S : \A j \in S : ~ (<<j, k>> \in OpToRel(<, Nat))
  BY <1>1, WFMin, Zenon
<1>3. \A j \in S : ~ (j < k)
  BY <1>2 DEF OpToRel
<1>4. \A j \in S : j \in Nat /\ k \in Nat
  OBVIOUS
<1>5. \A j \in S : j >= k
  BY <1>3, <1>4
<1>6. QED
  BY <1>5

LEMMA LeastChosen ==
  ASSUME NEW S, S \subseteq Nat, S # {}
  PROVE  Min(S) \in S /\ \A j \in S : Min(S) <= j
<1>1. PICK k \in S : \A j \in S : j >= k
  BY LeastElement
<1>2. k \in Nat /\ \A j \in S : j \in Nat
  OBVIOUS
<1>3. \A j \in S : k =< j
  BY <1>1, <1>2
<1>4. QED
  BY <1>3, Zenon DEF Min

LEMMA GreatestChosen ==
  ASSUME NEW S, NEW n \in Nat, S \subseteq 0..n, S # {}
  PROVE  Max(S) \in S /\ \A j \in S : Max(S) >= j
<1> DEFINE Rest == {n - k : k \in S}
<1>1. \A k \in S : k \in Nat /\ n - k \in Nat
  OBVIOUS
<1>2. Rest \subseteq Nat
  BY <1>1
<1>3. Rest # {}
  OBVIOUS
<1>4. PICK m \in Rest : \A j \in Rest : j >= m
  <2> HIDE DEF Rest
  <2>1. QED
    BY <1>2, <1>3, LeastElement
<1>5. PICK k \in S : m = n - k
  OBVIOUS
<1>6. \A j \in S : n - j >= n - k
  BY <1>4, <1>5
<1>7. \A j \in S : k >= j
  BY <1>1, <1>6
<1>8. QED
  BY <1>7, Zenon DEF Max

LEMMA OfTwo ==
  ASSUME NEW a \in Nat, NEW b \in Nat
  PROVE  /\ Max({a, b}) = IF a >= b THEN a ELSE b
         /\ Min({a, b}) = IF a <= b THEN a ELSE b
<1>1. a + b \in Nat /\ {a, b} \subseteq 0..(a + b) /\ {a, b} \subseteq Nat /\ {a, b} # {}
  OBVIOUS
<1>2. Max({a, b}) \in {a, b} /\ \A j \in {a, b} : Max({a, b}) >= j
  BY <1>1, GreatestChosen
<1>3. Min({a, b}) \in {a, b} /\ \A j \in {a, b} : Min({a, b}) <= j
  BY <1>1, LeastChosen
<1>4. QED
  BY <1>2, <1>3

-----------------------------------------------------------------------------
(* Multiples.                                                              *)

LEMMA Monotone ==
  ASSUME NEW s \in Nat, NEW a \in Nat, NEW b \in Nat, a <= b
  PROVE  s * a <= s * b
<1>1. PICK d \in Nat : b = a + d
  BY b - a \in Nat
<1>2. s * b = s * a + s * d
  BY <1>1, SMTT(30)
<1>3. s * d \in Nat /\ s * a \in Nat
  OBVIOUS
<1>4. QED
  BY <1>2, <1>3

LEMMA QuotientAndRest ==
  ASSUME NEW m \in Nat, NEW a \in Nat \ {0}
  PROVE  /\ m \div a \in Nat /\ m % a \in 0..(a - 1)
         /\ m = a * (m \div a) + (m % a)
         /\ a * (m \div a) \in Nat
<1>1. m \div a \in Nat
  BY SMTT(30)
<1>2. m = a * (m \div a) + (m % a)
  BY SMTT(30)
<1>3. m % a \in 0..(a - 1)
  OBVIOUS
<1>4. a * (m \div a) \in Nat
  BY <1>1
<1>5. QED
  BY <1>1, <1>2, <1>3, <1>4

(* A number between two successive multiples is not a multiple.            *)
LEMMA BetweenMultiples ==
  ASSUME NEW a \in Nat \ {0}, NEW k \in Nat, NEW q \in Nat, NEW r \in 0..(a - 1),
         a * k = a * q + r
  PROVE  k = q /\ r = 0
<1>1. /\ a * q \in Nat /\ a * k \in Nat /\ a * (q + 1) = a * q + a
      /\ a * (k + 1) = a * k + a
  BY SMTT(30)
<1>2. CASE k < q
  <2>1. a * (k + 1) <= a * q
    BY <1>2, Monotone, k + 1 \in Nat
  <2>2. QED
    BY <1>1, <2>1
<1>3. CASE q < k
  <2>1. a * (q + 1) <= a * k
    BY <1>3, Monotone, q + 1 \in Nat
  <2>2. QED
    BY <1>1, <2>1
<1>4. CASE k = q
  BY <1>1, <1>4
<1>5. QED
  BY <1>2, <1>3, <1>4

LEMMA MultipleLeavesNoRest ==
  ASSUME NEW a \in Nat \ {0}, NEW k \in Nat
  PROVE  a * k \in Nat /\ (a * k) % a = 0
<1> DEFINE m == a * k
<1>1. m \in Nat
  BY SMTT(30)
<1> HIDE DEF m
<1>2. PICK q \in Nat, r \in 0..(a - 1) : m = a * q + r /\ r = m % a
  BY <1>1, QuotientAndRest
<1>3. a * k = a * q + r
  BY <1>2 DEF m
<1>4. r = 0
  BY <1>3, BetweenMultiples
<1>5. QED
  BY <1>1, <1>2, <1>4 DEF m

(* Rounding up gives the least multiple that is not below.                 *)
Up(n, a) == ((n + a - 1) \div a) * a

LEMMA RoundedUp ==
  ASSUME NEW n \in Nat, NEW a \in Nat \ {0}
  PROVE  /\ Up(n, a) \in Nat /\ Up(n, a) >= n /\ Up(n, a) <= n + a - 1
         /\ Up(n, a) % a = 0
<1> DEFINE x == n + a - 1
           k == x \div a
<1>1. x \in Nat
  OBVIOUS
<1>2. Up(n, a) = k * a
  BY DEF Up
<1> HIDE DEF x
<1>3. k \in Nat /\ x % a \in 0..(a - 1) /\ x = a * k + (x % a)
  BY <1>1, QuotientAndRest
<1> HIDE DEF k
<1>4. a * k \in Nat /\ (a * k) % a = 0
  BY <1>3, MultipleLeavesNoRest
<1>5. k * a = a * k
  BY <1>3, SMTT(30)
<1> DEFINE m == a * k
<1>6. m \in Nat /\ m % a = 0 /\ Up(n, a) = m
  BY <1>2, <1>4, <1>5
<1>7. PICK r \in 0..(a - 1) : x = m + r
  BY <1>3
<1> HIDE DEF m
<1>8. QED
  BY <1>6, <1>7 DEF x

LEMMA LeastMultiple ==
  ASSUME NEW n \in Nat, NEW a \in Nat \ {0}, NEW m \in Nat, m % a = 0, n <= m
  PROVE  Up(n, a) <= m
<1> DEFINE x == n + a - 1
           k == x \div a
           q == m \div a
<1>1. x \in Nat
  OBVIOUS
<1>2. Up(n, a) = k * a
  BY DEF Up
<1>3. q \in Nat /\ m = a * q /\ a * q \in Nat
  BY QuotientAndRest
<1>4. x < m + a
  OBVIOUS
<1> HIDE DEF x
<1>5. k \in Nat /\ x % a \in 0..(a - 1) /\ x = a * k + (x % a)
  BY <1>1, QuotientAndRest
<1> HIDE DEF k, q
<1>6. a * k \in Nat /\ k * a = a * k /\ a * (q + 1) = a * q + a
  BY <1>3, <1>5, SMTT(30)
<1>7. a * k < a * (q + 1)
  <2>1. PICK r \in 0..(a - 1) : x = a * k + r
    BY <1>5
  <2>2. QED
    BY <1>1, <1>3, <1>4, <1>6, <2>1
<1>8. ~ (q + 1 <= k)
  <2>1. ASSUME q + 1 <= k PROVE FALSE
    <3>1. a * (q + 1) <= a * k
      BY <1>3, <1>5, <2>1, Monotone, q + 1 \in Nat
    <3>2. QED
      BY <1>3, <1>6, <1>7, <3>1
  <2>2. QED
    BY <2>1
<1>9. a * k <= a * q
  BY <1>3, <1>5, <1>8, Monotone
<1>10. QED
  BY <1>2, <1>3, <1>6, <1>9

(* What is rounded up to a multiple of a stays a multiple of b if b        *)
(* divides a.                                                              *)
LEMMA DivisorOfDivisor ==
  ASSUME NEW a \in Nat \ {0}, NEW b \in Nat \ {0}, NEW k \in Nat, a % b = 0
  PROVE  (k * a) % b = 0 /\ k * a \in Nat
<1>1. PICK q \in Nat : a = b * q
  <2>1. a \div b \in Nat /\ a = b * (a \div b) + (a % b) /\ b * (a \div b) \in Nat
    BY QuotientAndRest
  <2>2. a = b * (a \div b)
    BY <2>1
  <2>3. QED
    BY <2>1, <2>2
<1>2. q * k \in Nat
  BY SMTT(30)
<1>3. k * a = b * (q * k)
  BY <1>1, SMTT(30)
<1>4. QED
  BY <1>2, <1>3, MultipleLeavesNoRest

-----------------------------------------------------------------------------
(* The sizes of memories and the width of addresses.                       *)

LEMMA SizesTyped ==
  /\ PageSize \in Nat \ {0} /\ BlockAlignment \in Nat \ {0} /\ Reserve \in Nat
  /\ InitialSize \in 1..Reserve /\ StaticData \in 1..InitialSize
  /\ Reserve % PageSize = 0 /\ InitialSize % PageSize = 0 /\ Reserve % BlockAlignment = 0
<1> DEFINE P == PageSize
<1>1. /\ P \in Nat \ {0} /\ InitialPages \in Nat \ {0} /\ MaxPages \in Nat
      /\ InitialPages <= MaxPages /\ BlockAlignment \in Nat \ {0}
      /\ P % BlockAlignment = 0 /\ StaticData \in 1..(InitialPages * P)
  BY MemoryAssumption
<1> HIDE DEF P
<1>2. P * InitialPages <= P * MaxPages /\ P * InitialPages \in Nat /\ P * MaxPages \in Nat
  BY <1>1, Monotone
<1>3. InitialPages * P = P * InitialPages /\ MaxPages * P = P * MaxPages
  BY <1>1, SMTT(30)
<1>4. P * 1 <= P * InitialPages
  BY <1>1, Monotone
<1>5. (P * InitialPages) % P = 0 /\ (P * MaxPages) % P = 0
  BY <1>1, MultipleLeavesNoRest
<1>6. (MaxPages * P) % BlockAlignment = 0
  BY <1>1, DivisorOfDivisor
<1>7. Reserve = MaxPages * P /\ InitialSize = InitialPages * P
  BY DEF Reserve, InitialSize, P
<1> DEFINE I == InitialPages * P
           R == MaxPages * P
<1>8. /\ I \in Nat /\ R \in Nat /\ I <= R /\ I >= 1 /\ I % P = 0 /\ R % P = 0
      /\ R % BlockAlignment = 0 /\ StaticData \in 1..I
  BY <1>1, <1>2, <1>3, <1>4, <1>5, <1>6
<1> HIDE DEF I, R
<1>9. QED
  BY <1>1, <1>7, <1>8 DEF I, R, P

LEMMA AddressesTyped ==
  /\ HostAddressBit \in Nat /\ SizeMax \in Nat /\ SizeMax = 2 * HostAddressBit - 1
  /\ Reserve < HostAddressBit /\ PayloadAlignment \in Nat \ {0}
  /\ \A m \in Modules : /\ Base[m] \in Nat /\ Base[m] > 0
                        /\ Base[m] + Reserve < HostAddressBit
<1> DEFINE H == HostAddressBit
<1>1. H \in Int
  BY TransferAssumption DEF HostAddressBit
<1>2. /\ Base \in [Modules -> 1..(H - 1 - Reserve)] /\ Modules # {}
      /\ PayloadAlignment \in Nat \ {0}
  BY TransferAssumption, MemoryAssumption
<1>3. SizeMax = 2 * H - 1
  BY DEF SizeMax
<1> HIDE DEF H
<1>4. Reserve \in Nat
  BY SizesTyped
<1>5. \A m \in Modules : Base[m] \in Nat /\ Base[m] > 0 /\ Base[m] + Reserve < H
  BY <1>1, <1>2, <1>4
<1>6. H \in Nat /\ Reserve < H
  BY <1>1, <1>2, <1>4, <1>5
<1>7. 2 * H - 1 \in Nat
  BY <1>4, <1>6
<1>8. QED
  BY <1>2, <1>3, <1>5, <1>6, <1>7 DEF H

LEMMA PagesRounded ==
  ASSUME NEW n \in Nat
  PROVE  /\ RoundUp(n) \in Nat /\ RoundUp(n) >= n /\ RoundUp(n) % PageSize = 0
         /\ \A m \in Nat : m % PageSize = 0 /\ n <= m => RoundUp(n) <= m
         /\ n % PageSize = 0 => RoundUp(n) = n
         /\ n <= Reserve => RoundUp(n) <= Reserve
<1>1. PageSize \in Nat \ {0} /\ Reserve \in Nat /\ Reserve % PageSize = 0
  BY SizesTyped
<1>2. RoundUp(n) = Up(n, PageSize)
  BY DEF RoundUp, Up
<1>3. /\ Up(n, PageSize) \in Nat /\ Up(n, PageSize) >= n
      /\ Up(n, PageSize) % PageSize = 0
  BY <1>1, RoundedUp
<1>4. \A m \in Nat : m % PageSize = 0 /\ n <= m => Up(n, PageSize) <= m
  BY <1>1, LeastMultiple
<1> DEFINE u == Up(n, PageSize)
<1>5. RoundUp(n) = u /\ u \in Nat /\ u >= n /\ u % PageSize = 0
      /\ \A m \in Nat : m % PageSize = 0 /\ n <= m => u <= m
  BY <1>2, <1>3, <1>4
<1> HIDE DEF u
<1>6. n % PageSize = 0 => u = n
  <2>1. n % PageSize = 0 => u <= n
    BY <1>5
  <2>2. QED
    BY <1>5, <2>1
<1>7. n <= Reserve => u <= Reserve
  BY <1>1, <1>5
<1>8. QED
  BY <1>5, <1>6, <1>7

LEMMA RoundingMonotone ==
  ASSUME NEW n \in Nat, NEW m \in Nat, n <= m
  PROVE  RoundUp(n) <= RoundUp(m)
<1>1. RoundUp(m) \in Nat /\ RoundUp(m) >= m /\ RoundUp(m) % PageSize = 0
  BY PagesRounded
<1>2. n <= RoundUp(m)
  BY <1>1
<1>3. QED
  BY <1>1, <1>2, PagesRounded

LEMMA PayloadsAligned ==
  ASSUME NEW n \in Nat
  PROVE  /\ AlignedUp(n) \in Nat /\ AlignedUp(n) >= n
         /\ AlignedUp(n) <= n + PayloadAlignment - 1
         /\ AlignedUp(n) % PayloadAlignment = 0
<1>1. PayloadAlignment \in Nat \ {0}
  BY AddressesTyped
<1>2. AlignedUp(n) = Up(n, PayloadAlignment)
  BY DEF AlignedUp, Up
<1>3. QED
  BY <1>1, <1>2, RoundedUp

-----------------------------------------------------------------------------
(* One memory: its record c and its blocks B.                              *)

Records == [type : Kinds, active : 0..Reserve, backed : 0..Reserve,
            memory_size : 0..Reserve, memory_reclaim_pending : BOOLEAN]

Sound(c, B) ==
  /\ c \in Records /\ B \subseteq Blocks /\ StaticBlock \in B
  /\ \A b \in B : b.at + b.length <= c.active
  /\ c.active <= c.backed
  /\ IF c.type \in Translated THEN c.memory_size = c.active
     ELSE c.active >= InitialSize /\ c.active % PageSize = 0

AllSound == ctx \in [Modules -> Records] /\ \A m \in Modules : Sound(ctx[m], live[m])

LEMMA RecordFields ==
  ASSUME NEW c \in Records
  PROVE  /\ c.type \in Kinds /\ c.memory_reclaim_pending \in BOOLEAN
         /\ c.active \in Nat /\ c.active <= Reserve
         /\ c.backed \in Nat /\ c.backed <= Reserve
         /\ c.memory_size \in Nat /\ c.memory_size <= Reserve
<1>1. Reserve \in Nat
  BY SizesTyped
<1>2. QED
  BY <1>1 DEF Records

LEMMA BlockFields ==
  ASSUME NEW b \in Blocks
  PROVE  /\ b.at \in Nat /\ b.length \in Nat /\ b.at + b.length \in Nat
         /\ b.owner \in Threads \cup {NoThread}
<1>1. Reserve \in Nat
  BY SizesTyped
<1>2. QED
  BY <1>1 DEF Blocks

(* The record of a memory with another size.                               *)
LEMMA RecordChanged ==
  ASSUME NEW c \in Records, NEW x \in 0..Reserve, NEW y \in 0..Reserve,
         NEW z \in 0..Reserve, NEW p \in BOOLEAN,
         NEW d, d = [c EXCEPT !.active = x, !.backed = y, !.memory_size = z,
                              !.memory_reclaim_pending = p]
  PROVE  /\ d \in Records /\ d.type = c.type /\ d.active = x /\ d.backed = y
         /\ d.memory_size = z /\ d.memory_reclaim_pending = p
  BY DEF Records

LEMMA EndsBounded ==
  ASSUME NEW m \in Modules, AllSound
  PROVE  /\ Top(m) \in Nat /\ Top(m) <= ctx[m].active /\ Top(m) <= Reserve
         /\ \A b \in live[m] : b.at + b.length <= Top(m)
<1> DEFINE Ends == {b.at + b.length : b \in live[m]}
           n == ctx[m].active
<1>1. n \in Nat /\ n <= Reserve /\ Reserve \in Nat
  BY RecordFields, SizesTyped DEF AllSound
<1>2. \A b \in live[m] : b.at + b.length \in Nat /\ b.at + b.length <= n
  BY BlockFields DEF AllSound, Sound
<1>3. live[m] # {}
  BY DEF AllSound, Sound
<1> HIDE DEF n
<1>4. Ends \subseteq 0..n /\ Ends # {}
  BY <1>1, <1>2, <1>3
<1>5. \A b \in live[m] : b.at + b.length \in Ends
  OBVIOUS
<1>6. Top(m) = Max(Ends)
  BY DEF Top
<1> HIDE DEF Ends
<1>7. Max(Ends) \in Ends /\ \A j \in Ends : Max(Ends) >= j
  BY <1>1, <1>4, GreatestChosen
<1>8. Max(Ends) \in 0..n
  BY <1>4, <1>7
<1>9. \A b \in live[m] : Max(Ends) >= b.at + b.length
  BY <1>5, <1>7
<1>10. QED
  BY <1>1, <1>2, <1>6, <1>8, <1>9 DEF n

(* The allocator finds a place, for which memory may have to grow.         *)
LEMMA PlaceFound ==
  ASSUME NEW m \in Modules, AllSound, NEW n \in Nat
  PROVE  Place(m, n) \in Nat /\ Place(m, n) <= Reserve
<1> DEFINE A == BlockAlignment
           Multiples == {k * A : k \in 0..(Reserve \div A)}
           Candidates == {a \in Multiples :
                            \A b \in live[m] : a >= b.at + b.length \/ b.at >= a + n}
<1>1. A \in Nat \ {0} /\ Reserve \in Nat /\ Reserve % A = 0
  BY SizesTyped
<1>2. Place(m, n) = Min(Candidates)
  BY DEF Place
<1> HIDE DEF A
<1>3. Multiples \subseteq Nat
  <2>1. Reserve \div A \in Nat
    BY <1>1, QuotientAndRest
  <2>2. \A k \in Nat : k * A \in Nat
    BY <1>1
  <2>3. QED
    BY <2>1, <2>2
<1>4. Reserve \in Multiples
  <2>1. Reserve \div A \in Nat /\ Reserve = A * (Reserve \div A) + (Reserve % A)
        /\ A * (Reserve \div A) \in Nat
    BY <1>1, QuotientAndRest
  <2>2. Reserve = A * (Reserve \div A)
    BY <1>1, <2>1
  <2>3. A * (Reserve \div A) = (Reserve \div A) * A
    BY <1>1, <2>1, SMTT(30)
  <2>4. Reserve = (Reserve \div A) * A
    BY <2>2, <2>3
  <2>5. QED
    BY <2>1, <2>4
<1>5. \A b \in live[m] : Reserve >= b.at + b.length
  <2>1. Top(m) \in Nat /\ Top(m) <= Reserve /\ \A b \in live[m] : b.at + b.length <= Top(m)
    BY EndsBounded
  <2>2. \A b \in live[m] : b.at + b.length \in Nat
    BY BlockFields DEF AllSound, Sound
  <2>3. QED
    BY <1>1, <2>1, <2>2
<1> HIDE DEF Multiples
<1>6. Reserve \in Candidates /\ Candidates \subseteq Nat
  BY <1>3, <1>4, <1>5
<1> HIDE DEF Candidates
<1>7. Min(Candidates) \in Candidates /\ \A j \in Candidates : Min(Candidates) <= j
  BY <1>6, LeastChosen
<1>8. QED
  BY <1>2, <1>6, <1>7

(* What a request beyond the active memory makes of it.                    *)
LEMMA EnlargedFields ==
  ASSUME NEW c \in Records, NEW end \in Nat, end > c.active, MayGrow(c, end),
         c.type \notin Translated => c.active >= InitialSize
  PROVE  LET d == Enlarged(c, end)
         IN  /\ d \in Records /\ d.type = c.type
             /\ d.memory_reclaim_pending = c.memory_reclaim_pending
             /\ d.active >= c.active /\ d.active <= d.backed
             /\ c.active <= c.backed => d.backed >= c.backed
             /\ IF c.type \in Translated THEN d.memory_size = d.active
                ELSE /\ d.active % PageSize = 0 /\ d.active >= InitialSize
                     /\ d.active >= end /\ d.memory_size = c.memory_size
             /\ d.backed > RoundUp(d.active) => c.backed > RoundUp(c.active)
<1> DEFINE x == IF c.type \in Translated THEN Min({end, Reserve}) ELSE RoundUp(end)
           y == Max({c.backed, RoundUp(x)})
           z == IF c.type \in Translated THEN x ELSE c.memory_size
           d == Enlarged(c, end)
<1>1. /\ Reserve \in Nat /\ c.active \in Nat /\ c.backed \in Nat /\ c.memory_size \in Nat
      /\ c.active <= Reserve /\ c.backed <= Reserve /\ c.memory_size <= Reserve
      /\ InitialSize \in Nat
  BY RecordFields, SizesTyped
<1>2. /\ x \in Nat /\ x <= Reserve /\ x >= c.active
      /\ c.type \notin Translated => x % PageSize = 0 /\ x >= end
  <2>1. CASE c.type \in Translated
    <3>1. Min({end, Reserve}) = IF end <= Reserve THEN end ELSE Reserve
      BY <1>1, OfTwo
    <3>2. QED
      BY <1>1, <2>1, <3>1
  <2>2. CASE c.type \notin Translated
    <3>1. RoundUp(end) \in Nat /\ RoundUp(end) >= end /\ RoundUp(end) % PageSize = 0
      BY PagesRounded
    <3>2. RoundUp(end) <= Reserve
      BY <2>2 DEF MayGrow
    <3>3. QED
      BY <1>1, <2>2, <3>1, <3>2
  <2>3. QED
    BY <2>1, <2>2
<1>3. Enlarged(c, end) = [c EXCEPT !.active = x, !.backed = y, !.memory_size = z]
  BY DEF Enlarged
<1>4. c.type \notin Translated => z = c.memory_size
  OBVIOUS
<1>5. c.type \in Translated => z = x
  OBVIOUS
<1>6. y = Max({c.backed, RoundUp(x)})
  OBVIOUS
<1>7. z \in Nat /\ z <= Reserve
  BY <1>1, <1>2
<1> HIDE DEF x, y, z
<1>8. RoundUp(x) \in Nat /\ RoundUp(x) >= x /\ RoundUp(x) <= Reserve
  BY <1>2, PagesRounded
<1>9. y = IF c.backed >= RoundUp(x) THEN c.backed ELSE RoundUp(x)
  BY <1>1, <1>6, <1>8, OfTwo
<1>10. RoundUp(c.active) <= RoundUp(x) /\ RoundUp(c.active) \in Nat
  BY <1>1, <1>2, RoundingMonotone, PagesRounded
<1>11. y \in Nat /\ y <= Reserve /\ y >= x /\ y >= c.backed
       /\ (y > RoundUp(x) => c.backed > RoundUp(c.active))
  BY <1>1, <1>2, <1>8, <1>9, <1>10
<1>12. /\ d \in Records /\ d.type = c.type /\ d.active = x /\ d.backed = y
       /\ d.memory_size = z /\ d.memory_reclaim_pending = c.memory_reclaim_pending
  <2>1. /\ x \in 0..Reserve /\ y \in 0..Reserve /\ z \in 0..Reserve
    BY <1>1, <1>2, <1>7, <1>11
  <2>2. QED
    BY <1>3, <2>1 DEF Records
<1> HIDE DEF d
<1>13. c.type \notin Translated => x >= InitialSize
  BY <1>1, <1>2
<1>14. QED
  BY <1>2, <1>4, <1>5, <1>11, <1>12, <1>13 DEF d

(* The allocator's answer: nothing, or a block that lies in the memory.    *)
LEMMA MallocSound ==
  ASSUME NEW t \in Threads, NEW m \in Modules, NEW n \in Nat, NEW at,
         AllSound, live \in [Modules -> SUBSET Blocks], Malloc(t, m, n, at)
  PROVE  /\ AllSound' /\ live' \in [Modules -> SUBSET Blocks]
         /\ \A k \in Modules : k # m => ctx'[k] = ctx[k] /\ live'[k] = live[k]
         /\ ctx'[m].type = ctx[m].type
         /\ ctx'[m].memory_reclaim_pending = ctx[m].memory_reclaim_pending
         /\ ctx'[m].backed > RoundUp(ctx'[m].active) => ctx[m].backed > RoundUp(ctx[m].active)
         /\ ctx'[m].active # ctx[m].active /\ ctx[m].type \in Translated
              => ctx'[m].memory_size = ctx'[m].active
         /\ ctx'[m].active = ctx[m].active \/ ctx[m].type \notin Translated
              => ctx'[m].memory_size = ctx[m].memory_size
         /\ IF at = 0 THEN live' = live
            ELSE /\ [at |-> at, length |-> n, owner |-> t] \in Blocks
                 /\ live'[m] = live[m] \cup {[at |-> at, length |-> n, owner |-> t]}
<1> DEFINE end == Place(m, n) + n
           c == ctx[m]
           d == Enlarged(c, end)
           b == [at |-> at, length |-> n, owner |-> t]
<1>1. /\ Place(m, n) \in Nat /\ Place(m, n) <= Reserve /\ end \in Nat /\ Reserve \in Nat
  BY PlaceFound, SizesTyped
<1>2. Sound(c, live[m]) /\ c \in Records
  BY DEF AllSound, Sound
<1>3. c.active \in Nat /\ c.active <= Reserve
  BY <1>2, RecordFields
<1>4. CASE end <= c.active /\ UNCHANGED <<ctx, current>> /\ at = Place(m, n)
  <2>1. at # 0 => b \in Blocks /\ at + n <= c.active
    BY <1>1, <1>3, <1>4 DEF Blocks
  <2>2. live' = IF at = 0 THEN live ELSE [live EXCEPT ![m] = @ \cup {b}]
    BY DEF Malloc
  <2>3. \A k \in Modules : Sound(ctx'[k], live'[k])
    <3>1. CASE at = 0
      BY <1>4, <2>2, <3>1 DEF AllSound
    <3>2. CASE at # 0
      <4>1. live'[m] = live[m] \cup {b} /\ \A k \in Modules : k # m => live'[k] = live[k]
        BY <2>2, <3>2
      <4>2. Sound(c, live[m] \cup {b})
        BY <1>2, <2>1, <3>2 DEF Sound
      <4>3. QED
        BY <1>4, <4>1, <4>2 DEF AllSound
    <3>3. QED
      BY <3>1, <3>2
  <2>4. live' \in [Modules -> SUBSET Blocks]
    BY <2>1, <2>2
  <2>5. QED
    BY <1>4, <2>1, <2>2, <2>3, <2>4 DEF AllSound
<1>5. CASE /\ end > c.active /\ MayGrow(c, end) /\ Becomes(m, d)
           /\ at = IF end <= d.active THEN Place(m, n) ELSE 0
  <2>1. /\ d \in Records /\ d.type = c.type
        /\ d.memory_reclaim_pending = c.memory_reclaim_pending
        /\ d.active >= c.active /\ d.active <= d.backed
        /\ IF c.type \in Translated THEN d.memory_size = d.active
           ELSE /\ d.active % PageSize = 0 /\ d.active >= InitialSize
                /\ d.active >= end /\ d.memory_size = c.memory_size
        /\ d.backed > RoundUp(d.active) => c.backed > RoundUp(c.active)
    <3>1. c.type \notin Translated => c.active >= InitialSize
      BY <1>2 DEF Sound
    <3> HIDE DEF c, end
    <3>2. QED
      BY <1>1, <1>2, <1>5, <3>1, EnlargedFields
  <2>2. ctx' = [ctx EXCEPT ![m] = d]
    BY <1>5 DEF Becomes
  <2>3. live' = IF at = 0 THEN live ELSE [live EXCEPT ![m] = @ \cup {b}]
    BY DEF Malloc
  <2> HIDE DEF d
  <2>4. d.active \in Nat /\ d.active <= Reserve
    BY <2>1, RecordFields
  <2>5. at # 0 => b \in Blocks /\ at + n <= d.active
    BY <1>1, <1>5, <2>4 DEF Blocks
  <2>6. Sound(d, live[m])
    <3>1. \A e \in live[m] : e.at + e.length \in Nat
      BY <1>2, BlockFields DEF Sound
    <3>2. QED
      BY <1>2, <1>3, <2>1, <2>4, <3>1 DEF Sound
  <2>7. at # 0 => Sound(d, live[m] \cup {b})
    BY <2>5, <2>6 DEF Sound
  <2>8. ctx'[m] = d /\ \A k \in Modules : k # m => ctx'[k] = ctx[k]
    BY <2>2 DEF AllSound
  <2>9. ctx' \in [Modules -> Records]
    BY <2>1, <2>2 DEF AllSound
  <2>10. \A k \in Modules : k # m => live'[k] = live[k]
    BY <2>3
  <2>11. live'[m] = IF at = 0 THEN live[m] ELSE live[m] \cup {b}
    BY <2>3
  <2>12. live' \in [Modules -> SUBSET Blocks]
    BY <2>3, <2>5
  <2>13. Sound(ctx'[m], live'[m])
    BY <2>6, <2>7, <2>8, <2>11
  <2>14. \A k \in Modules : Sound(ctx'[k], live'[k])
    BY <2>8, <2>10, <2>13 DEF AllSound
  <2>15. AllSound'
    BY <2>9, <2>14 DEF AllSound
  <2>16. IF at = 0 THEN live' = live
         ELSE b \in Blocks /\ live'[m] = live[m] \cup {b}
    BY <2>3, <2>5, <2>11
  <2>17. c.type \in Translated /\ d.active = c.active => d.memory_size = c.memory_size
    BY <1>2, <2>1 DEF Sound
  <2>18. QED
    BY <2>1, <2>8, <2>10, <2>12, <2>15, <2>16, <2>17
<1>6. CASE end > c.active /\ UNCHANGED <<ctx, current>> /\ at = 0
  <2>1. live' = live
    BY <1>6 DEF Malloc
  <2>2. QED
    BY <1>6, <2>1 DEF AllSound
<1>7. QED
  BY <1>4, <1>5, <1>6 DEF Malloc

LEMMA FreeSound ==
  ASSUME NEW t \in Threads, NEW m \in Modules, NEW b \in live[m], NEW next,
         AllSound, live \in [Modules -> SUBSET Blocks], FreeBlock(t, m, b, next),
         ctx' = ctx, b.owner # NoThread
  PROVE  /\ AllSound' /\ live' \in [Modules -> SUBSET Blocks]
         /\ live'[m] = live[m] \ {b}
         /\ \A k \in Modules : k # m => live'[k] = live[k]
<1>1. live' = [live EXCEPT ![m] = @ \ {b}]
  BY DEF FreeBlock
<1>2. StaticBlock # b
  BY DEF StaticBlock
<1>3. live'[m] = live[m] \ {b} /\ \A k \in Modules : k # m => live'[k] = live[k]
  BY <1>1
<1>4. Sound(ctx[m], live[m] \ {b})
  BY <1>2 DEF AllSound, Sound
<1>5. \A k \in Modules : Sound(ctx'[k], live'[k])
  BY <1>3, <1>4 DEF AllSound
<1>6. live' \in [Modules -> SUBSET Blocks]
  BY <1>1
<1>7. QED
  BY <1>3, <1>5, <1>6 DEF AllSound

(* A step that changes one record only.                                    *)
LEMMA RecordSound ==
  ASSUME NEW m \in Modules, NEW d, AllSound, live' = live,
         ctx' = [ctx EXCEPT ![m] = d], Sound(d, live[m]), d.type = ctx[m].type
  PROVE  AllSound' /\ \A k \in Modules : ctx'[k].type = ctx[k].type
<1>1. d \in Records
  BY DEF Sound
<1>2. ctx'[m] = d /\ \A k \in Modules : k # m => ctx'[k] = ctx[k]
  BY DEF AllSound
<1>3. \A k \in Modules : Sound(ctx'[k], live'[k])
  BY <1>2 DEF AllSound
<1>4. ctx' \in [Modules -> Records]
  BY <1>1 DEF AllSound
<1>5. QED
  BY <1>2, <1>3, <1>4 DEF AllSound

LEMMA TranslatedShrinks ==
  ASSUME NEW m \in Modules, AllSound, ctx[m].type \in Translated,
         NEW d, d = [ctx[m] EXCEPT !.active = Top(m), !.memory_size = Top(m),
                                   !.backed = RoundUp(Top(m))]
  PROVE  Sound(d, live[m]) /\ d.type = ctx[m].type
<1>1. /\ Top(m) \in Nat /\ Top(m) <= Reserve /\ Reserve \in Nat
      /\ \A b \in live[m] : b.at + b.length <= Top(m)
  BY EndsBounded, SizesTyped
<1>2. RoundUp(Top(m)) \in Nat /\ RoundUp(Top(m)) >= Top(m) /\ RoundUp(Top(m)) <= Reserve
  BY <1>1, PagesRounded
<1>3. Top(m) \in 0..Reserve /\ RoundUp(Top(m)) \in 0..Reserve
  BY <1>1, <1>2
<1>4. Sound(ctx[m], live[m]) /\ ctx[m] \in Records
  BY DEF AllSound
<1>5. /\ d \in Records /\ d.active = Top(m) /\ d.memory_size = Top(m)
      /\ d.backed = RoundUp(Top(m)) /\ d.type = ctx[m].type
  BY <1>3, <1>4 DEF Records
<1>6. QED
  BY <1>1, <1>2, <1>4, <1>5 DEF Sound

LEMMA TargetBounds ==
  ASSUME NEW m \in Modules, AllSound, ctx[m].type \notin Translated
  PROVE  /\ Target(m) \in Nat /\ Target(m) >= Top(m) /\ Target(m) >= InitialSize
         /\ Target(m) % PageSize = 0 /\ Target(m) <= ctx[m].active
<1>1. /\ Top(m) \in Nat /\ Top(m) <= ctx[m].active
  BY EndsBounded
<1>2. /\ ctx[m].active \in Nat /\ ctx[m].active >= InitialSize
      /\ ctx[m].active % PageSize = 0
  BY RecordFields DEF AllSound, Sound
<1>3. InitialSize \in Nat /\ InitialSize % PageSize = 0
  BY SizesTyped
<1>4. /\ RoundUp(Top(m)) \in Nat /\ RoundUp(Top(m)) >= Top(m)
      /\ RoundUp(Top(m)) % PageSize = 0 /\ RoundUp(Top(m)) <= ctx[m].active
  BY <1>1, <1>2, PagesRounded
<1>5. Target(m) = IF RoundUp(Top(m)) >= InitialSize THEN RoundUp(Top(m)) ELSE InitialSize
  BY <1>3, <1>4, OfTwo DEF Target
<1>6. QED
  BY <1>1, <1>2, <1>3, <1>4, <1>5

LEMMA WasmtimeShrinks ==
  ASSUME NEW m \in Modules, AllSound, ctx[m].type \in {"ordinary", "shared"},
         NEW d, d = [ctx[m] EXCEPT !.active = Target(m),
                                   !.backed = IF Entered(m) THEN Target(m)
                                              ELSE ctx[m].backed]
  PROVE  /\ Sound(d, live[m]) /\ d.type = ctx[m].type
         /\ d.active = Target(m) /\ d.memory_size = ctx[m].memory_size
         /\ d.memory_reclaim_pending = ctx[m].memory_reclaim_pending
         /\ d.backed = IF Entered(m) THEN Target(m) ELSE ctx[m].backed
<1>1. ctx[m].type \notin Translated
  BY DEF Translated
<1>2. /\ Target(m) \in Nat /\ Target(m) >= Top(m) /\ Target(m) >= InitialSize
      /\ Target(m) % PageSize = 0 /\ Target(m) <= ctx[m].active
  BY <1>1, TargetBounds
<1>3. /\ Top(m) \in Nat /\ \A b \in live[m] : b.at + b.length <= Top(m)
  BY EndsBounded
<1>4. Sound(ctx[m], live[m]) /\ ctx[m] \in Records
  BY DEF AllSound
<1>5. /\ ctx[m].active \in Nat /\ ctx[m].backed \in Nat /\ ctx[m].active <= Reserve
      /\ ctx[m].active <= ctx[m].backed /\ ctx[m].backed <= Reserve /\ Reserve \in Nat
  BY <1>4, RecordFields, SizesTyped DEF Sound
<1>6. Target(m) \in 0..Reserve
  BY <1>2, <1>5
<1>7. /\ d \in Records /\ d.active = Target(m) /\ d.type = ctx[m].type
      /\ d.backed = IF Entered(m) THEN Target(m) ELSE ctx[m].backed
      /\ d.memory_size = ctx[m].memory_size
      /\ d.memory_reclaim_pending = ctx[m].memory_reclaim_pending
  BY <1>4, <1>6 DEF Records
<1>8. \A b \in live[m] : b.at + b.length \in Nat
  BY <1>4, BlockFields DEF Sound
<1>9. \A b \in live[m] : b.at + b.length <= Target(m)
  BY <1>2, <1>3, <1>8
<1>10. d.active <= d.backed
  BY <1>2, <1>5, <1>7
<1>11. QED
  BY <1>1, <1>2, <1>4, <1>7, <1>9, <1>10 DEF Sound

(* The cached size changes, or is refreshed, and nothing else.             *)
LEMMA CachedSizeChanges ==
  ASSUME NEW m \in Modules, AllSound, NEW z \in 0..Reserve,
         ctx[m].type \in Translated => z = ctx[m].active,
         NEW d, d = [ctx[m] EXCEPT !.memory_size = z]
  PROVE  /\ Sound(d, live[m]) /\ d.type = ctx[m].type
         /\ d.active = ctx[m].active /\ d.backed = ctx[m].backed /\ d.memory_size = z
         /\ d.memory_reclaim_pending = ctx[m].memory_reclaim_pending
<1>1. Sound(ctx[m], live[m]) /\ ctx[m] \in Records
  BY DEF AllSound
<1>2. /\ d \in Records /\ d.type = ctx[m].type
      /\ d.active = ctx[m].active /\ d.backed = ctx[m].backed /\ d.memory_size = z
      /\ d.memory_reclaim_pending = ctx[m].memory_reclaim_pending
  BY <1>1 DEF Records
<1>3. QED
  BY <1>1, <1>2 DEF Sound

(* Backing is given back down to the active size, or marked.               *)
LEMMA BackingChanges ==
  ASSUME NEW m \in Modules, AllSound, NEW d \in Records,
         d.type = ctx[m].type, d.active = ctx[m].active, d.memory_size = ctx[m].memory_size,
         d.backed \in {ctx[m].active, ctx[m].backed}
  PROVE  Sound(d, live[m])
<1>1. Sound(ctx[m], live[m]) /\ ctx[m] \in Records
  BY DEF AllSound
<1>2. /\ ctx[m].active \in Nat /\ ctx[m].backed \in Nat /\ ctx[m].active <= ctx[m].backed
  BY <1>1, RecordFields DEF Sound
<1>3. d.active <= d.backed
  BY <1>2
<1>4. QED
  BY <1>1, <1>3 DEF Sound

-----------------------------------------------------------------------------
(* The steps, by the thread that takes them.                               *)

MemoryStepOf(t) ==
  \/ t \in Guests /\ (GuestAllocates(t) \/ GuestFrees(t))
  \/ KeepTail(t) \/ ShrinkTranslated(t) \/ ShrinkWasmtime(t)
  \/ MarkReclaimable(t) \/ RefreshShrunk(t)
  \/ SampleSize(t) \/ PublishSize(t) \/ ReadSize(t)
  \/ t \in Readers /\ BeginRead(t)

StepOf(t) ==
  \/ MemoryStepOf(t) /\ UNCHANGED transfer_vars
  \/ t \in Movers /\ TransferStep(t)

ReclaimStep == UNCHANGED transfer_vars /\ \E m \in Modules : Reclaim(m)

LEMMA Steps == [Next]_vars => (\E t \in Threads : StepOf(t)) \/ ReclaimStep \/ UNCHANGED vars
<1>1. Guests \subseteq Threads /\ Readers \subseteq Threads /\ Movers \subseteq Threads
  BY DEF Threads
<1>2. ASSUME MemoryStep, UNCHANGED transfer_vars
      PROVE  (\E t \in Threads : StepOf(t)) \/ ReclaimStep
  <2>1. CASE \E m \in Modules : Reclaim(m)
    BY <1>2, <2>1 DEF ReclaimStep
  <2>2. CASE \E t \in Threads : MemoryStepOf(t)
    BY <1>2, <2>2 DEF StepOf
  <2>3. QED
    BY <1>1, <1>2, <2>1, <2>2, Zenon DEF MemoryStep, MemoryStepOf
<1>3. ASSUME NEW t \in Movers, TransferStep(t)
      PROVE  \E u \in Threads : StepOf(u)
  BY <1>1, <1>3 DEF StepOf
<1>4. QED
  BY <1>2, <1>3 DEF Next

(* What belongs to other threads is left alone.                            *)
OthersKept(t) ==
  /\ \A u \in Threads \ {t} : /\ pc'[u] = pc[u] /\ ret'[u] = ret[u] /\ on'[u] = on[u]
                              /\ sample'[u] = sample[u] /\ size'[u] = size[u]
  /\ \A u \in Movers \ {t} : /\ msg'[u] = msg[u] /\ location'[u] = location[u]
                             /\ capacity'[u] = capacity[u] /\ allocation'[u] = allocation[u]
                             /\ block'[u] = block[u] /\ outcome'[u] = outcome[u]

LocalTypes ==
  /\ pc \in [Threads -> Labels] /\ ret \in [Threads -> Labels]
  /\ on \in [Threads -> Modules \cup {NoModule}]

LEMMA LocalsStep ==
  ASSUME NEW t \in Threads, StepOf(t), TypeOK, ThreadsPlaced, MessagesInHand
  PROVE  LocalTypes'
<1> USE DEF LocalTypes
<1>1. LocalTypes
  BY DEF TypeOK
<1>2. /\ {"idle", "measure", "resolve", "place", "validate", "refused", "freed", "shrunk",
          "mark", "scan", "reserve", "pack", "allocated", "rewrite", "copy", "free",
          "delivered", "sample", "publish", "sample_again", "publish_again", "read"} \subseteq Labels
      /\ Movers \subseteq Threads
  BY DEF Labels, Asking, Threads
<1>3. t \in Movers => (pc[t] # "idle" => Dst(t) \in Modules /\ Src(t) \in Modules \cup {Host})
  BY TransferAssumption DEF MessagesInHand, IsMessage, Src, Dst
<1>4. t \in Movers => \A m \in Messages : m.src \in Modules \cup {Host}
  BY TransferAssumption DEF IsMessage
<1>5. \A m : IsNative(m) \/ m # Host
  BY DEF IsNative
<1>6. CASE t \in Guests /\ GuestAllocates(t)
  BY <1>1, <1>2, <1>3, <1>4, <1>5, <1>6 DEF GuestAllocates
<1>7. CASE t \in Guests /\ GuestFrees(t)
  BY <1>1, <1>2, <1>3, <1>4, <1>5, <1>7 DEF GuestFrees, FreeBlock
<1>8. CASE KeepTail(t)
  BY <1>1, <1>2, <1>3, <1>4, <1>5, <1>8 DEF KeepTail, LeaveAllocator, Return
<1>9. CASE ShrinkTranslated(t)
  BY <1>1, <1>2, <1>3, <1>4, <1>5, <1>9 DEF ShrinkTranslated, LeaveAllocator, Return
<1>10. CASE ShrinkWasmtime(t)
  BY <1>1, <1>2, <1>3, <1>4, <1>5, <1>10 DEF ShrinkWasmtime
<1>11. CASE MarkReclaimable(t)
  BY <1>1, <1>2, <1>3, <1>4, <1>5, <1>11 DEF MarkReclaimable
<1>12. CASE RefreshShrunk(t)
  BY <1>1, <1>2, <1>3, <1>4, <1>5, <1>12 DEF RefreshShrunk, LeaveAllocator, Return
<1>13. CASE SampleSize(t)
  BY <1>1, <1>2, <1>3, <1>4, <1>5, <1>13 DEF SampleSize
<1>14. CASE PublishSize(t)
  BY <1>1, <1>2, <1>3, <1>4, <1>5, <1>14 DEF PublishSize
<1>15. CASE ReadSize(t)
  BY <1>1, <1>2, <1>3, <1>4, <1>5, <1>15 DEF ReadSize, Return
<1>16. CASE t \in Readers /\ BeginRead(t)
  BY <1>1, <1>2, <1>3, <1>4, <1>5, <1>16 DEF BeginRead, Ask
<1>17. CASE t \in Movers /\ BeginTransfer(t)
  BY <1>1, <1>2, <1>3, <1>4, <1>5, <1>17 DEF BeginTransfer, AskThen, Ask, Goto, KeepMemory, Stay
<1>18. CASE t \in Movers /\ Measure(t)
  BY <1>1, <1>2, <1>3, <1>4, <1>5, <1>18 DEF Measure, Goto, Refuse, KeepMemory, Stay
<1>19. CASE t \in Movers /\ Scan(t)
  BY <1>1, <1>2, <1>3, <1>4, <1>5, <1>19 DEF Scan, AskThen, Ask, Goto, Refuse, KeepMemory, Stay
<1>20. CASE t \in Movers /\ Resolve(t)
  BY <1>1, <1>2, <1>3, <1>4, <1>5, <1>20 DEF Resolve, AskThen, Ask, Goto, Refuse, KeepMemory, Stay
<1>21. CASE t \in Movers /\ PlaceLocation(t)
  BY <1>1, <1>2, <1>3, <1>4, <1>5, <1>21 DEF PlaceLocation, Goto, Refuse, KeepMemory, Stay
<1>22. CASE t \in Movers /\ ReserveText(t)
  BY <1>1, <1>2, <1>3, <1>4, <1>5, <1>22 DEF ReserveText, Goto, Refuse, KeepMemory, Stay
<1>23. CASE t \in Movers /\ AlignText(t)
  BY <1>1, <1>2, <1>3, <1>4, <1>5, <1>23 DEF AlignText, Goto, Refuse, KeepMemory, Stay
<1>24. CASE t \in Movers /\ PackPayload(t)
  BY <1>1, <1>2, <1>3, <1>4, <1>5, <1>24 DEF PackPayload, Goto, Refuse, KeepMemory, Stay
<1>25. CASE t \in Movers /\ AllocateBlock(t)
  BY <1>1, <1>2, <1>3, <1>4, <1>5, <1>25 DEF AllocateBlock, Goto, Refuse
<1>26. CASE t \in Movers /\ AllocateBadBlock(t)
  BY <1>1, <1>2, <1>3, <1>4, <1>5, <1>26 DEF AllocateBadBlock, Goto, KeepMemory, Stay
<1>27. CASE t \in Movers /\ CheckSize(t)
  BY <1>1, <1>2, <1>3, <1>4, <1>5, <1>27 DEF CheckSize, AskAfterCall, AskThen, Ask, Goto, Stay, KeepMemory, transfer_vars
<1>28. CASE t \in Movers /\ ValidateBlock(t)
  BY <1>1, <1>2, <1>3, <1>4, <1>5, <1>28 DEF ValidateBlock, Goto, GiveBack, KeepMemory, Stay
<1>29. CASE t \in Movers /\ RewriteText(t)
  BY <1>1, <1>2, <1>3, <1>4, <1>5, <1>29 DEF RewriteText, Goto, GiveBack, KeepMemory, Stay
<1>30. CASE t \in Movers /\ CopyPayloads(t)
  BY <1>1, <1>2, <1>3, <1>4, <1>5, <1>30 DEF CopyPayloads, Goto, KeepMemory, Stay
<1>31. CASE t \in Movers /\ FreeTransferred(t)
  BY <1>1, <1>2, <1>3, <1>4, <1>5, <1>31 DEF FreeTransferred, FreeBlock, Goto
<1>32. CASE t \in Movers /\ EndTransfer(t)
  BY <1>1, <1>2, <1>3, <1>4, <1>5, <1>32 DEF EndTransfer, Goto, Stay
<1>33. QED
  BY <1>6, <1>7, <1>8, <1>9, <1>10, <1>11, <1>12, <1>13, <1>14, <1>15,
     <1>16, <1>17, <1>18, <1>19, <1>20, <1>21, <1>22, <1>23, <1>24, <1>25,
     <1>26, <1>27, <1>28, <1>29, <1>30, <1>31, <1>32
  DEF StepOf, MemoryStepOf, TransferStep

(* Every memory stays sound, and of its kind.                              *)
LEMMA MemoriesStep ==
  ASSUME NEW t \in Threads, StepOf(t), TypeOK, AllSound, ThreadsPlaced, MessagesInHand
  PROVE  /\ AllSound' /\ live' \in [Modules -> SUBSET Blocks]
         /\ \A k \in Modules : ctx'[k].type = ctx[k].type
<1> DEFINE Goal == /\ AllSound' /\ live' \in [Modules -> SUBSET Blocks]
                   /\ \A k \in Modules : ctx'[k].type = ctx[k].type
<1>1. live \in [Modules -> SUBSET Blocks]
  BY DEF TypeOK
<1>2. UNCHANGED <<ctx, live>> => Goal
  BY <1>1 DEF AllSound
<1>3. ASSUME NEW m \in Modules, NEW n \in Nat, NEW at, Malloc(t, m, n, at)
      PROVE  Goal
  BY <1>1, <1>3, MallocSound
<1>4. ASSUME NEW m \in Modules, NEW b \in live[m], NEW next, FreeBlock(t, m, b, next),
             ctx' = ctx, b.owner # NoThread
      PROVE  Goal
  BY <1>1, <1>4, FreeSound
<1>5. ASSUME NEW m \in Modules, NEW d, live' = live, ctx' = [ctx EXCEPT ![m] = d],
             Sound(d, live[m]), d.type = ctx[m].type
      PROVE  Goal
  BY <1>1, <1>5, RecordSound
<1>6. /\ pc[t] \in {"freed", "mark", "shrunk", "publish", "publish_again"} => on[t] \in Modules
      /\ pc[t] \in {"publish", "publish_again"} => ctx[on[t]].type \notin Translated
  BY DEF ThreadsPlaced, Shrinking, Asking, Type
<1>7. NoThread \notin Guests /\ NoThread \notin Movers /\ GuestBlock \in Nat
  BY MemoryAssumption DEF Threads
<1>8. t \in Movers => (pc[t] # "idle" => Dst(t) \in Modules) /\ allocation[t] \in Nat
  BY TransferAssumption, AddressesTyped DEF MessagesInHand, IsMessage, Dst, TypeOK, Sizes
<1>9. ctx \in [Modules -> Records]
  BY DEF AllSound
<1> SUFFICES Goal
  OBVIOUS
<1> HIDE DEF Goal
<1>10. CASE t \in Guests /\ GuestAllocates(t)
  BY <1>3, <1>7, <1>10 DEF GuestAllocates
<1>11. CASE t \in Guests /\ GuestFrees(t)
  BY <1>4, <1>7, <1>11 DEF GuestFrees
<1>12. CASE ShrinkTranslated(t)
  <2> DEFINE m == on[t]
             d == [ctx[m] EXCEPT !.active = Top(m), !.memory_size = Top(m),
                                 !.backed = RoundUp(Top(m))]
  <2>1. m \in Modules /\ ctx[m].type \in Translated /\ live' = live
    BY <1>6, <1>12 DEF ShrinkTranslated, Type
  <2>2. ctx' = ctx \/ ctx' = [ctx EXCEPT ![m] = d]
    BY <1>12 DEF ShrinkTranslated, Becomes
  <2>3. Sound(d, live[m]) /\ d.type = ctx[m].type
    <3> HIDE DEF m
    <3>1. QED
      BY <2>1, TranslatedShrinks
  <2> HIDE DEF d
  <2>4. QED
    BY <1>2, <1>5, <2>1, <2>2, <2>3
<1>13. CASE ShrinkWasmtime(t)
  <2> DEFINE m == on[t]
             d == [ctx[m] EXCEPT !.active = Target(m),
                                 !.backed = IF Entered(m) THEN Target(m) ELSE ctx[m].backed]
  <2>1. m \in Modules /\ ctx[m].type \in {"ordinary", "shared"} /\ live' = live
    BY <1>6, <1>13 DEF ShrinkWasmtime, Type
  <2>2. ctx' = ctx \/ ctx' = [ctx EXCEPT ![m] = d]
    BY <1>13 DEF ShrinkWasmtime, Becomes
  <2>3. Sound(d, live[m]) /\ d.type = ctx[m].type
    <3> HIDE DEF m
    <3>1. QED
      BY <2>1, WasmtimeShrinks
  <2> HIDE DEF d
  <2>4. QED
    BY <1>2, <1>5, <2>1, <2>2, <2>3
<1>14. CASE MarkReclaimable(t)
  <2> DEFINE m == on[t]
             d == [ctx[m] EXCEPT !.backed = ctx[m].backed, !.memory_reclaim_pending = TRUE]
  <2>1. m \in Modules /\ live' = live
        /\ ctx' = [ctx EXCEPT ![m].memory_reclaim_pending = TRUE]
    BY <1>6, <1>14 DEF MarkReclaimable
  <2>2. ctx' = [ctx EXCEPT ![m] = d]
    BY <1>9, <2>1 DEF Records
  <2>3. Sound(d, live[m]) /\ d.type = ctx[m].type
    <3>1. /\ d \in Records /\ d.type = ctx[m].type /\ d.active = ctx[m].active
          /\ d.backed = ctx[m].backed /\ d.memory_size = ctx[m].memory_size
      BY <1>9, <2>1 DEF Records
    <3> HIDE DEF d, m
    <3>2. QED
      BY <2>1, <3>1, BackingChanges
  <2> HIDE DEF d
  <2>4. QED
    BY <1>5, <2>1, <2>2, <2>3
<1>15. CASE RefreshShrunk(t)
  <2> DEFINE m == on[t]
             d == [ctx[m] EXCEPT !.memory_size = ctx[m].active]
  <2>1. m \in Modules /\ live' = live /\ ctx' = [ctx EXCEPT ![m] = d]
    BY <1>6, <1>15 DEF RefreshShrunk
  <2>2. ctx[m].active \in 0..Reserve
    BY <1>9, <2>1 DEF Records
  <2>3. Sound(d, live[m]) /\ d.type = ctx[m].type
    <3> HIDE DEF m
    <3>1. QED
      BY <2>1, <2>2, CachedSizeChanges
  <2> HIDE DEF d
  <2>4. QED
    BY <1>5, <2>1, <2>3
<1>16. CASE PublishSize(t)
  <2> DEFINE m == on[t]
             d == [ctx[m] EXCEPT !.memory_size = sample[t]]
  <2>1. m \in Modules /\ live' = live /\ ctx' = [ctx EXCEPT ![m] = d]
        /\ ctx[m].type \notin Translated
    BY <1>6, <1>16 DEF PublishSize
  <2>2. sample[t] \in 0..Reserve
    BY DEF TypeOK
  <2>3. Sound(d, live[m]) /\ d.type = ctx[m].type
    <3> HIDE DEF m
    <3>1. QED
      BY <2>1, <2>2, CachedSizeChanges
  <2> HIDE DEF d
  <2>4. QED
    BY <1>5, <2>1, <2>3
<1>17. CASE t \in Movers /\ AllocateBlock(t)
  BY <1>3, <1>8, <1>17 DEF AllocateBlock
<1>18. CASE t \in Movers /\ FreeTransferred(t)
  <2>1. Dst(t) \in Modules
    BY <1>8, <1>18 DEF FreeTransferred
  <2>2. CASE \E b \in live[Dst(t)] : b.owner = t /\ FreeBlock(t, Dst(t), b, "refused")
    BY <1>4, <1>7, <1>18, <2>1, <2>2 DEF FreeTransferred
  <2>3. CASE UNCHANGED <<live, mutex, on, ret>>
    BY <1>2, <1>18, <2>3 DEF FreeTransferred
  <2>4. QED
    BY <1>18, <2>2, <2>3 DEF FreeTransferred
<1>19. CASE \/ (KeepTail(t))
            \/ (SampleSize(t))
            \/ (ReadSize(t))
            \/ (t \in Readers /\ BeginRead(t))
            \/ (t \in Movers /\ BeginTransfer(t))
            \/ (t \in Movers /\ Measure(t))
            \/ (t \in Movers /\ Scan(t))
            \/ (t \in Movers /\ Resolve(t))
            \/ (t \in Movers /\ PlaceLocation(t))
            \/ (t \in Movers /\ ReserveText(t))
            \/ (t \in Movers /\ AlignText(t))
            \/ (t \in Movers /\ PackPayload(t))
            \/ (t \in Movers /\ AllocateBadBlock(t))
            \/ (t \in Movers /\ CheckSize(t))
            \/ (t \in Movers /\ ValidateBlock(t))
            \/ (t \in Movers /\ RewriteText(t))
            \/ (t \in Movers /\ CopyPayloads(t))
            \/ (t \in Movers /\ EndTransfer(t))
  BY <1>2, <1>19
  DEF KeepTail, SampleSize, ReadSize, BeginRead, BeginTransfer, Measure,
      Scan, Resolve, PlaceLocation, ReserveText, AlignText, PackPayload,
      AllocateBadBlock, CheckSize, ValidateBlock, RewriteText,
      CopyPayloads, EndTransfer, KeepMemory
<1>20. CASE MemoryStepOf(t)
  BY <1>10, <1>11, <1>12, <1>13, <1>14, <1>15, <1>16, <1>19, <1>20 DEF MemoryStepOf
<1>21. CASE t \in Movers /\ TransferStep(t)
  BY <1>17, <1>18, <1>19, <1>21 DEF TransferStep
<1>22. QED
  BY <1>20, <1>21 DEF StepOf

LEMMA MemoriesReclaimed ==
  ASSUME ReclaimStep, TypeOK, AllSound
  PROVE  /\ AllSound' /\ \A k \in Modules : ctx'[k].type = ctx[k].type
<1>1. PICK m \in Modules, failed \in BOOLEAN :
        /\ live' = live
        /\ ctx' = [ctx EXCEPT ![m].backed = IF failed THEN @ ELSE ReclaimExtent(ctx[m]),
                              ![m].memory_reclaim_pending = PendingAfter(failed)]
  BY DEF ReclaimStep, Reclaim
<1> DEFINE y == IF failed THEN ctx[m].backed ELSE ctx[m].active
           d == [ctx[m] EXCEPT !.backed = y, !.memory_reclaim_pending = failed]
<1>2. ctx' = [ctx EXCEPT ![m] = d] /\ ctx[m] \in Records
  BY <1>1 DEF AllSound, Records, ReclaimExtent, PendingAfter
<1>3. Sound(d, live[m]) /\ d.type = ctx[m].type
  <2>1. y \in {ctx[m].active, ctx[m].backed} /\ y \in 0..Reserve
    BY <1>2 DEF Records
  <2> HIDE DEF y
  <2>2. /\ d \in Records /\ d.type = ctx[m].type /\ d.active = ctx[m].active /\ d.backed = y
        /\ d.memory_size = ctx[m].memory_size
    BY <1>2, <2>1 DEF Records
  <2> HIDE DEF d
  <2>3. QED
    BY <2>1, <2>2, BackingChanges
<1> HIDE DEF d
<1>4. QED
  BY <1>1, <1>2, <1>3, RecordSound

LEMMA OthersStep ==
  ASSUME NEW t \in Threads, StepOf(t), TypeOK
  PROVE  OthersKept(t)
<1> DEFINE Goal == OthersKept(t)
<1>1. Movers \subseteq Threads
  BY DEF Threads
<1>2. /\ pc \in [Threads -> Labels] /\ ret \in [Threads -> Labels]
      /\ on \in [Threads -> Modules \cup {NoModule}]
      /\ sample \in [Threads -> 0..Reserve] /\ size \in [Threads -> 0..Reserve]
  BY DEF TypeOK
<1>3. /\ msg \in [Movers -> Messages \cup {NoMessage}]
      /\ location \in [Movers -> Seq(Resolutions)]
      /\ capacity \in [Movers -> Sizes] /\ allocation \in [Movers -> Sizes]
      /\ block \in [Movers -> Sizes] /\ outcome \in [Movers -> Reasons]
  BY DEF TypeOK
<1>4. ASSUME MemoryStepOf(t), UNCHANGED transfer_vars
      PROVE  Goal
  <2>1. CASE t \in Guests /\ GuestAllocates(t)
    BY <1>1, <1>2, <1>4, <2>1 DEF OthersKept, transfer_vars, GuestAllocates
  <2>2. CASE t \in Guests /\ GuestFrees(t)
    BY <1>1, <1>2, <1>4, <2>2 DEF OthersKept, transfer_vars, GuestFrees, FreeBlock
  <2>3. CASE KeepTail(t)
    BY <1>1, <1>2, <1>4, <2>3 DEF OthersKept, transfer_vars, KeepTail, LeaveAllocator, Return
  <2>4. CASE ShrinkTranslated(t)
    BY <1>1, <1>2, <1>4, <2>4 DEF OthersKept, transfer_vars, ShrinkTranslated, LeaveAllocator, Return
  <2>5. CASE ShrinkWasmtime(t)
    BY <1>1, <1>2, <1>4, <2>5 DEF OthersKept, transfer_vars, ShrinkWasmtime
  <2>6. CASE MarkReclaimable(t)
    BY <1>1, <1>2, <1>4, <2>6 DEF OthersKept, transfer_vars, MarkReclaimable
  <2>7. CASE RefreshShrunk(t)
    BY <1>1, <1>2, <1>4, <2>7 DEF OthersKept, transfer_vars, RefreshShrunk, LeaveAllocator, Return
  <2>8. CASE SampleSize(t)
    BY <1>1, <1>2, <1>4, <2>8 DEF OthersKept, transfer_vars, SampleSize
  <2>9. CASE PublishSize(t)
    BY <1>1, <1>2, <1>4, <2>9 DEF OthersKept, transfer_vars, PublishSize
  <2>10. CASE ReadSize(t)
    BY <1>1, <1>2, <1>4, <2>10 DEF OthersKept, transfer_vars, ReadSize, Return
  <2>11. CASE t \in Readers /\ BeginRead(t)
    BY <1>1, <1>2, <1>4, <2>11 DEF OthersKept, transfer_vars, BeginRead, Ask
  <2>12. QED
    BY <1>4, <2>1, <2>2, <2>3, <2>4, <2>5, <2>6, <2>7, <2>8, <2>9, <2>10,
       <2>11
    DEF MemoryStepOf
<1>5. ASSUME t \in Movers, TransferStep(t)
      PROVE  Goal
  <2>1. CASE BeginTransfer(t)
    BY <1>1, <1>2, <1>3, <1>5, <2>1
    DEF OthersKept, BeginTransfer, AskThen, Ask, Goto, KeepMemory, Stay
  <2>2. CASE Measure(t)
    BY <1>1, <1>2, <1>3, <1>5, <2>2
    DEF OthersKept, Measure, Goto, Refuse, KeepMemory, Stay
  <2>3. CASE Scan(t)
    BY <1>1, <1>2, <1>3, <1>5, <2>3
    DEF OthersKept, Scan, AskThen, Ask, Goto, Refuse, KeepMemory, Stay
  <2>4. CASE Resolve(t)
    BY <1>1, <1>2, <1>3, <1>5, <2>4
    DEF OthersKept, Resolve, AskThen, Ask, Goto, Refuse, KeepMemory, Stay
  <2>5. CASE PlaceLocation(t)
    BY <1>1, <1>2, <1>3, <1>5, <2>5
    DEF OthersKept, PlaceLocation, Goto, Refuse, KeepMemory, Stay
  <2>6. CASE ReserveText(t)
    BY <1>1, <1>2, <1>3, <1>5, <2>6
    DEF OthersKept, ReserveText, Goto, Refuse, KeepMemory, Stay
  <2>7. CASE AlignText(t)
    BY <1>1, <1>2, <1>3, <1>5, <2>7
    DEF OthersKept, AlignText, Goto, Refuse, KeepMemory, Stay
  <2>8. CASE PackPayload(t)
    BY <1>1, <1>2, <1>3, <1>5, <2>8
    DEF OthersKept, PackPayload, Goto, Refuse, KeepMemory, Stay
  <2>9. CASE AllocateBlock(t)
    BY <1>1, <1>2, <1>3, <1>5, <2>9
    DEF OthersKept, AllocateBlock, Goto, Refuse
  <2>10. CASE AllocateBadBlock(t)
    BY <1>1, <1>2, <1>3, <1>5, <2>10
    DEF OthersKept, AllocateBadBlock, Goto, KeepMemory, Stay
  <2>11. CASE CheckSize(t)
    BY <1>1, <1>2, <1>3, <1>5, <2>11
    DEF OthersKept, CheckSize, AskAfterCall, AskThen, Ask, Goto, Stay,
        KeepMemory, transfer_vars
  <2>12. CASE ValidateBlock(t)
    BY <1>1, <1>2, <1>3, <1>5, <2>12
    DEF OthersKept, ValidateBlock, Goto, GiveBack, KeepMemory, Stay
  <2>13. CASE RewriteText(t)
    BY <1>1, <1>2, <1>3, <1>5, <2>13
    DEF OthersKept, RewriteText, Goto, GiveBack, KeepMemory, Stay
  <2>14. CASE CopyPayloads(t)
    BY <1>1, <1>2, <1>3, <1>5, <2>14
    DEF OthersKept, CopyPayloads, Goto, KeepMemory, Stay
  <2>15. CASE FreeTransferred(t)
    BY <1>1, <1>2, <1>3, <1>5, <2>15
    DEF OthersKept, FreeTransferred, FreeBlock, Goto
  <2>16. CASE EndTransfer(t)
    BY <1>1, <1>2, <1>3, <1>5, <2>16
    DEF OthersKept, EndTransfer, Goto, Stay
  <2>17. QED
    BY <1>5, <2>1, <2>2, <2>3, <2>4, <2>5, <2>6, <2>7, <2>8, <2>9, <2>10,
       <2>11, <2>12, <2>13, <2>14, <2>15, <2>16
    DEF TransferStep
<1>6. QED
  BY <1>4, <1>5 DEF StepOf

LEMMA LocksStep ==
  ASSUME NEW t \in Threads, StepOf(t), TypeOK, ThreadsPlaced, MessagesInHand
  PROVE  mutex' \in [Modules -> [Locks -> Threads \cup {NoThread}]]
<1> DEFINE Goal == mutex' \in [Modules -> [Locks -> Threads \cup {NoThread}]]
<1>1. mutex \in [Modules -> [Locks -> Threads \cup {NoThread}]]
  BY DEF TypeOK
<1>2. /\ pc[t] \in Shrinking \cup Asking => on[t] \in Modules
      /\ \A m \in Modules : DOMAIN mutex[m] = Locks
  BY <1>1 DEF ThreadsPlaced
<1>3. {"alloc", "runner"} \subseteq Locks
  BY DEF Locks
<1>4. UNCHANGED mutex => Goal
  BY <1>1
<1>5. ASSUME NEW m \in Modules, NEW f \in [Locks -> Threads \cup {NoThread}],
             mutex' = [mutex EXCEPT ![m] = f]
      PROVE  Goal
  BY <1>1, <1>5
<1>6. ASSUME NEW m \in Modules, NEW a \in Threads \cup {NoThread},
             NEW r \in Threads \cup {NoThread},
             mutex' = [mutex EXCEPT ![m].alloc = a, ![m].runner = r]
      PROVE  Goal
  BY <1>1, <1>3, <1>6
<1>7. ASSUME NEW m \in Modules, NEW e, NEW next, FreeBlock(t, m, e, next)
      PROVE  Goal
  <2> DEFINE r == IF Entered(m) THEN t ELSE mutex[m].runner
  <2>1. mutex' = [mutex EXCEPT ![m].alloc = t, ![m].runner = r]
    BY <1>1, <1>3, <1>7 DEF FreeBlock
  <2>2. r \in Threads \cup {NoThread}
    BY <1>1, <1>3
  <2> HIDE DEF r
  <2>3. QED
    BY <1>6, <2>1, <2>2
<1>8. ASSUME LeaveAllocator(t), on[t] \in Modules
      PROVE  Goal
  <2> DEFINE r == IF mutex[on[t]].runner = t THEN NoThread ELSE mutex[on[t]].runner
  <2>1. mutex' = [mutex EXCEPT ![on[t]].alloc = NoThread, ![on[t]].runner = r]
    BY <1>1, <1>3, <1>8 DEF LeaveAllocator
  <2>2. r \in Threads \cup {NoThread}
    BY <1>1, <1>3, <1>8
  <2> HIDE DEF r
  <2>3. QED
    BY <1>6, <1>8, <2>1, <2>2
<1> SUFFICES Goal
  OBVIOUS
<1> HIDE DEF Goal
<1>9. CASE t \in Guests /\ GuestFrees(t)
  BY <1>7, <1>9 DEF GuestFrees
<1>10. CASE KeepTail(t) \/ ShrinkTranslated(t) \/ RefreshShrunk(t)
  BY <1>2, <1>8, <1>10 DEF KeepTail, ShrinkTranslated, RefreshShrunk, Shrinking
<1>11. CASE SampleSize(t)
  <2>1. on[t] \in Modules
    BY <1>2, <1>11 DEF SampleSize, Asking
  <2>2. [lock \in DOMAIN mutex[on[t]] |->
           IF HeldForSample(on[t], lock) THEN t ELSE mutex[on[t]][lock]]
          \in [Locks -> Threads \cup {NoThread}]
    BY <1>1, <1>2, <2>1
  <2>3. QED
    BY <1>1, <1>5, <1>11, <2>1, <2>2 DEF SampleSize
<1>12. CASE PublishSize(t)
  <2>1. on[t] \in Modules
    BY <1>2, <1>12 DEF PublishSize, Asking
  <2>2. [lock \in DOMAIN mutex[on[t]] |->
           IF mutex[on[t]][lock] = t THEN NoThread ELSE mutex[on[t]][lock]]
          \in [Locks -> Threads \cup {NoThread}]
    BY <1>1, <1>2, <2>1
  <2>3. QED
    BY <1>1, <1>5, <1>12, <2>1, <2>2 DEF PublishSize
<1>13. CASE t \in Movers /\ FreeTransferred(t)
  <2>1. Dst(t) \in Modules
    BY <1>13, TransferAssumption DEF FreeTransferred, MessagesInHand, IsMessage, Dst
  <2>2. QED
    BY <1>4, <1>7, <1>13, <2>1 DEF FreeTransferred
<1>14. CASE \/ (t \in Guests /\ GuestAllocates(t))
            \/ ShrinkWasmtime(t)
            \/ MarkReclaimable(t)
            \/ ReadSize(t)
            \/ (t \in Readers /\ BeginRead(t))
            \/ (t \in Movers /\ BeginTransfer(t))
            \/ (t \in Movers /\ Measure(t))
            \/ (t \in Movers /\ Scan(t))
            \/ (t \in Movers /\ Resolve(t))
            \/ (t \in Movers /\ PlaceLocation(t))
            \/ (t \in Movers /\ ReserveText(t))
            \/ (t \in Movers /\ AlignText(t))
            \/ (t \in Movers /\ PackPayload(t))
            \/ (t \in Movers /\ AllocateBlock(t))
            \/ (t \in Movers /\ AllocateBadBlock(t))
            \/ (t \in Movers /\ CheckSize(t))
            \/ (t \in Movers /\ ValidateBlock(t))
            \/ (t \in Movers /\ RewriteText(t))
            \/ (t \in Movers /\ CopyPayloads(t))
            \/ (t \in Movers /\ EndTransfer(t))
  BY <1>4, <1>14
  DEF GuestAllocates, ShrinkWasmtime, MarkReclaimable, ReadSize, BeginRead,
      BeginTransfer, Measure, Scan, Resolve, PlaceLocation, ReserveText,
      AlignText, PackPayload, AllocateBlock, AllocateBadBlock, CheckSize,
      ValidateBlock, RewriteText, CopyPayloads, EndTransfer, KeepMemory
<1>15. CASE MemoryStepOf(t)
  BY <1>9, <1>10, <1>11, <1>12, <1>14, <1>15 DEF MemoryStepOf
<1>16. CASE t \in Movers /\ TransferStep(t)
  BY <1>13, <1>14, <1>16 DEF TransferStep
<1>17. QED
  BY <1>15, <1>16 DEF StepOf

LEMMA SizesStep ==
  ASSUME NEW t \in Threads, StepOf(t), TypeOK, ThreadsPlaced, MessagesInHand, AllSound
  PROVE  sample' \in [Threads -> 0..Reserve] /\ size' \in [Threads -> 0..Reserve]
<1> DEFINE Goal == sample' \in [Threads -> 0..Reserve] /\ size' \in [Threads -> 0..Reserve]
<1>1. /\ sample \in [Threads -> 0..Reserve] /\ size \in [Threads -> 0..Reserve]
      /\ 0 \in 0..Reserve
  BY SizesTyped DEF TypeOK
<1>2. \A m \in Modules : ctx[m].active \in 0..Reserve /\ ctx[m].memory_size \in 0..Reserve
  BY DEF AllSound, Records
<1>3. pc[t] \in Asking => on[t] \in Modules
  BY DEF ThreadsPlaced
<1>4. CASE SampleSize(t)
  BY <1>1, <1>2, <1>3, <1>4 DEF SampleSize, Asking
<1>5. CASE PublishSize(t)
  BY <1>1, <1>5 DEF PublishSize
<1>6. CASE ReadSize(t)
  BY <1>1, <1>2, <1>3, <1>6 DEF ReadSize, Asking
<1>7. CASE t \in Movers /\ EndTransfer(t)
  BY <1>1, <1>7 DEF EndTransfer
<1>8. CASE \/ (t \in Guests /\ GuestAllocates(t))
            \/ (t \in Guests /\ GuestFrees(t))
            \/ KeepTail(t)
            \/ ShrinkTranslated(t)
            \/ ShrinkWasmtime(t)
            \/ MarkReclaimable(t)
            \/ RefreshShrunk(t)
            \/ (t \in Readers /\ BeginRead(t))
            \/ (t \in Movers /\ BeginTransfer(t))
            \/ (t \in Movers /\ Measure(t))
            \/ (t \in Movers /\ Scan(t))
            \/ (t \in Movers /\ Resolve(t))
            \/ (t \in Movers /\ PlaceLocation(t))
            \/ (t \in Movers /\ ReserveText(t))
            \/ (t \in Movers /\ AlignText(t))
            \/ (t \in Movers /\ PackPayload(t))
            \/ (t \in Movers /\ AllocateBlock(t))
            \/ (t \in Movers /\ AllocateBadBlock(t))
            \/ (t \in Movers /\ CheckSize(t))
            \/ (t \in Movers /\ ValidateBlock(t))
            \/ (t \in Movers /\ RewriteText(t))
            \/ (t \in Movers /\ CopyPayloads(t))
            \/ (t \in Movers /\ FreeTransferred(t))
  BY <1>1, <1>8
  DEF GuestAllocates, GuestFrees, KeepTail, ShrinkTranslated,
      ShrinkWasmtime, MarkReclaimable, RefreshShrunk, BeginRead,
      BeginTransfer, Measure, Scan, Resolve, PlaceLocation, ReserveText,
      AlignText, PackPayload, AllocateBlock, AllocateBadBlock, CheckSize,
      ValidateBlock, RewriteText, CopyPayloads, FreeTransferred, KeepMemory
<1>9. CASE MemoryStepOf(t)
  BY <1>4, <1>5, <1>6, <1>8, <1>9 DEF MemoryStepOf
<1>10. CASE t \in Movers /\ TransferStep(t)
  BY <1>7, <1>8, <1>10 DEF TransferStep
<1>11. QED
  BY <1>9, <1>10 DEF StepOf

LEMMA CurrentStep ==
  ASSUME NEW t \in Threads, StepOf(t), TypeOK, ThreadsPlaced, MessagesInHand,
         AllSound, AllSound'
  PROVE  current' \in [Threads -> SUBSET (0..Reserve)]
<1> DEFINE Goal == current' \in [Threads -> SUBSET (0..Reserve)]
<1>1. current \in [Threads -> SUBSET (0..Reserve)]
  BY DEF TypeOK
<1>2. \A m \in Modules : ctx[m].active \in 0..Reserve /\ ctx'[m].active \in 0..Reserve
  BY DEF AllSound, Records
<1>3. UNCHANGED current => Goal
  BY <1>1
<1>4. ASSUME NEW m \in Modules, NEW c, Becomes(m, c)
      PROVE  Goal
  <2>1. ctx' = [ctx EXCEPT ![m] = c] /\ ctx \in [Modules -> Records]
    BY <1>4 DEF Becomes, AllSound
  <2>2. c.active \in 0..Reserve
    BY <1>2, <2>1
  <2>3. QED
    BY <1>1, <1>4, <2>2 DEF Becomes
<1>5. ASSUME NEW m \in Modules, NEW next, Ask(t, m, next)
      PROVE  Goal
  BY <1>1, <1>2, <1>5 DEF Ask
<1>6. ASSUME NEW m \in Modules, NEW n, NEW at, Malloc(t, m, n, at)
      PROVE  Goal
  BY <1>3, <1>4, <1>6 DEF Malloc
<1>7. pc[t] \in Shrinking => on[t] \in Modules
  BY DEF ThreadsPlaced
<1>8. t \in Movers /\ pc[t] # "idle" => Dst(t) \in Modules /\ Src(t) \in Modules \cup {Host}
  BY TransferAssumption DEF MessagesInHand, IsMessage, Src, Dst
<1>9. /\ \A m \in Messages : m.src \in Modules \cup {Host}
      /\ \A m : IsNative(m) \/ m # Host
  BY TransferAssumption DEF IsMessage, IsNative
<1>10. ASSUME NEW m \in Modules \cup {Host}, NEW label, AskThen(t, m, label)
       PROVE  Goal
  BY <1>3, <1>5, <1>9, <1>10 DEF AskThen, Stay
<1>11. ASSUME ReadSize(t)
       PROVE  Goal
  BY <1>1, <1>11 DEF ReadSize
<1> SUFFICES Goal
  OBVIOUS
<1> HIDE DEF Goal
<1>12. CASE t \in Guests /\ GuestAllocates(t)
  BY <1>6, <1>12 DEF GuestAllocates
<1>13. CASE ShrinkTranslated(t)
  BY <1>3, <1>4, <1>7, <1>13 DEF ShrinkTranslated, Shrinking
<1>14. CASE ShrinkWasmtime(t)
  BY <1>3, <1>4, <1>7, <1>14 DEF ShrinkWasmtime, Shrinking
<1>15. CASE t \in Readers /\ BeginRead(t)
  BY <1>5, <1>15 DEF BeginRead
<1>16. CASE t \in Movers /\ BeginTransfer(t)
  BY <1>9, <1>10, <1>16 DEF BeginTransfer
<1>17. CASE t \in Movers /\ Scan(t)
  BY <1>3, <1>8, <1>10, <1>17 DEF Scan, Stay
<1>18. CASE t \in Movers /\ Resolve(t)
  BY <1>3, <1>8, <1>10, <1>18 DEF Resolve, Stay
<1>19. CASE t \in Movers /\ CheckSize(t)
  BY <1>3, <1>8, <1>10, <1>19 DEF CheckSize, AskAfterCall
<1>20. CASE t \in Movers /\ AllocateBlock(t)
  BY <1>6, <1>8, <1>20 DEF AllocateBlock
<1>21. CASE \/ (t \in Guests /\ GuestFrees(t))
            \/ KeepTail(t)
            \/ MarkReclaimable(t)
            \/ RefreshShrunk(t)
            \/ SampleSize(t)
            \/ PublishSize(t)
            \/ (t \in Movers /\ Measure(t))
            \/ (t \in Movers /\ PlaceLocation(t))
            \/ (t \in Movers /\ ReserveText(t))
            \/ (t \in Movers /\ AlignText(t))
            \/ (t \in Movers /\ PackPayload(t))
            \/ (t \in Movers /\ AllocateBadBlock(t))
            \/ (t \in Movers /\ ValidateBlock(t))
            \/ (t \in Movers /\ RewriteText(t))
            \/ (t \in Movers /\ CopyPayloads(t))
            \/ (t \in Movers /\ FreeTransferred(t))
            \/ (t \in Movers /\ EndTransfer(t))
  BY <1>3, <1>21
  DEF GuestFrees, KeepTail, MarkReclaimable, RefreshShrunk, SampleSize,
      PublishSize, Measure, PlaceLocation, ReserveText, AlignText,
      PackPayload, AllocateBadBlock, ValidateBlock, RewriteText,
      CopyPayloads, FreeTransferred, EndTransfer, Stay
<1>22. CASE MemoryStepOf(t)
  BY <1>11, <1>12, <1>13, <1>14, <1>15, <1>21, <1>22 DEF MemoryStepOf
<1>23. CASE t \in Movers /\ TransferStep(t)
  BY <1>16, <1>17, <1>18, <1>19, <1>20, <1>21, <1>23 DEF TransferStep
<1>24. QED
  BY <1>22, <1>23 DEF StepOf

-----------------------------------------------------------------------------
(* Lists of locations.                                                     *)

LEMMA ListFields ==
  ASSUME NEW S, NEW s \in Seq(S)
  PROVE  /\ Len(s) \in Nat /\ DOMAIN s = 1..Len(s) /\ s \in [1..Len(s) -> S]
         /\ \A i \in DOMAIN s : s[i] \in S
  OBVIOUS

LEMMA ListExtended ==
  ASSUME NEW S, NEW s \in Seq(S), NEW v \in S
  PROVE  /\ Append(s, v) \in Seq(S) /\ Len(Append(s, v)) = Len(s) + 1
         /\ DOMAIN Append(s, v) = 1..(Len(s) + 1)
         /\ \A i \in DOMAIN s : Append(s, v)[i] = s[i]
         /\ Append(s, v)[Len(s) + 1] = v
  OBVIOUS

LEMMA ListUpdated ==
  ASSUME NEW S, NEW s \in Seq(S), NEW i \in DOMAIN s, NEW v \in S
  PROVE  LET r == [s EXCEPT ![i] = v]
         IN  /\ r \in Seq(S) /\ Len(r) = Len(s) /\ DOMAIN r = DOMAIN s
             /\ r[i] = v /\ \A j \in DOMAIN s : j # i => r[j] = s[j]
<1>1. [s EXCEPT ![i] = v] \in [1..Len(s) -> S] /\ Len(s) \in Nat
  BY ListFields
<1>2. QED
  BY <1>1, ListFields

LEMMA ListMapped ==
  ASSUME NEW S, NEW s \in Seq(S), NEW r, DOMAIN r = DOMAIN s, r = [i \in DOMAIN s |-> r[i]],
         \A i \in DOMAIN s : r[i] \in S
  PROVE  r \in Seq(S) /\ Len(r) = Len(s)
<1>1. Len(s) \in Nat /\ DOMAIN s = 1..Len(s)
  BY ListFields
<1>2. r \in [1..Len(s) -> S]
  BY <1>1
<1>3. QED
  BY <1>1, <1>2

(* What a message consists of.                                             *)
LEMMA MessageFields ==
  ASSUME NEW m \in Messages
  PROVE  /\ m.src \in Modules \cup {Host} /\ m.dst \in Modules /\ m.dst # Host
         /\ m.ptr \in Nat /\ m.len \in Sizes /\ m.locations \in Seq(Location)
<1>1. IsMessage(m) /\ Host \notin Modules
  BY TransferAssumption
<1>2. HostAddressBit \in Nat
  BY AddressesTyped
<1>3. QED
  BY <1>1, <1>2 DEF IsMessage, Sizes

LEMMA InHand ==
  ASSUME NEW t \in Movers, pc[t] # "idle", TypeOK, MessagesInHand
  PROVE  /\ msg[t] \in Messages /\ Src(t) \in Modules \cup {Host} /\ Dst(t) \in Modules
         /\ Dst(t) # Host /\ msg[t].len \in Sizes /\ msg[t].locations \in Seq(Location)
         /\ location[t] \in Seq(Resolutions)
         /\ Scanned(t) \in Nat /\ Scanned(t) <= Len(msg[t].locations)
         /\ DOMAIN location[t] = 1..Scanned(t)
         /\ Len(msg[t].locations) \in Nat
         /\ \A i \in 1..Scanned(t) : /\ location[t][i] \in Resolutions
                                     /\ msg[t].locations[i] \in Location
<1>1. /\ msg[t] \in Messages /\ location[t] \in Seq(Resolutions)
      /\ Scanned(t) <= Len(msg[t].locations)
  BY DEF MessagesInHand, TypeOK
<1>2. /\ msg[t].src \in Modules \cup {Host} /\ msg[t].dst \in Modules /\ msg[t].dst # Host
      /\ msg[t].len \in Sizes /\ msg[t].locations \in Seq(Location)
  BY <1>1, MessageFields
<1>3. /\ Scanned(t) \in Nat /\ DOMAIN location[t] = 1..Scanned(t)
      /\ \A i \in DOMAIN location[t] : location[t][i] \in Resolutions
  BY <1>1, ListFields DEF Scanned
<1>4. /\ Len(msg[t].locations) \in Nat
      /\ DOMAIN msg[t].locations = 1..Len(msg[t].locations)
      /\ \A i \in DOMAIN msg[t].locations : msg[t].locations[i] \in Location
  BY <1>2, ListFields
<1>5. QED
  BY <1>1, <1>2, <1>3, <1>4 DEF Src, Dst

LEMMA LocationFields ==
  ASSUME NEW d \in Location
  PROVE  d.form \in Forms /\ d.text \in Nat /\ d.copy_size \in Sizes /\ d.src_addr \in Sizes
  BY DEF Location, Sizes

LEMMA ResolutionFields ==
  ASSUME NEW l \in Resolutions
  PROVE  /\ l.copy_size \in Nat /\ l.copy_size <= SizeMax
         /\ l.src_ptr \in Nat /\ l.src_ptr <= SizeMax /\ l.inside \in BOOLEAN
         /\ l.dst_addr \in Nat /\ l.dst_addr <= SizeMax /\ l.copy_payload \in BOOLEAN
         /\ l.payload_offset \in Nat /\ l.payload_offset <= SizeMax
<1>1. SizeMax \in Nat
  BY AddressesTyped
<1>2. QED
  BY <1>1 DEF Resolutions, Sizes

(* Where a location's bytes are is what the sender means by its address,   *)
(* and what is found inside the sender's memory lies in its reservation.   *)
LEMMA SourceResolved ==
  ASSUME NEW m \in Modules \cup {Host}, NEW addr \in Sizes, NEW n \in Sizes,
         NEW extent \in 0..Reserve, NEW r, r = Resolved(m, addr, n, extent), r.ok
  PROVE  /\ r.ptr \in Sizes /\ r.inside \in BOOLEAN /\ r.ptr = Meaning(m, addr)
         /\ r.inside => /\ ~IsNative(m) /\ Inside(n, addr, Reserve)
                        /\ r.ptr = Base[m] + addr
<1>1. /\ HostAddressBit \in Nat /\ SizeMax \in Nat /\ SizeMax = 2 * HostAddressBit - 1
      /\ Reserve < HostAddressBit /\ Reserve \in Nat
      /\ \A k \in Modules : /\ Base[k] \in Nat /\ Base[k] > 0
                            /\ Base[k] + Reserve < HostAddressBit
  BY AddressesTyped, SizesTyped
<1>2. addr \in Nat /\ n \in Nat /\ addr <= SizeMax /\ extent \in Nat /\ extent <= Reserve
  BY <1>1 DEF Sizes
<1>3. m \notin Modules => IsNative(m)
  BY DEF IsNative
<1>4. CASE IsNative(m)
  BY <1>1, <1>2, <1>4 DEF Resolved, Meaning, Sizes
<1>5. CASE ~IsNative(m) /\ Inside(n, addr, extent)
  <2>1. r.ptr = Base[m] + addr /\ r.inside = TRUE
    BY <1>5 DEF Resolved
  <2>2. addr <= Reserve /\ n <= Reserve - addr
    BY <1>1, <1>2, <1>5 DEF Inside
  <2>3. ~HasBit(addr)
    BY <1>1, <1>2, <2>2 DEF HasBit
  <2>4. Base[m] \in Nat /\ Base[m] + Reserve < HostAddressBit
    BY <1>1, <1>3, <1>5
  <2>5. r.ptr \in Sizes
    BY <1>1, <1>2, <2>1, <2>2, <2>4 DEF Sizes
  <2>6. QED
    BY <1>5, <2>1, <2>2, <2>3, <2>5 DEF Inside, Meaning
<1>6. CASE ~IsNative(m) /\ ~Inside(n, addr, extent)
  <2>1. r.ptr = addr - HostAddressBit /\ r.inside = FALSE
        /\ Type(m) = "translated64" /\ HasBit(addr)
    BY <1>6 DEF Resolved
  <2>2. r.ptr \in Sizes
    BY <1>1, <1>2, <2>1 DEF Sizes, HasBit
  <2>3. QED
    BY <1>6, <2>1, <2>2 DEF Meaning
<1>7. QED
  BY <1>4, <1>5, <1>6

(* How a resolved location is written for the receiver.                    *)
LEMMA LocationPlaced ==
  ASSUME NEW t \in Movers, NEW l \in Resolutions, NEW src_addr \in Sizes,
         Encodable(t, l, src_addr), Dst(t) \in Modules, Dst(t) # Host,
         NEW p, p = Placed(t, l, src_addr)
  PROVE  /\ p \in Resolutions /\ p.copy_size = l.copy_size /\ p.src_ptr = l.src_ptr
         /\ p.inside = l.inside /\ p.payload_offset = l.payload_offset
         /\ \/ Keeps(t, l, src_addr) /\ p.dst_addr = src_addr
                 /\ p.copy_payload = l.copy_payload
            \/ HostAccess(Dst(t)) /\ Meaning(Dst(t), p.dst_addr) = l.src_ptr
                 /\ p.copy_payload = l.copy_payload
            \/ ~HostAccess(Dst(t)) /\ p.copy_payload
<1>1. /\ HostAddressBit \in Nat /\ SizeMax \in Nat /\ SizeMax = 2 * HostAddressBit - 1
  BY AddressesTyped
<1>2. CASE Keeps(t, l, src_addr)
  <2>1. p = [l EXCEPT !.dst_addr = src_addr]
    BY <1>2 DEF Placed
  <2>2. QED
    BY <1>2, <2>1 DEF Resolutions
<1>3. CASE ~Keeps(t, l, src_addr) /\ HostAccess(Dst(t))
  <2> DEFINE a == Tagged(Dst(t), l.src_ptr)
  <2>1. p = [l EXCEPT !.dst_addr = a]
    BY <1>3 DEF Placed
  <2>2. a \in Sizes /\ Meaning(Dst(t), a) = l.src_ptr
    <3>1. l.src_ptr \in Nat /\ l.src_ptr <= SizeMax
      BY ResolutionFields
    <3>2. CASE Type(Dst(t)) = "native"
      BY <1>1, <3>1, <3>2 DEF Tagged, Sizes, Meaning, IsNative
    <3>3. CASE Type(Dst(t)) = "translated64"
      <4>1. a = l.src_ptr + HostAddressBit
        BY <3>3 DEF Tagged
      <4>2. ~HasBit(l.src_ptr)
        BY <1>3, <3>3 DEF Encodable
      <4>3. HasBit(a) /\ a \in Sizes /\ a - HostAddressBit = l.src_ptr
        BY <1>1, <3>1, <4>1, <4>2 DEF HasBit, Sizes
      <4>4. ~IsNative(Dst(t))
        BY <3>3 DEF IsNative
      <4>5. QED
        BY <3>3, <4>3, <4>4 DEF Meaning
    <3>4. QED
      BY <1>3, <3>2, <3>3 DEF HostAccess
  <2> HIDE DEF a
  <2>3. /\ p \in Resolutions /\ p.copy_size = l.copy_size /\ p.src_ptr = l.src_ptr
        /\ p.inside = l.inside /\ p.payload_offset = l.payload_offset
        /\ p.dst_addr = a /\ p.copy_payload = l.copy_payload
    BY <2>1, <2>2 DEF Resolutions
  <2>4. QED
    BY <1>3, <2>2, <2>3
<1>4. CASE ~Keeps(t, l, src_addr) /\ ~HostAccess(Dst(t))
  <2>1. p = [l EXCEPT !.copy_payload = TRUE]
    BY <1>4 DEF Placed
  <2>2. QED
    BY <1>4, <2>1 DEF Resolutions
<1>5. QED
  BY <1>2, <1>3, <1>4

-----------------------------------------------------------------------------
(* Where threads are.                                                      *)

KindsKept == \A m \in Modules : ctx'[m].type = ctx[m].type

LEMMA AskedFor ==
  ASSUME NEW t \in Threads, NEW m \in Modules \cup {Host}, NEW label \in Labels \ Asking,
         LocalTypes, AskThen(t, m, label)
  PROVE  /\ At(t)' = label /\ pc'[t] \in {label, "sample", "read"}
         /\ pc'[t] # label =>
              /\ m \in Modules /\ ~IsNative(m) /\ on'[t] = m /\ ret'[t] = label
              /\ Type(m) \in Translated => pc'[t] = "read"
              /\ current' = [current EXCEPT ![t] = {ctx[m].active}]
         /\ pc'[t] = label => IsNative(m) /\ UNCHANGED <<on, ret, current>>
<1>1. m = Host => IsNative(m)
  BY DEF IsNative
<1>2. label \notin {"sample", "read"}
  BY DEF Asking
<1>3. CASE IsNative(m)
  BY <1>3 DEF AskThen, Goto, Stay, LocalTypes, At
<1>4. CASE ~IsNative(m)
  BY <1>1, <1>2, <1>4 DEF AskThen, Ask, LocalTypes, At, Asking
<1>5. QED
  BY <1>3, <1>4

ThreadPlaced(t) ==
  /\ pc[t] \in Shrinking =>
       on[t] \in Modules /\ ret[t] = IF t \in Movers THEN "refused" ELSE "idle"
  /\ pc[t] \in Asking =>
       /\ on[t] \in Modules /\ Type(on[t]) # "native"
       /\ IF t \notin Movers THEN ret[t] = "idle"
          ELSE \/ ret[t] \in {"measure", "resolve"} /\ on[t] = Src(t)
               \/ ret[t] \in {"place", "validate"} /\ on[t] = Dst(t)
  /\ pc[t] \in Asking \ {"read"} => Type(on[t]) \notin Translated
  /\ pc[t] = "mark" => Type(on[t]) = "shared"
  /\ pc[t] = "shrunk" => Type(on[t]) \in {"ordinary", "shared"}
  /\ t \notin Movers => pc[t] \in Asking \cup Shrinking \cup {"idle"}

LEMMA ThreadStaysPlaced ==
  ASSUME NEW u \in Threads, ThreadPlaced(u), KindsKept,
         pc'[u] = pc[u] /\ ret'[u] = ret[u] /\ on'[u] = on[u],
         u \in Movers => msg'[u] = msg[u]
  PROVE  ThreadPlaced(u)'
<1>1. pc[u] \in Asking \cup Shrinking => on[u] \in Modules
  BY DEF ThreadPlaced
<1>2. pc[u] \in Asking \cup Shrinking => Type(on[u])' = Type(on[u])
  BY <1>1 DEF KindsKept, Type
<1>3. u \in Movers => Src(u)' = Src(u) /\ Dst(u)' = Dst(u)
  BY DEF Src, Dst
<1>4. QED
  BY <1>2, <1>3 DEF ThreadPlaced, Asking, Shrinking

LEMMA ThreadStepPlaced ==
  ASSUME NEW t \in Threads, StepOf(t), TypeOK, ThreadsPlaced, MessagesInHand, KindsKept
  PROVE  ThreadPlaced(t)'
<1> DEFINE Goal == ThreadPlaced(t)'
<1>1. ThreadPlaced(t) /\ LocalTypes
  BY DEF ThreadsPlaced, ThreadPlaced, TypeOK, LocalTypes
<1>2. \A m \in Modules : Type(m)' = Type(m)
  BY DEF KindsKept, Type
<1>3. UNCHANGED <<pc, ret, on, msg>> => Goal
  BY <1>1, ThreadStaysPlaced
<1>4. t \in Movers => t \notin Guests \cup Readers
  BY MemoryAssumption
<1>5. t \in Movers => msg \in [Movers -> Messages \cup {NoMessage}]
  BY DEF TypeOK
<1>6. ASSUME NEW m \in Modules, NEW next, NEW b, FreeBlock(t, m, b, next),
             next = IF t \in Movers THEN "refused" ELSE "idle"
      PROVE  Goal
  BY <1>1, <1>6 DEF FreeBlock, LocalTypes, ThreadPlaced, Shrinking, Asking
<1>7. pc[t] \in Shrinking /\ pc'[t] = ret[t] => Goal
  BY <1>1 DEF ThreadPlaced, Shrinking, Asking
<1>8. ASSUME t \in Movers, pc'[t] \notin Asking \cup Shrinking
      PROVE  Goal
  BY <1>8 DEF ThreadPlaced, Shrinking, Asking
<1>9. ASSUME t \in Movers, pc[t] # "idle", NEW label, NEW m, AskThen(t, m, label), msg' = msg,
             \/ label = "resolve" /\ m = Src(t)
             \/ label \in {"place", "validate"} /\ m = Dst(t)
      PROVE  Goal
  <2>1. m \in Modules \cup {Host} /\ label \in Labels \ Asking
    BY <1>9, InHand DEF Labels, Asking
  <2>2. pc'[t] = label => Goal
    BY <1>8, <1>9 DEF Asking, Shrinking
  <2>3. pc'[t] # label => /\ m \in Modules /\ ~IsNative(m) /\ on'[t] = m /\ ret'[t] = label
                          /\ Type(m) \in Translated => pc'[t] = "read"
                          /\ pc'[t] \in {"sample", "read"}
    BY <1>1, <1>9, <2>1, AskedFor
  <2>4. Src(t)' = Src(t) /\ Dst(t)' = Dst(t)
    BY <1>9 DEF Src, Dst
  <2>5. m \in Modules /\ ~IsNative(m) => m # Host /\ Type(m) # "native"
    BY TransferAssumption DEF IsNative
  <2>6. QED
    BY <1>2, <1>9, <2>2, <2>3, <2>4, <2>5 DEF ThreadPlaced, Asking, Shrinking
<1> SUFFICES Goal
  OBVIOUS
<1> HIDE DEF Goal
<1>10. CASE (t \in Guests /\ GuestAllocates(t)) /\ UNCHANGED msg
  BY <1>3, <1>10 DEF GuestAllocates
<1>11. CASE t \in Guests /\ GuestFrees(t)
  BY <1>4, <1>6, <1>11 DEF GuestFrees
<1>12. CASE KeepTail(t) \/ ShrinkTranslated(t) \/ RefreshShrunk(t)
  <2>1. pc[t] \in Shrinking /\ pc'[t] = ret[t]
    BY <1>1, <1>12 DEF KeepTail, ShrinkTranslated, RefreshShrunk, Shrinking, LeaveAllocator,
                       Return, LocalTypes
  <2>2. QED
    BY <1>7, <2>1
<1>13. CASE ShrinkWasmtime(t) /\ UNCHANGED msg
  <2>1. on[t] \in Modules /\ Type(on[t])' = Type(on[t])
    BY <1>1, <1>2, <1>13 DEF ShrinkWasmtime, ThreadPlaced, Shrinking
  <2>2. QED
    BY <1>1, <1>13, <2>1 DEF ShrinkWasmtime, LocalTypes, Entered, ThreadPlaced, Shrinking,
                             Asking, Goal
<1>14. CASE MarkReclaimable(t) /\ UNCHANGED msg
  <2>1. on[t] \in Modules /\ Type(on[t])' = Type(on[t])
    BY <1>1, <1>2, <1>14 DEF MarkReclaimable, ThreadPlaced, Shrinking
  <2>2. QED
    BY <1>1, <1>14, <2>1 DEF MarkReclaimable, LocalTypes, ThreadPlaced, Shrinking, Asking, Goal
<1>15. CASE (SampleSize(t) \/ PublishSize(t)) /\ UNCHANGED msg
  <2>1. on[t] \in Modules /\ Type(on[t])' = Type(on[t])
    BY <1>1, <1>2, <1>15 DEF SampleSize, PublishSize, ThreadPlaced, Asking
  <2>2. Src(t)' = Src(t) /\ Dst(t)' = Dst(t)
    BY <1>15 DEF Src, Dst
  <2>3. pc[t] \in Asking \ {"read"} /\ pc'[t] \in Asking /\ on' = on /\ ret' = ret
    BY <1>1, <1>15 DEF SampleSize, PublishSize, LocalTypes, Asking
  <2>4. QED
    BY <1>1, <2>1, <2>2, <2>3 DEF ThreadPlaced, Shrinking, Asking, Goal
<1>16. CASE ReadSize(t)
  <2>1. pc[t] = "read" /\ pc'[t] = ret[t]
    BY <1>1, <1>16 DEF ReadSize, Return, LocalTypes
  <2>2. QED
    BY <1>1, <2>1 DEF ThreadPlaced, Shrinking, Asking, Goal
<1>17. CASE t \in Readers /\ BeginRead(t)
  <2>1. PICK m \in Modules : Type(m) \notin Translated \cup {"native"} /\ Ask(t, m, "idle")
    BY <1>17 DEF BeginRead
  <2>2. on'[t] = m /\ pc'[t] = "sample" /\ ret'[t] = "idle"
    BY <1>1, <2>1 DEF Ask, LocalTypes
  <2>3. QED
    BY <1>2, <1>4, <1>17, <2>1, <2>2 DEF ThreadPlaced, Shrinking, Asking, Goal
<1>18. CASE t \in Movers /\ BeginTransfer(t)
  <2>1. PICK m \in Messages : msg' = [msg EXCEPT ![t] = m] /\ AskThen(t, m.src, "measure")
    BY <1>18 DEF BeginTransfer
  <2>2. Src(t)' = m.src /\ m.src \in Modules \cup {Host}
    BY <1>5, <1>18, <2>1, MessageFields DEF Src
  <2>3. "measure" \in Labels \ Asking
    BY DEF Labels, Asking
  <2>4. pc'[t] = "measure" \/ (pc'[t] \in {"sample", "read"} /\ m.src \in Modules
          /\ ~IsNative(m.src) /\ on'[t] = m.src /\ ret'[t] = "measure"
          /\ (Type(m.src) \in Translated => pc'[t] = "read"))
    BY <1>1, <2>1, <2>2, <2>3, AskedFor
  <2>5. m.src \in Modules /\ ~IsNative(m.src) => Type(m.src) # "native"
    BY TransferAssumption DEF IsNative
  <2>6. CASE pc'[t] = "measure"
    BY <1>8, <1>18, <2>6 DEF Asking, Shrinking
  <2>7. QED
    BY <1>2, <1>18, <2>2, <2>4, <2>5, <2>6 DEF ThreadPlaced, Shrinking, Asking, Goal
<1>19. CASE t \in Movers /\ Scan(t)
  <2>1. CASE UNCHANGED <<pc, outcome>> /\ Stay
    <3>1. UNCHANGED <<pc, ret, on, msg>>
      BY <1>19, <2>1 DEF Scan, Stay
    <3>2. QED
      BY <1>3, <3>1
  <2>2. CASE AskThen(t, Src(t), "resolve")
    <3>1. t \in Movers /\ pc[t] # "idle" /\ msg' = msg
      BY <1>19 DEF Scan
    <3>2. QED
      BY <1>9, <2>2, <3>1
  <2>3. CASE \E reason \in Reasons : Refuse(t, reason)
    BY <1>1, <1>8, <1>19, <2>3 DEF Refuse, Goto, Asking, Shrinking, LocalTypes
  <2>4. {"message", "metadata"} \subseteq Reasons
    BY DEF Reasons
  <2>5. Refuse(t, "message") \/ Refuse(t, "metadata") => \E reason \in Reasons : Refuse(t, reason)
    BY <2>4
  <2>6. QED
    BY <1>19, <2>1, <2>2, <2>3, <2>5 DEF Scan
<1>20. CASE t \in Movers /\ Resolve(t)
  BY <1>1, <1>8, <1>9, <1>20
  DEF Resolve, Stay, Refuse, Goto, Asking, Shrinking, LocalTypes
<1>21. CASE t \in Movers /\ CheckSize(t)
  BY <1>9, <1>21 DEF CheckSize, AskAfterCall, transfer_vars
<1>22. CASE t \in Movers /\ FreeTransferred(t)
  <2>1. CASE \E b \in live[Dst(t)] : b.owner = t /\ FreeBlock(t, Dst(t), b, "refused")
    <3>1. Dst(t) \in Modules
      BY <1>22, InHand DEF FreeTransferred
    <3>2. QED
      BY <1>6, <1>22, <2>1, <3>1
  <2>2. CASE Goto(t, "refused")
    BY <1>1, <1>8, <1>22, <2>2 DEF Goto, LocalTypes, Asking, Shrinking
  <2>3. QED
    BY <1>22, <2>1, <2>2 DEF FreeTransferred
<1>23. CASE \/ (t \in Movers /\ Measure(t))
            \/ (t \in Movers /\ PlaceLocation(t))
            \/ (t \in Movers /\ ReserveText(t))
            \/ (t \in Movers /\ AlignText(t))
            \/ (t \in Movers /\ PackPayload(t))
            \/ (t \in Movers /\ AllocateBlock(t))
            \/ (t \in Movers /\ AllocateBadBlock(t))
            \/ (t \in Movers /\ ValidateBlock(t))
            \/ (t \in Movers /\ RewriteText(t))
            \/ (t \in Movers /\ CopyPayloads(t))
            \/ (t \in Movers /\ EndTransfer(t))
  BY <1>1, <1>3, <1>8, <1>23
  DEF Measure, PlaceLocation, ReserveText, AlignText, PackPayload,
      AllocateBlock, AllocateBadBlock, ValidateBlock, RewriteText,
      CopyPayloads, EndTransfer, Goto,       Refuse, GiveBack, Stay,
      LocalTypes, Asking, Shrinking
<1>24. CASE MemoryStepOf(t) /\ UNCHANGED transfer_vars
  BY <1>10, <1>11, <1>12, <1>13, <1>14, <1>15, <1>16, <1>17, <1>24
  DEF MemoryStepOf, transfer_vars
<1>25. CASE t \in Movers /\ TransferStep(t)
  BY <1>18, <1>19, <1>20, <1>21, <1>22, <1>23, <1>25 DEF TransferStep
<1>26. QED
  BY <1>24, <1>25 DEF StepOf

LEMMA PlacedStep ==
  ASSUME NEW t \in Threads, StepOf(t), TypeOK, ThreadsPlaced, MessagesInHand, KindsKept
  PROVE  ThreadsPlaced'
<1>1. OthersKept(t)
  BY OthersStep
<1>2. \A u \in Threads : ThreadPlaced(u)
  BY DEF ThreadsPlaced, ThreadPlaced
<1>3. \A u \in Threads \ {t} : ThreadPlaced(u)'
  BY <1>1, <1>2, ThreadStaysPlaced DEF OthersKept
<1>4. ThreadPlaced(t)'
  BY ThreadStepPlaced
<1>5. \A u \in Threads : ThreadPlaced(u)'
  BY <1>3, <1>4
<1>6. QED
  BY <1>5 DEF ThreadsPlaced, ThreadPlaced

-----------------------------------------------------------------------------
(* What the steps of a transfer do to its locations.                       *)

LEMMA ScanEffect ==
  ASSUME NEW t \in Movers, Scan(t), TypeOK, MessagesInHand
  PROVE  /\ Scanned(t) < Len(msg[t].locations) /\ Described(t) \in Location
         /\ \/ /\ location'[t] = Append(location[t], Unresolved) /\ At(t)' = "scan"
               /\ Described(t).form # "numeric" /\ outcome' = outcome
            \/ /\ location' = location /\ At(t)' = "refused"
               /\ outcome'[t] \in {"message", "metadata"}
            \/ /\ location' = location /\ At(t)' = "resolve"
               /\ Described(t).form = "numeric" /\ outcome' = outcome
<1>1. /\ pc[t] = "scan" /\ LocalTypes /\ t \in Threads /\ outcome \in [Movers -> Reasons]
      /\ location \in [Movers -> Seq(Resolutions)] /\ Scanned(t) < Len(msg[t].locations)
  BY DEF Scan, TypeOK, LocalTypes, Threads
<1>2. /\ Src(t) \in Modules \cup {Host} /\ Scanned(t) \in Nat
      /\ Len(msg[t].locations) \in Nat /\ msg[t].locations \in Seq(Location)
  BY <1>1, InHand
<1>3. Described(t) \in Location
  <2> DEFINE k == Scanned(t) + 1
  <2>1. k \in 1..Len(msg[t].locations)
    BY <1>1, <1>2
  <2> HIDE DEF k
  <2>2. msg[t].locations[k] \in Location
    BY <1>2, <2>1, ListFields
  <2>3. QED
    BY <2>2 DEF Described, k
<1>4. CASE /\ Described(t).form = "wordy" /\ UNCHANGED <<pc, outcome>> /\ Stay
           /\ location' = [location EXCEPT ![t] = Append(@, Unresolved)]
  BY <1>1, <1>3, <1>4 DEF At, Asking
<1>5. CASE location' = location /\ (Refuse(t, "message") \/ Refuse(t, "metadata"))
  BY <1>1, <1>3, <1>5 DEF At, Asking, Refuse, Goto, LocalTypes
<1>6. CASE /\ AskThen(t, Src(t), "resolve") /\ UNCHANGED <<location, outcome>>
           /\ Described(t).form = "numeric"
  <2>1. "resolve" \in Labels \ Asking
    BY DEF Labels, Asking
  <2>2. At(t)' = "resolve"
    BY <1>1, <1>2, <1>6, <2>1, AskedFor
  <2>3. QED
    BY <1>1, <1>3, <1>6, <2>2
<1>7. QED
  BY <1>4, <1>5, <1>6 DEF Scan

LEMMA ResolveEffect ==
  ASSUME NEW t \in Movers, Resolve(t), TypeOK, MessagesInHand
  PROVE  LET d == Described(t)
         IN  /\ Scanned(t) < Len(msg[t].locations) /\ d \in Location /\ d.form = "numeric"
             /\ \/ location' = location /\ At(t)' = "refused" /\ outcome'[t] = "source"
                \/ \E l \in Resolutions :
                     /\ location'[t] = Append(location[t], l) /\ outcome' = outcome
                     /\ l.copy_size = d.copy_size /\ ~l.copy_payload /\ l.payload_offset = 0
                     /\ l.src_ptr = Meaning(Src(t), d.src_addr)
                     /\ l.inside => /\ ~IsNative(Src(t))
                                    /\ Inside(d.copy_size, d.src_addr, Reserve)
                                    /\ l.src_ptr = Base[Src(t)] + d.src_addr
                     /\ At(t)' = IF d.copy_size = 0 THEN "reserve" ELSE "place"
<1> DEFINE d == Described(t)
           r == Resolved(Src(t), d.src_addr, d.copy_size, size[t])
           l == [Unresolved EXCEPT !.copy_size = d.copy_size, !.src_ptr = r.ptr,
                                   !.inside = r.inside]
<1>1. /\ pc[t] = "resolve" /\ LocalTypes /\ t \in Threads /\ outcome \in [Movers -> Reasons]
      /\ location \in [Movers -> Seq(Resolutions)] /\ size[t] \in 0..Reserve
  BY DEF Resolve, TypeOK, LocalTypes, Threads
<1>2. Scanned(t) < Len(msg[t].locations) /\ d.form = "numeric"
  BY <1>1 DEF MessagesInHand, At, Asking
<1>3. /\ Src(t) \in Modules \cup {Host} /\ Dst(t) \in Modules /\ Scanned(t) \in Nat
      /\ Len(msg[t].locations) \in Nat /\ msg[t].locations \in Seq(Location)
  BY <1>1, InHand
<1>4. d \in Location
  <2> DEFINE k == Scanned(t) + 1
  <2>1. k \in 1..Len(msg[t].locations)
    BY <1>2, <1>3
  <2> HIDE DEF k
  <2>2. msg[t].locations[k] \in Location
    BY <1>3, <2>1, ListFields
  <2>3. QED
    BY <2>2 DEF Described, k
<1>5. d.copy_size \in Sizes /\ d.src_addr \in Sizes
  <2> HIDE DEF d
  <2>1. QED
    BY <1>4, LocationFields
<1>6. CASE location' = location /\ Refuse(t, "source")
  BY <1>1, <1>2, <1>4, <1>6 DEF At, Asking, Refuse, Goto, LocalTypes
<1>7. CASE /\ r.ok /\ location' = [location EXCEPT ![t] = Append(@, l)] /\ UNCHANGED outcome
           /\ IF d.copy_size = 0 THEN Goto(t, "reserve") /\ Stay
                                 ELSE AskThen(t, Dst(t), "place")
  <2>1. /\ r.ptr \in Sizes /\ r.inside \in BOOLEAN /\ r.ptr = Meaning(Src(t), d.src_addr)
        /\ r.inside => /\ ~IsNative(Src(t)) /\ Inside(d.copy_size, d.src_addr, Reserve)
                       /\ r.ptr = Base[Src(t)] + d.src_addr
    <3> HIDE DEF d, l
    <3> DEFINE q == r
               m == Src(t)
               addr == d.src_addr
               n == d.copy_size
               extent == size[t]
    <3>1. /\ q = Resolved(m, addr, n, extent) /\ q.ok /\ m \in Modules \cup {Host}
          /\ addr \in Sizes /\ n \in Sizes /\ extent \in 0..Reserve
      BY <1>1, <1>3, <1>5, <1>7
    <3> HIDE DEF q, m, addr, n, extent
    <3>2. /\ q.ptr \in Sizes /\ q.inside \in BOOLEAN /\ q.ptr = Meaning(m, addr)
          /\ q.inside => ~IsNative(m) /\ Inside(n, addr, Reserve) /\ q.ptr = Base[m] + addr
      BY <3>1, SourceResolved
    <3>3. QED
      BY <3>2 DEF q, m, addr, n, extent
  <2> HIDE DEF d, r
  <2>2. 0 \in Sizes
    BY AddressesTyped DEF Sizes
  <2>3. /\ l \in Resolutions /\ l.copy_size = d.copy_size /\ l.src_ptr = r.ptr
        /\ l.inside = r.inside /\ ~l.copy_payload /\ l.payload_offset = 0
    BY <1>5, <2>1, <2>2 DEF Resolutions, Unresolved
  <2> HIDE DEF l
  <2>4. "place" \in Labels \ Asking /\ "reserve" \in Labels \ Asking
    BY DEF Labels, Asking
  <2>5. CASE d.copy_size = 0
    <3>1. At(t)' = "reserve"
      BY <1>1, <1>7, <2>5 DEF Goto, At, Asking, LocalTypes
    <3>2. QED
      BY <1>1, <1>2, <1>4, <1>7, <2>1, <2>3, <2>5, <3>1 DEF d
  <2>6. CASE d.copy_size # 0
    <3>1. At(t)' = "place"
      BY <1>1, <1>3, <1>7, <2>4, <2>6, AskedFor
    <3>2. QED
      BY <1>1, <1>2, <1>4, <1>7, <2>1, <2>3, <2>6, <3>1 DEF d
  <2>7. QED
    BY <2>5, <2>6
<1>8. QED
  <2>1. IF r.ok
        THEN /\ location' = [location EXCEPT ![t] = Append(@, l)]
             /\ IF d.copy_size = 0 THEN Goto(t, "reserve") /\ Stay
                                   ELSE AskThen(t, Dst(t), "place")
             /\ UNCHANGED outcome
        ELSE Refuse(t, "source") /\ UNCHANGED location
    BY DEF Resolve
  <2> HIDE DEF r, l
  <2>2. QED
    BY <1>6, <1>7, <2>1

LEMMA PlaceEffect ==
  ASSUME NEW t \in Movers, PlaceLocation(t), TypeOK, MessagesInHand
  PROVE  LET k == Scanned(t)
             l == location[t][k]
             d == msg[t].locations[k]
         IN  /\ k \in DOMAIN location[t] /\ k \in Nat /\ l \in Resolutions /\ d \in Location
             /\ \/ location' = location /\ At(t)' = "refused" /\ outcome'[t] = "source"
                \/ \E p \in Resolutions :
                     /\ location'[t] = [location[t] EXCEPT ![k] = p] /\ outcome' = outcome
                     /\ p.copy_size = l.copy_size /\ p.src_ptr = l.src_ptr
                     /\ p.inside = l.inside /\ p.payload_offset = l.payload_offset
                     /\ \/ Keeps(t, l, d.src_addr) /\ p.dst_addr = d.src_addr
                             /\ p.copy_payload = l.copy_payload
                        \/ HostAccess(Dst(t)) /\ Meaning(Dst(t), p.dst_addr) = l.src_ptr
                             /\ p.copy_payload = l.copy_payload
                        \/ ~HostAccess(Dst(t)) /\ p.copy_payload
                     /\ At(t)' = "reserve"
<1> DEFINE k == Scanned(t)
           l == location[t][k]
           d == msg[t].locations[k]
           p == Placed(t, l, d.src_addr)
<1>1. /\ pc[t] = "place" /\ LocalTypes /\ t \in Threads /\ outcome \in [Movers -> Reasons]
      /\ location \in [Movers -> Seq(Resolutions)]
  BY DEF PlaceLocation, TypeOK, LocalTypes, Threads
<1>2. k > 0
  BY <1>1 DEF MessagesInHand, At, Asking
<1>3. /\ Dst(t) \in Modules /\ Dst(t) # Host /\ k \in Nat /\ DOMAIN location[t] = 1..k
      /\ \A i \in 1..k : location[t][i] \in Resolutions /\ msg[t].locations[i] \in Location
  BY <1>1, InHand
<1> HIDE DEF k
<1>4. k \in 1..k
  BY <1>2, <1>3
<1>5. l \in Resolutions /\ d \in Location
  BY <1>3, <1>4
<1>6. CASE location' = location /\ Refuse(t, "source")
  BY <1>1, <1>3, <1>4, <1>5, <1>6 DEF At, Asking, Refuse, Goto, LocalTypes, k
<1>7. CASE /\ Encodable(t, l, d.src_addr) /\ Goto(t, "reserve") /\ UNCHANGED outcome
           /\ location' = [location EXCEPT ![t][k] = p]
  <2>1. At(t)' = "reserve"
    BY <1>1, <1>7 DEF Goto, At, Asking, LocalTypes
  <2>2. location'[t] = [location[t] EXCEPT ![k] = p]
    BY <1>1, <1>7
  <2>3. d.src_addr \in Sizes
    BY <1>5, LocationFields
  <2> DEFINE q == p
  <2>4. q = Placed(t, l, d.src_addr)
    OBVIOUS
  <2> HIDE DEF q, l, d
  <2>5. /\ q \in Resolutions /\ q.copy_size = l.copy_size /\ q.src_ptr = l.src_ptr
        /\ q.inside = l.inside /\ q.payload_offset = l.payload_offset
        /\ \/ Keeps(t, l, d.src_addr) /\ q.dst_addr = d.src_addr
                /\ q.copy_payload = l.copy_payload
           \/ HostAccess(Dst(t)) /\ Meaning(Dst(t), q.dst_addr) = l.src_ptr
                /\ q.copy_payload = l.copy_payload
           \/ ~HostAccess(Dst(t)) /\ q.copy_payload
    BY <1>3, <1>5, <1>7, <2>3, <2>4, LocationPlaced
  <2>6. location'[t] = [location[t] EXCEPT ![k] = q]
    BY <2>2, <2>4
  <2>7. QED
    BY <1>3, <1>4, <1>5, <1>7, <2>1, <2>5, <2>6 DEF k, l, d
<1>8. QED
  <2>1. IF Encodable(t, l, d.src_addr)
        THEN /\ location' = [location EXCEPT ![t][k] = p] /\ Goto(t, "reserve")
             /\ UNCHANGED outcome
        ELSE Refuse(t, "source") /\ UNCHANGED location
    BY DEF PlaceLocation, k
  <2> HIDE DEF l, d, p
  <2>2. QED
    BY <1>6, <1>7, <2>1

LEMMA SmallRest ==
  ASSUME NEW n \in Nat, NEW k \in Nat, k <= n
  PROVE  k % (n + 1) = k
<1> DEFINE a == n + 1
           q == k \div a
           r == k % a
<1>1. a \in Nat \ {0} /\ k < a
  OBVIOUS
<1> HIDE DEF a
<1>2. q \in Nat /\ r \in 0..(a - 1) /\ k = a * q + r /\ a * q \in Nat
  BY <1>1, QuotientAndRest
<1> HIDE DEF q, r
<1>3. q = 0
  <2>1. CASE q >= 1
    <3>1. a * 1 <= a * q
      BY <1>1, <1>2, <2>1, Monotone
    <3>2. QED
      BY <1>1, <1>2, <3>1
  <2>2. QED
    BY <1>2, <2>1
<1>4. a * q = 0
  BY <1>1, <1>3
<1>5. k = r
  BY <1>1, <1>2, <1>4
<1>6. QED
  BY <1>5 DEF r, a

(* The size of a text that can be aligned.                                 *)
LEMMA SizeAligned ==
  ASSUME NEW n \in Sizes, Alignable(n)
  PROVE  /\ AlignedUp(n) \in Sizes /\ AlignedUp(n) >= n
         /\ AlignedUp(n) % PayloadAlignment = 0
<1>1. SizeMax \in Nat /\ PayloadAlignment \in Nat \ {0}
  BY AddressesTyped
<1>2. n \in Nat /\ n <= SizeMax /\ n <= SizeMax - (PayloadAlignment - 1)
  BY <1>1 DEF Sizes, Alignable
<1>3. /\ AlignedUp(n) \in Nat /\ AlignedUp(n) >= n
      /\ AlignedUp(n) <= n + PayloadAlignment - 1
      /\ AlignedUp(n) % PayloadAlignment = 0
  BY <1>2, PayloadsAligned
<1> DEFINE u == AlignedUp(n)
<1> HIDE DEF u
<1>4. u \in Nat /\ u <= n + PayloadAlignment - 1 => u \in Sizes
  BY <1>1, <1>2 DEF Sizes
<1>5. QED
  BY <1>3, <1>4 DEF u

LEMMA PackEffect ==
  ASSUME NEW t \in Movers, PackPayload(t), TypeOK, MessagesInHand
  PROVE  /\ pc[t] = "pack"
         /\ \/ /\ UNCHANGED <<location, allocation>> /\ At(t)' = "refused"
               /\ outcome'[t] = "space"
            \/ \E i \in Packing(t), p \in Resolutions :
                 /\ i \in DOMAIN location[t]
                 /\ location'[t] = [location[t] EXCEPT ![i] = p]
                 /\ p.copy_size = location[t][i].copy_size
                 /\ p.src_ptr = location[t][i].src_ptr /\ p.inside = location[t][i].inside
                 /\ p.dst_addr = location[t][i].dst_addr /\ p.copy_payload
                 /\ p.payload_offset >= allocation[t]
                 /\ p.payload_offset % PayloadAlignment = 0
                 /\ allocation'[t] = p.payload_offset + p.copy_size
                 /\ allocation'[t] \in Sizes
                 /\ At(t)' = "pack" /\ outcome' = outcome
<1> DEFINE i == Min(Packing(t))
           n == location[t][i].copy_size
           offset == PayloadAt(allocation[t])
           p == [location[t][i] EXCEPT !.payload_offset = offset]
<1>1. /\ pc[t] = "pack" /\ LocalTypes /\ t \in Threads /\ outcome \in [Movers -> Reasons]
      /\ location \in [Movers -> Seq(Resolutions)] /\ allocation \in [Movers -> Sizes]
      /\ allocation[t] \in Sizes
  BY DEF PackPayload, TypeOK, LocalTypes, Threads
<1>2. /\ DOMAIN location[t] = 1..Scanned(t)
      /\ \A j \in DOMAIN location[t] : location[t][j] \in Resolutions
  BY <1>1, InHand
<1>3. i \in Packing(t)
  <2>1. Packing(t) \subseteq Nat /\ Packing(t) # {}
    BY <1>2 DEF Packing, PackPayload
  <2>2. QED
    BY <2>1, LeastChosen
<1>4. /\ i \in DOMAIN location[t] /\ location[t][i] \in Resolutions
      /\ location[t][i].copy_payload
  BY <1>2, <1>3 DEF Packing
<1>5. IF Alignable(allocation[t]) /\ Fits(offset, n)
      THEN /\ location' = [location EXCEPT ![t][i].payload_offset = offset]
           /\ allocation' = [allocation EXCEPT ![t] = (offset + n) % (SizeMax + 1)]
           /\ UNCHANGED <<pc, outcome>> /\ UNCHANGED <<on, ret, current>>
      ELSE Refuse(t, "space") /\ UNCHANGED <<location, allocation>>
  BY DEF PackPayload, Stay
<1> HIDE DEF i
<1>6. n \in Nat
  BY <1>4, ResolutionFields
<1>7. SizeMax \in Nat
  BY AddressesTyped
<1> HIDE DEF n, offset
<1>8. CASE Refuse(t, "space") /\ UNCHANGED <<location, allocation>>
  BY <1>1, <1>8 DEF At, Asking, Refuse, Goto, LocalTypes
<1>9. CASE /\ Alignable(allocation[t]) /\ Fits(offset, n)
           /\ location' = [location EXCEPT ![t][i].payload_offset = offset]
           /\ allocation' = [allocation EXCEPT ![t] = (offset + n) % (SizeMax + 1)]
           /\ UNCHANGED <<pc, outcome>> /\ UNCHANGED <<on, ret, current>>
  <2>1. /\ offset \in Sizes /\ offset >= allocation[t] /\ offset % PayloadAlignment = 0
    BY <1>1, <1>9, SizeAligned DEF offset, PayloadAt
  <2>2. offset \in Nat /\ offset + n \in Nat /\ offset + n <= SizeMax
    BY <1>6, <1>7, <1>9, <2>1 DEF Sizes, Fits
  <2>3. (offset + n) % (SizeMax + 1) = offset + n
    BY <1>7, <2>2, SmallRest
  <2>4. allocation'[t] = offset + n /\ allocation'[t] \in Sizes
    BY <1>1, <1>7, <1>9, <2>2, <2>3 DEF Sizes
  <2>5. location'[t] = [location[t] EXCEPT ![i] = p]
    BY <1>1, <1>9
  <2>6. /\ p \in Resolutions /\ p.copy_size = location[t][i].copy_size
        /\ p.src_ptr = location[t][i].src_ptr /\ p.inside = location[t][i].inside
        /\ p.dst_addr = location[t][i].dst_addr
        /\ p.copy_payload = location[t][i].copy_payload /\ p.payload_offset = offset
    BY <1>4, <2>1 DEF Resolutions
  <2> HIDE DEF p
  <2>7. At(t)' = "pack"
    BY <1>1, <1>9 DEF At, Asking
  <2>8. allocation'[t] = p.payload_offset + p.copy_size
    BY <2>4, <2>6 DEF n
  <2>9. QED
    BY <1>1, <1>3, <1>4, <1>9, <2>1, <2>4, <2>5, <2>6, <2>7, <2>8
<1>10. QED
  BY <1>5, <1>8, <1>9

LEMMA ValidateEffect ==
  ASSUME NEW t \in Movers, ValidateBlock(t), TypeOK, MessagesInHand
  PROVE  /\ pc[t] = "validate"
         /\ \/ location' = location /\ At(t)' = "free" /\ outcome'[t] = "block"
                 /\ ~(UsableBlock(t) /\ Representable(t))
            \/ /\ At(t)' = "rewrite" /\ outcome' = outcome /\ UsableBlock(t)
               /\ location'[t] \in Seq(Resolutions) /\ Len(location'[t]) = Len(location[t])
               /\ DOMAIN location'[t] = DOMAIN location[t]
               /\ \A i \in DOMAIN location[t] :
                    LET p == location'[t][i]
                        l == location[t][i]
                    IN  /\ p.copy_size = l.copy_size /\ p.src_ptr = l.src_ptr
                        /\ p.inside = l.inside /\ p.copy_payload = l.copy_payload
                        /\ p.payload_offset = l.payload_offset
                        /\ p.dst_addr = IF l.copy_payload THEN block[t] + l.payload_offset
                                        ELSE l.dst_addr
<1> DEFINE r == [i \in DOMAIN location[t] |-> Pointed(location[t][i], block[t])]
<1>1. /\ pc[t] = "validate" /\ LocalTypes /\ t \in Threads /\ outcome \in [Movers -> Reasons]
      /\ location \in [Movers -> Seq(Resolutions)] /\ block[t] \in Sizes
      /\ location[t] \in Seq(Resolutions)
  BY DEF ValidateBlock, TypeOK, LocalTypes, Threads
<1>2. \A j \in DOMAIN location[t] : location[t][j] \in Resolutions
  BY <1>1, ListFields
<1>3. CASE location' = location /\ GiveBack(t, "block") /\ ~(UsableBlock(t) /\ Representable(t))
  BY <1>1, <1>3 DEF At, Asking, GiveBack, Goto, LocalTypes
<1>4. CASE /\ UsableBlock(t) /\ Representable(t) /\ Goto(t, "rewrite") /\ UNCHANGED outcome
           /\ location' = [location EXCEPT ![t] = r]
  <2>1. At(t)' = "rewrite"
    BY <1>1, <1>4 DEF Goto, At, Asking, LocalTypes
  <2>2. location'[t] = r
    BY <1>1, <1>4
  <2>3. ASSUME NEW i \in DOMAIN location[t]
        PROVE  LET p == r[i]
                   l == location[t][i]
               IN  /\ p \in Resolutions
                   /\ p.copy_size = l.copy_size /\ p.src_ptr = l.src_ptr
                   /\ p.inside = l.inside /\ p.copy_payload = l.copy_payload
                   /\ p.payload_offset = l.payload_offset
                   /\ p.dst_addr = IF l.copy_payload THEN block[t] + l.payload_offset
                                   ELSE l.dst_addr
    <3> DEFINE l == location[t][i]
               p == Pointed(l, block[t])
    <3>1. r[i] = p /\ l \in Resolutions
      BY <1>2
    <3>2. l.copy_payload => block[t] <= SizeMax - l.payload_offset
      BY <1>4 DEF Representable
    <3> HIDE DEF r, l
    <3>3. l.payload_offset \in Nat /\ block[t] \in Nat /\ SizeMax \in Nat
      BY <1>1, <3>1, ResolutionFields, AddressesTyped DEF Sizes
    <3>4. l.copy_payload => block[t] + l.payload_offset \in Sizes
      BY <3>2, <3>3 DEF Sizes
    <3>5. CASE l.copy_payload
      <4>1. p = [l EXCEPT !.dst_addr = block[t] + l.payload_offset]
        BY <3>5 DEF Pointed
      <4>2. QED
        BY <3>1, <3>4, <3>5, <4>1 DEF Resolutions, l
    <3>6. CASE ~l.copy_payload
      BY <3>1, <3>6 DEF Pointed, l
    <3>7. QED
      BY <3>5, <3>6
  <2>4. r = [i \in DOMAIN location[t] |-> r[i]] /\ DOMAIN r = DOMAIN location[t]
    OBVIOUS
  <2> HIDE DEF r
  <2>5. \A i \in DOMAIN location[t] : r[i] \in Resolutions
    BY <2>3
  <2>6. r \in Seq(Resolutions) /\ Len(r) = Len(location[t])
    BY <1>1, <2>4, <2>5, ListMapped
  <2>7. QED
    BY <1>1, <1>4, <2>1, <2>2, <2>3, <2>4, <2>6
<1>5. QED
  BY <1>3, <1>4 DEF ValidateBlock

LEMMA AllocateEffect ==
  ASSUME NEW t \in Movers, AllocateBlock(t), TypeOK, MessagesInHand, AllSound
  PROVE  /\ pc[t] = "pack" /\ Packing(t) = {} /\ Dst(t) \in Modules /\ Dst(t) # Host
         /\ \E at \in Nat : /\ at <= Reserve /\ Malloc(t, Dst(t), allocation[t], at)
                            /\ IF at = 0 THEN /\ At(t)' = "refused" /\ outcome'[t] = "malloc"
                                              /\ block' = block
                               ELSE /\ At(t)' = "allocated" /\ outcome' = outcome
                                    /\ block'[t] = BlockAddress(Dst(t), at)
                                    /\ block' = [block EXCEPT ![t] = block'[t]]
                                    /\ block'[t] \in Sizes
<1>1. /\ pc[t] = "pack" /\ LocalTypes /\ t \in Threads /\ outcome \in [Movers -> Reasons]
      /\ block \in [Movers -> Sizes] /\ allocation[t] \in Sizes
  BY DEF AllocateBlock, TypeOK, LocalTypes, Threads
<1>2. Dst(t) \in Modules /\ Dst(t) # Host
  BY <1>1, InHand
<1>3. SizeMax \in Nat /\ SizeMax = 2 * HostAddressBit - 1 /\ HostAddressBit \in Nat
      /\ Reserve < HostAddressBit /\ Reserve \in Nat
      /\ Base[Dst(t)] \in Nat /\ Base[Dst(t)] + Reserve < HostAddressBit
  BY <1>2, AddressesTyped, SizesTyped
<1>4. allocation[t] \in Nat
  BY <1>1, <1>3 DEF Sizes
<1>5. Place(Dst(t), allocation[t]) \in Nat /\ Place(Dst(t), allocation[t]) <= Reserve
  BY <1>2, <1>4, PlaceFound
<1>6. PICK at \in {0, Place(Dst(t), allocation[t])} :
        /\ Malloc(t, Dst(t), allocation[t], at)
        /\ IF at = 0 THEN Refuse(t, "malloc") /\ UNCHANGED block
           ELSE /\ block' = [block EXCEPT ![t] = BlockAddress(Dst(t), at)]
                /\ Goto(t, "allocated") /\ UNCHANGED outcome
  BY DEF AllocateBlock, BlockAddress
<1>7. at \in Nat /\ at <= Reserve
  BY <1>3, <1>5, <1>6
<1>8. BlockAddress(Dst(t), at) \in Sizes
  BY <1>3, <1>7 DEF BlockAddress, Sizes
<1>9. CASE at = 0
  BY <1>1, <1>2, <1>6, <1>7, <1>9 DEF At, Asking, Refuse, Goto, LocalTypes, AllocateBlock
<1>10. CASE at # 0
  <2>1. At(t)' = "allocated"
    BY <1>1, <1>6, <1>10 DEF At, Asking, Goto, LocalTypes
  <2>2. block'[t] = BlockAddress(Dst(t), at)
    BY <1>1, <1>6, <1>10
  <2>3. QED
    BY <1>1, <1>2, <1>6, <1>7, <1>8, <1>10, <2>1, <2>2 DEF AllocateBlock
<1>11. QED
  BY <1>9, <1>10

-----------------------------------------------------------------------------
(* The variables of transfers stay of their types.                         *)

TransferTypes ==
  /\ msg \in [Movers -> Messages \cup {NoMessage}]
  /\ location \in [Movers -> Seq(Resolutions)]
  /\ capacity \in [Movers -> Sizes]
  /\ allocation \in [Movers -> Sizes]
  /\ block \in [Movers -> Sizes]
  /\ outcome \in [Movers -> Reasons]

LEMMA MsgForm ==
  ASSUME NEW t \in Movers, TransferStep(t), TransferTypes
  PROVE  msg' = [msg EXCEPT ![t] = msg'[t]]
<1>1. msg \in [Movers -> Messages \cup {NoMessage}]
  BY DEF TransferTypes
<1>2. UNCHANGED msg => msg' = [msg EXCEPT ![t] = msg'[t]]
  BY <1>1
<1>3. CASE BeginTransfer(t)
  BY <1>1, <1>2, <1>3 DEF BeginTransfer
<1>4. CASE Measure(t)
  BY <1>1, <1>2, <1>4 DEF Measure
<1>5. CASE Scan(t)
  BY <1>1, <1>2, <1>5 DEF Scan
<1>6. CASE Resolve(t)
  BY <1>1, <1>2, <1>6 DEF Resolve
<1>7. CASE PlaceLocation(t)
  BY <1>1, <1>2, <1>7 DEF PlaceLocation
<1>8. CASE ReserveText(t)
  BY <1>1, <1>2, <1>8 DEF ReserveText
<1>9. CASE AlignText(t)
  BY <1>1, <1>2, <1>9 DEF AlignText
<1>10. CASE PackPayload(t)
  BY <1>1, <1>2, <1>10 DEF PackPayload
<1>11. CASE AllocateBlock(t)
  BY <1>1, <1>2, <1>11 DEF AllocateBlock
<1>12. CASE AllocateBadBlock(t)
  BY <1>1, <1>2, <1>12 DEF AllocateBadBlock
<1>13. CASE CheckSize(t)
  BY <1>1, <1>2, <1>13 DEF CheckSize, transfer_vars
<1>14. CASE ValidateBlock(t)
  BY <1>1, <1>2, <1>14 DEF ValidateBlock
<1>15. CASE RewriteText(t)
  BY <1>1, <1>2, <1>15 DEF RewriteText
<1>16. CASE CopyPayloads(t)
  BY <1>1, <1>2, <1>16 DEF CopyPayloads
<1>17. CASE FreeTransferred(t)
  BY <1>1, <1>2, <1>17 DEF FreeTransferred
<1>18. CASE EndTransfer(t)
  BY <1>1, <1>2, <1>18 DEF EndTransfer
<1>19. QED
  BY <1>3, <1>4, <1>5, <1>6, <1>7, <1>8, <1>9, <1>10, <1>11, <1>12, <1>13,
     <1>14, <1>15, <1>16, <1>17, <1>18
  DEF TransferStep

LEMMA LocationForm ==
  ASSUME NEW t \in Movers, TransferStep(t), TransferTypes
  PROVE  location' = [location EXCEPT ![t] = location'[t]]
<1>1. location \in [Movers -> Seq(Resolutions)]
  BY DEF TransferTypes
<1>2. UNCHANGED location => location' = [location EXCEPT ![t] = location'[t]]
  BY <1>1
<1>3. CASE BeginTransfer(t)
  BY <1>1, <1>2, <1>3 DEF BeginTransfer
<1>4. CASE Measure(t)
  BY <1>1, <1>2, <1>4 DEF Measure
<1>5. CASE Scan(t)
  BY <1>1, <1>2, <1>5 DEF Scan
<1>6. CASE Resolve(t)
  BY <1>1, <1>2, <1>6 DEF Resolve
<1>7. CASE PlaceLocation(t)
  BY <1>1, <1>2, <1>7 DEF PlaceLocation
<1>8. CASE ReserveText(t)
  BY <1>1, <1>2, <1>8 DEF ReserveText
<1>9. CASE AlignText(t)
  BY <1>1, <1>2, <1>9 DEF AlignText
<1>10. CASE PackPayload(t)
  BY <1>1, <1>2, <1>10 DEF PackPayload
<1>11. CASE AllocateBlock(t)
  BY <1>1, <1>2, <1>11 DEF AllocateBlock
<1>12. CASE AllocateBadBlock(t)
  BY <1>1, <1>2, <1>12 DEF AllocateBadBlock
<1>13. CASE CheckSize(t)
  BY <1>1, <1>2, <1>13 DEF CheckSize, transfer_vars
<1>14. CASE ValidateBlock(t)
  BY <1>1, <1>2, <1>14 DEF ValidateBlock
<1>15. CASE RewriteText(t)
  BY <1>1, <1>2, <1>15 DEF RewriteText
<1>16. CASE CopyPayloads(t)
  BY <1>1, <1>2, <1>16 DEF CopyPayloads
<1>17. CASE FreeTransferred(t)
  BY <1>1, <1>2, <1>17 DEF FreeTransferred
<1>18. CASE EndTransfer(t)
  BY <1>1, <1>2, <1>18 DEF EndTransfer
<1>19. QED
  BY <1>3, <1>4, <1>5, <1>6, <1>7, <1>8, <1>9, <1>10, <1>11, <1>12, <1>13,
     <1>14, <1>15, <1>16, <1>17, <1>18
  DEF TransferStep

LEMMA CapacityForm ==
  ASSUME NEW t \in Movers, TransferStep(t), TransferTypes
  PROVE  capacity' = [capacity EXCEPT ![t] = capacity'[t]]
<1>1. capacity \in [Movers -> Sizes]
  BY DEF TransferTypes
<1>2. UNCHANGED capacity => capacity' = [capacity EXCEPT ![t] = capacity'[t]]
  BY <1>1
<1>3. CASE BeginTransfer(t)
  BY <1>1, <1>2, <1>3 DEF BeginTransfer
<1>4. CASE Measure(t)
  BY <1>1, <1>2, <1>4 DEF Measure
<1>5. CASE Scan(t)
  BY <1>1, <1>2, <1>5 DEF Scan
<1>6. CASE Resolve(t)
  BY <1>1, <1>2, <1>6 DEF Resolve
<1>7. CASE PlaceLocation(t)
  BY <1>1, <1>2, <1>7 DEF PlaceLocation
<1>8. CASE ReserveText(t)
  BY <1>1, <1>2, <1>8 DEF ReserveText
<1>9. CASE AlignText(t)
  BY <1>1, <1>2, <1>9 DEF AlignText
<1>10. CASE PackPayload(t)
  BY <1>1, <1>2, <1>10 DEF PackPayload
<1>11. CASE AllocateBlock(t)
  BY <1>1, <1>2, <1>11 DEF AllocateBlock
<1>12. CASE AllocateBadBlock(t)
  BY <1>1, <1>2, <1>12 DEF AllocateBadBlock
<1>13. CASE CheckSize(t)
  BY <1>1, <1>2, <1>13 DEF CheckSize, transfer_vars
<1>14. CASE ValidateBlock(t)
  BY <1>1, <1>2, <1>14 DEF ValidateBlock
<1>15. CASE RewriteText(t)
  BY <1>1, <1>2, <1>15 DEF RewriteText
<1>16. CASE CopyPayloads(t)
  BY <1>1, <1>2, <1>16 DEF CopyPayloads
<1>17. CASE FreeTransferred(t)
  BY <1>1, <1>2, <1>17 DEF FreeTransferred
<1>18. CASE EndTransfer(t)
  BY <1>1, <1>2, <1>18 DEF EndTransfer
<1>19. QED
  BY <1>3, <1>4, <1>5, <1>6, <1>7, <1>8, <1>9, <1>10, <1>11, <1>12, <1>13,
     <1>14, <1>15, <1>16, <1>17, <1>18
  DEF TransferStep

LEMMA AllocationForm ==
  ASSUME NEW t \in Movers, TransferStep(t), TransferTypes
  PROVE  allocation' = [allocation EXCEPT ![t] = allocation'[t]]
<1>1. allocation \in [Movers -> Sizes]
  BY DEF TransferTypes
<1>2. UNCHANGED allocation => allocation' = [allocation EXCEPT ![t] = allocation'[t]]
  BY <1>1
<1>3. CASE BeginTransfer(t)
  BY <1>1, <1>2, <1>3 DEF BeginTransfer
<1>4. CASE Measure(t)
  BY <1>1, <1>2, <1>4 DEF Measure
<1>5. CASE Scan(t)
  BY <1>1, <1>2, <1>5 DEF Scan
<1>6. CASE Resolve(t)
  BY <1>1, <1>2, <1>6 DEF Resolve
<1>7. CASE PlaceLocation(t)
  BY <1>1, <1>2, <1>7 DEF PlaceLocation
<1>8. CASE ReserveText(t)
  BY <1>1, <1>2, <1>8 DEF ReserveText
<1>9. CASE AlignText(t)
  BY <1>1, <1>2, <1>9 DEF AlignText
<1>10. CASE PackPayload(t)
  BY <1>1, <1>2, <1>10 DEF PackPayload
<1>11. CASE AllocateBlock(t)
  BY <1>1, <1>2, <1>11 DEF AllocateBlock
<1>12. CASE AllocateBadBlock(t)
  BY <1>1, <1>2, <1>12 DEF AllocateBadBlock
<1>13. CASE CheckSize(t)
  BY <1>1, <1>2, <1>13 DEF CheckSize, transfer_vars
<1>14. CASE ValidateBlock(t)
  BY <1>1, <1>2, <1>14 DEF ValidateBlock
<1>15. CASE RewriteText(t)
  BY <1>1, <1>2, <1>15 DEF RewriteText
<1>16. CASE CopyPayloads(t)
  BY <1>1, <1>2, <1>16 DEF CopyPayloads
<1>17. CASE FreeTransferred(t)
  BY <1>1, <1>2, <1>17 DEF FreeTransferred
<1>18. CASE EndTransfer(t)
  BY <1>1, <1>2, <1>18 DEF EndTransfer
<1>19. QED
  BY <1>3, <1>4, <1>5, <1>6, <1>7, <1>8, <1>9, <1>10, <1>11, <1>12, <1>13,
     <1>14, <1>15, <1>16, <1>17, <1>18
  DEF TransferStep

LEMMA BlockForm ==
  ASSUME NEW t \in Movers, TransferStep(t), TransferTypes
  PROVE  block' = [block EXCEPT ![t] = block'[t]]
<1>1. block \in [Movers -> Sizes]
  BY DEF TransferTypes
<1>2. UNCHANGED block => block' = [block EXCEPT ![t] = block'[t]]
  BY <1>1
<1>3. CASE BeginTransfer(t)
  BY <1>1, <1>2, <1>3 DEF BeginTransfer
<1>4. CASE Measure(t)
  BY <1>1, <1>2, <1>4 DEF Measure
<1>5. CASE Scan(t)
  BY <1>1, <1>2, <1>5 DEF Scan
<1>6. CASE Resolve(t)
  BY <1>1, <1>2, <1>6 DEF Resolve
<1>7. CASE PlaceLocation(t)
  BY <1>1, <1>2, <1>7 DEF PlaceLocation
<1>8. CASE ReserveText(t)
  BY <1>1, <1>2, <1>8 DEF ReserveText
<1>9. CASE AlignText(t)
  BY <1>1, <1>2, <1>9 DEF AlignText
<1>10. CASE PackPayload(t)
  BY <1>1, <1>2, <1>10 DEF PackPayload
<1>11. CASE AllocateBlock(t)
  BY <1>1, <1>2, <1>11 DEF AllocateBlock
<1>12. CASE AllocateBadBlock(t)
  BY <1>1, <1>2, <1>12 DEF AllocateBadBlock
<1>13. CASE CheckSize(t)
  BY <1>1, <1>2, <1>13 DEF CheckSize, transfer_vars
<1>14. CASE ValidateBlock(t)
  BY <1>1, <1>2, <1>14 DEF ValidateBlock
<1>15. CASE RewriteText(t)
  BY <1>1, <1>2, <1>15 DEF RewriteText
<1>16. CASE CopyPayloads(t)
  BY <1>1, <1>2, <1>16 DEF CopyPayloads
<1>17. CASE FreeTransferred(t)
  BY <1>1, <1>2, <1>17 DEF FreeTransferred
<1>18. CASE EndTransfer(t)
  BY <1>1, <1>2, <1>18 DEF EndTransfer
<1>19. QED
  BY <1>3, <1>4, <1>5, <1>6, <1>7, <1>8, <1>9, <1>10, <1>11, <1>12, <1>13,
     <1>14, <1>15, <1>16, <1>17, <1>18
  DEF TransferStep

LEMMA OutcomeForm ==
  ASSUME NEW t \in Movers, TransferStep(t), TransferTypes
  PROVE  outcome' = [outcome EXCEPT ![t] = outcome'[t]]
<1>1. outcome \in [Movers -> Reasons]
  BY DEF TransferTypes
<1>2. UNCHANGED outcome => outcome' = [outcome EXCEPT ![t] = outcome'[t]]
  BY <1>1
<1>3. CASE BeginTransfer(t)
  BY <1>1, <1>2, <1>3 DEF BeginTransfer
<1>4. CASE Measure(t)
  BY <1>1, <1>2, <1>4 DEF Measure, Refuse
<1>5. CASE Scan(t)
  BY <1>1, <1>2, <1>5 DEF Scan, Refuse
<1>6. CASE Resolve(t)
  BY <1>1, <1>2, <1>6 DEF Resolve, Refuse
<1>7. CASE PlaceLocation(t)
  BY <1>1, <1>2, <1>7 DEF PlaceLocation, Refuse
<1>8. CASE ReserveText(t)
  BY <1>1, <1>2, <1>8 DEF ReserveText, Refuse
<1>9. CASE AlignText(t)
  BY <1>1, <1>2, <1>9 DEF AlignText, Refuse
<1>10. CASE PackPayload(t)
  BY <1>1, <1>2, <1>10 DEF PackPayload, Refuse
<1>11. CASE AllocateBlock(t)
  BY <1>1, <1>2, <1>11 DEF AllocateBlock, Refuse
<1>12. CASE AllocateBadBlock(t)
  BY <1>1, <1>2, <1>12 DEF AllocateBadBlock
<1>13. CASE CheckSize(t)
  BY <1>1, <1>2, <1>13 DEF CheckSize, transfer_vars
<1>14. CASE ValidateBlock(t)
  BY <1>1, <1>2, <1>14 DEF ValidateBlock, GiveBack
<1>15. CASE RewriteText(t)
  BY <1>1, <1>2, <1>15 DEF RewriteText, GiveBack
<1>16. CASE CopyPayloads(t)
  BY <1>1, <1>2, <1>16 DEF CopyPayloads
<1>17. CASE FreeTransferred(t)
  BY <1>1, <1>2, <1>17 DEF FreeTransferred
<1>18. CASE EndTransfer(t)
  BY <1>1, <1>2, <1>18 DEF EndTransfer
<1>19. QED
  BY <1>3, <1>4, <1>5, <1>6, <1>7, <1>8, <1>9, <1>10, <1>11, <1>12, <1>13,
     <1>14, <1>15, <1>16, <1>17, <1>18
  DEF TransferStep

LEMMA TransferTypesStep ==
  ASSUME NEW t \in Movers, TransferStep(t), TypeOK, MessagesInHand, AllSound
  PROVE  TransferTypes'
<1>1. TransferTypes
  BY DEF TypeOK, TransferTypes
<1>2. /\ msg[t] \in Messages \cup {NoMessage} /\ location[t] \in Seq(Resolutions)
      /\ capacity[t] \in Sizes /\ allocation[t] \in Sizes /\ block[t] \in Sizes
      /\ outcome[t] \in Reasons
  BY <1>1 DEF TransferTypes
<1>3. SizeMax \in Nat /\ 0 \in Sizes
  BY AddressesTyped DEF Sizes
<1>4. msg'[t] \in Messages \cup {NoMessage}
  <2>1. CASE BeginTransfer(t) \/ Measure(t) \/ Scan(t)
            \/ Resolve(t) \/ PlaceLocation(t) \/ ReserveText(t)
            \/ AlignText(t) \/ PackPayload(t) \/ AllocateBlock(t)
            \/ AllocateBadBlock(t) \/ CheckSize(t) \/ ValidateBlock(t)
            \/ RewriteText(t) \/ CopyPayloads(t) \/ FreeTransferred(t)
            \/ EndTransfer(t)
    BY <1>1, <1>2, <2>1
    DEF TransferTypes, BeginTransfer, Measure, Scan, Resolve,
        PlaceLocation, ReserveText, AlignText, PackPayload, AllocateBlock,
        AllocateBadBlock, CheckSize, ValidateBlock, RewriteText,
        CopyPayloads, FreeTransferred, EndTransfer, transfer_vars
  <2>2. QED
    BY <2>1 DEF TransferStep
<1>5. location'[t] \in Seq(Resolutions)
  <2>1. CASE Scan(t)
    <3>1. location'[t] = location[t] \/ location'[t] = Append(location[t], Unresolved)
      BY <2>1, ScanEffect
    <3>2. Unresolved \in Resolutions
      BY <1>3 DEF Unresolved, Resolutions
    <3>3. QED
      BY <1>2, <3>1, <3>2, ListExtended
  <2>2. CASE Resolve(t)
    <3>1. location' = location
          \/ \E l \in Resolutions : location'[t] = Append(location[t], l)
      BY <2>2, ResolveEffect
    <3>2. QED
      BY <1>2, <3>1, ListExtended
  <2>3. CASE PlaceLocation(t)
    <3>1. CASE location' = location
      BY <1>2, <3>1
    <3>2. CASE /\ Scanned(t) \in DOMAIN location[t]
               /\ \E p \in Resolutions : location'[t] = [location[t] EXCEPT ![Scanned(t)] = p]
      <4>1. PICK p \in Resolutions : location'[t] = [location[t] EXCEPT ![Scanned(t)] = p]
        BY <3>2
      <4>2. [location[t] EXCEPT ![Scanned(t)] = p] \in Seq(Resolutions)
        BY <1>2, <3>2, ListUpdated
      <4>3. QED
        BY <4>1, <4>2
    <3>3. QED
      BY <2>3, <3>1, <3>2, PlaceEffect
  <2>4. CASE PackPayload(t)
    <3>1. CASE location' = location
      BY <1>2, <3>1
    <3>2. CASE \E i \in DOMAIN location[t], p \in Resolutions :
                 location'[t] = [location[t] EXCEPT ![i] = p]
      <4>1. PICK i \in DOMAIN location[t], p \in Resolutions :
              location'[t] = [location[t] EXCEPT ![i] = p]
        BY <3>2
      <4>2. [location[t] EXCEPT ![i] = p] \in Seq(Resolutions)
        BY <1>2, ListUpdated
      <4>3. QED
        BY <4>1, <4>2
    <3>3. QED
      <4>1. \/ UNCHANGED <<location, allocation>>
            \/ \E i \in Packing(t), p \in Resolutions :
                 i \in DOMAIN location[t] /\ location'[t] = [location[t] EXCEPT ![i] = p]
        BY <2>4, PackEffect
      <4>2. QED
        BY <3>1, <3>2, <4>1
  <2>5. CASE EndTransfer(t)
    <3>1. location'[t] = <<>>
      BY <1>1, <2>5 DEF EndTransfer, TransferTypes
    <3>2. QED
      BY <3>1
  <2>6. CASE ValidateBlock(t)
    BY <1>2, <2>6, ValidateEffect
  <2>7. CASE BeginTransfer(t) \/ Measure(t) \/ ReserveText(t)
            \/ AlignText(t) \/ AllocateBlock(t) \/ AllocateBadBlock(t)
            \/ CheckSize(t) \/ RewriteText(t) \/ CopyPayloads(t)
            \/ FreeTransferred(t)
    BY <1>1, <1>2, <2>7
    DEF TransferTypes, BeginTransfer, Measure, ReserveText, AlignText,
        AllocateBlock, AllocateBadBlock, CheckSize, RewriteText,
        CopyPayloads, FreeTransferred, transfer_vars
  <2>8. QED
    BY <2>1, <2>2, <2>3, <2>4, <2>5, <2>6, <2>7 DEF TransferStep
<1>6. capacity'[t] \in Sizes
  <2>1. CASE Measure(t)
    <3>1. CASE msg[t].len # SizeMax /\ capacity' = [capacity EXCEPT ![t] = msg[t].len + 1]
      <4>1. msg[t].len \in Sizes
        BY <2>1, InHand DEF Measure
      <4>2. capacity'[t] = msg[t].len + 1
        BY <1>1, <3>1 DEF TransferTypes
      <4>3. QED
        BY <1>3, <3>1, <4>1, <4>2 DEF Sizes
    <3>2. CASE UNCHANGED capacity
      BY <1>2, <3>2
    <3>3. QED
      BY <2>1, <3>1, <3>2 DEF Measure
  <2>2. CASE ReserveText(t)
    <3> DEFINE added == Reserved(msg[t].locations[Scanned(t)].text)
    <3>1. CASE /\ capacity[t] + added <= SizeMax
               /\ capacity' = [capacity EXCEPT ![t] = capacity[t] + added]
      <4>1. added \in Nat
        <5>1. Scanned(t) > 0
          BY <2>2 DEF ReserveText, MessagesInHand, At, Asking
        <5>2. Scanned(t) \in 1..Scanned(t)
          BY <5>1, <2>2, InHand DEF ReserveText
        <5>3. msg[t].locations[Scanned(t)] \in Location
          BY <5>2, <2>2, InHand DEF ReserveText
        <5>4. msg[t].locations[Scanned(t)].text \in Nat
          BY <5>3, LocationFields
        <5>5. MaxAddressLen \in Nat
          BY TransferAssumption DEF MaxAddressLen
        <5>6. QED
          BY <5>4, <5>5 DEF Reserved
      <4>2. capacity'[t] = capacity[t] + added
        BY <1>1, <3>1 DEF TransferTypes
      <4> HIDE DEF added
      <4>3. QED
        BY <1>2, <1>3, <3>1, <4>1, <4>2 DEF Sizes
    <3>2. CASE UNCHANGED capacity
      BY <1>2, <3>2
    <3>3. QED
      BY <2>2, <3>1, <3>2 DEF ReserveText
  <2>3. CASE BeginTransfer(t) \/ Scan(t) \/ Resolve(t)
            \/ PlaceLocation(t) \/ AlignText(t) \/ PackPayload(t)
            \/ AllocateBlock(t) \/ AllocateBadBlock(t) \/ CheckSize(t)
            \/ ValidateBlock(t) \/ RewriteText(t) \/ CopyPayloads(t)
            \/ FreeTransferred(t) \/ EndTransfer(t)
    BY <1>1, <1>2, <1>3, <2>3
    DEF TransferTypes, BeginTransfer, Scan, Resolve, PlaceLocation,
        AlignText, PackPayload, AllocateBlock, AllocateBadBlock, CheckSize,
        ValidateBlock, RewriteText, CopyPayloads, FreeTransferred,
        EndTransfer, transfer_vars
  <2>4. QED
    BY <2>1, <2>2, <2>3 DEF TransferStep
<1>7. allocation'[t] \in Sizes
  <2>1. CASE AlignText(t)
    <3>1. CASE /\ Alignable(capacity[t])
               /\ allocation' = [allocation EXCEPT ![t] = AlignedUp(capacity[t])]
      BY <1>1, <1>2, <3>1, SizeAligned DEF TransferTypes
    <3>2. CASE UNCHANGED allocation
      BY <1>2, <3>2
    <3>3. QED
      BY <2>1, <3>1, <3>2 DEF AlignText
  <2>2. CASE PackPayload(t)
    BY <1>2, <2>2, PackEffect
  <2>3. CASE BeginTransfer(t) \/ Measure(t) \/ Scan(t)
            \/ Resolve(t) \/ PlaceLocation(t) \/ ReserveText(t)
            \/ AllocateBlock(t) \/ AllocateBadBlock(t) \/ CheckSize(t)
            \/ ValidateBlock(t) \/ RewriteText(t) \/ CopyPayloads(t)
            \/ FreeTransferred(t) \/ EndTransfer(t)
    BY <1>1, <1>2, <1>3, <2>3
    DEF TransferTypes, BeginTransfer, Measure, Scan, Resolve,
        PlaceLocation, ReserveText, AllocateBlock, AllocateBadBlock,
        CheckSize, ValidateBlock, RewriteText, CopyPayloads,
        FreeTransferred, EndTransfer, transfer_vars
  <2>4. QED
    BY <2>1, <2>2, <2>3 DEF TransferStep
<1>8. block'[t] \in Sizes
  <2>1. CASE AllocateBlock(t)
    BY <1>2, <2>1, AllocateEffect
  <2>2. CASE AllocateBadBlock(t)
    BY <1>1, <1>2, <2>2, TransferAssumption DEF AllocateBadBlock, TransferTypes, Sizes
  <2>3. CASE BeginTransfer(t) \/ Measure(t) \/ Scan(t)
            \/ Resolve(t) \/ PlaceLocation(t) \/ ReserveText(t)
            \/ AlignText(t) \/ PackPayload(t) \/ CheckSize(t)
            \/ ValidateBlock(t) \/ RewriteText(t) \/ CopyPayloads(t)
            \/ FreeTransferred(t) \/ EndTransfer(t)
    BY <1>1, <1>2, <1>3, <2>3
    DEF TransferTypes, BeginTransfer, Measure, Scan, Resolve,
        PlaceLocation, ReserveText, AlignText, PackPayload, CheckSize,
        ValidateBlock, RewriteText, CopyPayloads, FreeTransferred,
        EndTransfer, transfer_vars
  <2>4. QED
    BY <2>1, <2>2, <2>3 DEF TransferStep
<1>9. /\ {"none", "message", "metadata", "source", "space", "malloc", "block", "text",
         "delivered"} \subseteq Reasons
  BY DEF Reasons
<1>10. outcome'[t] \in Reasons
  <2>1. CASE BeginTransfer(t) \/ Measure(t) \/ Scan(t)
            \/ Resolve(t) \/ PlaceLocation(t) \/ ReserveText(t)
            \/ AlignText(t) \/ PackPayload(t) \/ AllocateBlock(t)
            \/ AllocateBadBlock(t) \/ CheckSize(t) \/ ValidateBlock(t)
            \/ RewriteText(t) \/ CopyPayloads(t) \/ FreeTransferred(t)
            \/ EndTransfer(t)
    BY <1>1, <1>2, <1>9, <2>1
    DEF TransferTypes, BeginTransfer, Measure, Scan, Resolve,
        PlaceLocation, ReserveText, AlignText, PackPayload, AllocateBlock,
        AllocateBadBlock, CheckSize, ValidateBlock, RewriteText,
        CopyPayloads, FreeTransferred, EndTransfer, transfer_vars, Refuse,
        GiveBack
  <2>2. QED
    BY <2>1 DEF TransferStep
<1>11. QED
  BY <1>1, <1>4, <1>5, <1>6, <1>7, <1>8, <1>10, MsgForm, LocationForm, CapacityForm,
     AllocationForm, BlockForm, OutcomeForm
  DEF TransferTypes

-----------------------------------------------------------------------------
(* How far transfers have come.                                            *)

(* What a step in a memory does to the place of a transfer.                *)
LEMMA MemoryAt ==
  ASSUME NEW t \in Threads, MemoryStepOf(t), TypeOK, ThreadsPlaced, NEW u \in Movers
  PROVE  /\ \/ At(u)' = At(u)
            \/ At(u) \in Shrinking /\ At(u)' \in Shrinking \cup {"refused"}
         /\ pc'[u] # "idle" => pc[u] # "idle"
<1>1. LocalTypes /\ u \in Threads
  BY DEF TypeOK, LocalTypes, Threads
<1>2. CASE u # t
  <2>1. CASE t \in Guests /\ GuestAllocates(t)
    BY <1>1, <1>2, <2>1 DEF At, LocalTypes, GuestAllocates
  <2>2. CASE t \in Guests /\ GuestFrees(t)
    BY <1>1, <1>2, <2>2 DEF At, LocalTypes, GuestFrees, FreeBlock
  <2>3. CASE KeepTail(t)
    BY <1>1, <1>2, <2>3 DEF At, LocalTypes, KeepTail, LeaveAllocator, Return
  <2>4. CASE ShrinkTranslated(t)
    BY <1>1, <1>2, <2>4 DEF At, LocalTypes, ShrinkTranslated, LeaveAllocator, Return
  <2>5. CASE ShrinkWasmtime(t)
    BY <1>1, <1>2, <2>5 DEF At, LocalTypes, ShrinkWasmtime
  <2>6. CASE MarkReclaimable(t)
    BY <1>1, <1>2, <2>6 DEF At, LocalTypes, MarkReclaimable
  <2>7. CASE RefreshShrunk(t)
    BY <1>1, <1>2, <2>7 DEF At, LocalTypes, RefreshShrunk, LeaveAllocator, Return
  <2>8. CASE SampleSize(t)
    BY <1>1, <1>2, <2>8 DEF At, LocalTypes, SampleSize
  <2>9. CASE PublishSize(t)
    BY <1>1, <1>2, <2>9 DEF At, LocalTypes, PublishSize
  <2>10. CASE ReadSize(t)
    BY <1>1, <1>2, <2>10 DEF At, LocalTypes, ReadSize, Return
  <2>11. CASE t \in Readers /\ BeginRead(t)
    BY <1>1, <1>2, <2>11 DEF At, LocalTypes, BeginRead, Ask
  <2>12. QED
    BY <2>1, <2>2, <2>3, <2>4, <2>5, <2>6, <2>7, <2>8, <2>9, <2>10, <2>11
       DEF MemoryStepOf
<1>3. CASE u = t
  <2>1. u \notin Guests \cup Readers
    BY MemoryAssumption
  <2>2. /\ pc[u] \in Asking => ret[u] \in {"measure", "resolve", "place", "validate"}
        /\ pc[u] \in Shrinking => ret[u] = "refused"
    BY <1>1 DEF ThreadsPlaced
  <2>3. CASE KeepTail(u) \/ ShrinkTranslated(u) \/ RefreshShrunk(u)
    BY <1>1, <2>2, <2>3 DEF KeepTail, ShrinkTranslated, RefreshShrunk, LeaveAllocator, Return,
                            At, LocalTypes, Shrinking, Asking
  <2>4. CASE ShrinkWasmtime(u) \/ MarkReclaimable(u)
    BY <1>1, <2>4 DEF ShrinkWasmtime, MarkReclaimable, At, LocalTypes, Shrinking, Asking
  <2>5. CASE SampleSize(u) \/ PublishSize(u)
    BY <1>1, <2>5 DEF SampleSize, PublishSize, At, LocalTypes, Asking
  <2>6. CASE ReadSize(u)
    BY <1>1, <2>2, <2>6 DEF ReadSize, Return, At, LocalTypes, Asking
  <2>7. QED
    BY <1>3, <2>1, <2>3, <2>4, <2>5, <2>6 DEF MemoryStepOf
<1>4. QED
  BY <1>2, <1>3

MessageInHand(t) ==
  /\ pc[t] # "idle" => msg[t] \in Messages
  /\ Scanned(t) <= Len(msg[t].locations)
  /\ At(t) \in {"idle", "measure"} => location[t] = <<>>
  /\ At(t) = "resolve" => Scanned(t) < Len(msg[t].locations) /\ Described(t).form = "numeric"
  /\ At(t) \in {"place", "reserve"} => Scanned(t) > 0
  /\ At(t) \in Scanning \cup Holding \cup {"pack"} => capacity[t] > 0
  /\ At(t) = "pack" \/ At(t) \in Holding => Scanned(t) = Len(msg[t].locations)

LEMMA HandKept ==
  ASSUME NEW t \in Movers, MessageInHand(t), msg'[t] = msg[t], location'[t] = location[t],
         pc'[t] # "idle" => pc[t] # "idle",
         At(t)' \in {"idle", "measure"} => At(t) = At(t)',
         At(t)' = "resolve" => \/ At(t) = "resolve"
                               \/ /\ Scanned(t) < Len(msg[t].locations)
                                  /\ Described(t).form = "numeric",
         At(t)' \in {"place", "reserve"} => Scanned(t) > 0,
         At(t)' \in Scanning \cup Holding \cup {"pack"} => capacity'[t] > 0,
         At(t)' = "pack" \/ At(t)' \in Holding => Scanned(t) = Len(msg[t].locations)
  PROVE  MessageInHand(t)'
<1>1. Scanned(t)' = Scanned(t) /\ Described(t)' = Described(t)
  BY DEF Scanned, Described
<1>2. QED
  BY <1>1 DEF MessageInHand

LEMMA MemoryHandKept ==
  ASSUME NEW t \in Movers, MessageInHand(t), msg'[t] = msg[t], location'[t] = location[t],
         capacity'[t] = capacity[t], pc'[t] # "idle" => pc[t] # "idle",
         At(t)' = At(t) \/ At(t)' \in Shrinking \cup {"refused"}
  PROVE  MessageInHand(t)'
<1>1. Scanned(t)' = Scanned(t) /\ Described(t)' = Described(t)
  BY DEF Scanned, Described
<1>2. CASE At(t)' = At(t)
  BY <1>1, <1>2 DEF MessageInHand
<1>3. CASE At(t)' \in Shrinking \cup {"refused"}
  BY <1>1, <1>3 DEF MessageInHand, Shrinking, Scanning, Holding
<1>4. QED
  BY <1>2, <1>3

LEMMA TransferHand ==
  ASSUME NEW t \in Movers, TransferStep(t), TypeOK, ThreadsPlaced, MessagesInHand, AllSound
  PROVE  MessageInHand(t)'
<1> DEFINE Goal == MessageInHand(t)'
           Last == Len(msg[t].locations)
<1>1. MessageInHand(t) /\ LocalTypes /\ TransferTypes /\ t \in Threads
  BY DEF MessagesInHand, MessageInHand, TypeOK, LocalTypes, TransferTypes, Threads
<1>2. /\ pc[t] # "idle" => /\ Scanned(t) \in Nat /\ Last \in Nat /\ Scanned(t) <= Last
                           /\ Src(t) \in Modules \cup {Host} /\ Dst(t) \in Modules
                           /\ msg[t] \in Messages /\ msg[t].len \in Nat
      /\ location[t] \in Seq(Resolutions)
      /\ capacity[t] \in Nat
  <2>1. SizeMax \in Nat
    BY AddressesTyped
  <2>2. QED
    BY <1>1, <2>1, InHand DEF TransferTypes, Sizes
<1>3. ASSUME msg'[t] = msg[t], location'[t] = location[t], pc[t] # "idle",
             At(t)' \in {"freed", "refused", "free"},
             At(t)' = "free" => capacity'[t] > 0 /\ Scanned(t) = Last
      PROVE  Goal
  BY <1>1, <1>3, HandKept DEF Scanning, Holding
<1>4. ASSUME NEW l \in Resolutions, location'[t] = Append(location[t], l), msg'[t] = msg[t],
             pc[t] # "idle", Scanned(t) < Last, capacity'[t] = capacity[t], capacity[t] > 0,
             At(t)' \in {"scan", "place", "reserve"}
      PROVE  Goal
  <2>1. Len(location'[t]) = Len(location[t]) + 1
    BY <1>2, <1>4, ListExtended
  <2>2. Scanned(t)' = Scanned(t) + 1 /\ Scanned(t) \in Nat /\ Last \in Nat
    BY <1>2, <1>4, <2>1 DEF Scanned
  <2>3. Scanned(t)' <= Len(msg'[t].locations) /\ Scanned(t)' > 0
    BY <1>4, <2>2
  <2>4. msg'[t] \in Messages
    BY <1>2, <1>4
  <2>5. QED
    BY <1>4, <2>3, <2>4 DEF MessageInHand, Scanning, Holding
<1>5. ASSUME Len(location'[t]) = Len(location[t]), msg'[t] = msg[t], pc[t] # "idle",
             capacity'[t] = capacity[t], capacity[t] > 0,
             \/ At(t)' = "reserve" /\ Scanned(t) > 0
             \/ At(t)' \in {"pack", "rewrite"} /\ Scanned(t) = Last
      PROVE  Goal
  <2>1. Scanned(t)' = Scanned(t)
    BY <1>5 DEF Scanned
  <2>2. QED
    BY <1>2, <1>5, <2>1 DEF MessageInHand, Scanning, Holding
<1> SUFFICES Goal
  OBVIOUS
<1> HIDE DEF Goal
<1>6. CASE BeginTransfer(t)
  <2>1. PICK m \in Messages : msg' = [msg EXCEPT ![t] = m] /\ AskThen(t, m.src, "measure")
    BY <1>6 DEF BeginTransfer
  <2>2. msg'[t] = m /\ m.src \in Modules \cup {Host} /\ m.locations \in Seq(Location)
    BY <1>1, <2>1, MessageFields DEF TransferTypes
  <2>3. "measure" \in Labels \ Asking
    BY DEF Labels, Asking
  <2>4. At(t)' = "measure"
    BY <1>1, <2>1, <2>2, <2>3, AskedFor
  <2>5. location'[t] = <<>>
    BY <1>1, <1>6 DEF BeginTransfer, MessageInHand, At, Asking
  <2>6. Scanned(t)' = 0 /\ Len(m.locations) \in Nat
    BY <2>2, <2>5, ListFields DEF Scanned
  <2>7. QED
    BY <2>2, <2>4, <2>5, <2>6 DEF MessageInHand, Scanning, Holding, Goal
<1>7. CASE Measure(t)
  <2>1. msg' = msg /\ location' = location /\ pc[t] = "measure" /\ At(t) = "measure"
    BY <1>7 DEF Measure, At, Asking
  <2>2. CASE Goto(t, "scan") /\ capacity' = [capacity EXCEPT ![t] = msg[t].len + 1]
    <3>1. At(t)' = "scan" /\ capacity'[t] > 0
      BY <1>1, <1>2, <2>1, <2>2 DEF Goto, At, Asking, LocalTypes, TransferTypes
    <3>2. QED
      BY <1>1, <2>1, <3>1, HandKept DEF Goal, Holding
  <2>3. CASE Refuse(t, "message")
    <3>1. At(t)' = "refused"
      BY <1>1, <2>3 DEF Refuse, Goto, At, Asking, LocalTypes
    <3>2. QED
      BY <1>3, <2>1, <3>1
  <2>4. QED
    BY <1>7, <2>2, <2>3 DEF Measure
<1>8. CASE Scan(t)
  <2>1. msg' = msg /\ capacity' = capacity /\ pc[t] = "scan" /\ capacity[t] > 0
    BY <1>1, <1>8 DEF Scan, At, Asking, MessageInHand, Scanning
  <2>2. /\ Scanned(t) < Last
        /\ \/ location'[t] = Append(location[t], Unresolved) /\ At(t)' = "scan"
           \/ location' = location /\ At(t)' = "refused"
           \/ location' = location /\ At(t)' = "resolve" /\ Described(t).form = "numeric"
    BY <1>8, ScanEffect
  <2>3. Unresolved \in Resolutions
    BY AddressesTyped DEF Unresolved, Resolutions, Sizes
  <2>4. CASE location' = location /\ At(t)' = "resolve" /\ Described(t).form = "numeric"
    BY <1>1, <2>1, <2>2, <2>4, HandKept DEF Goal, Holding
  <2>5. CASE location' = location /\ At(t)' = "refused"
    BY <1>3, <2>1, <2>5
  <2>6. CASE location'[t] = Append(location[t], Unresolved) /\ At(t)' = "scan"
    BY <1>4, <2>1, <2>2, <2>3, <2>6
  <2>7. QED
    BY <2>2, <2>4, <2>5, <2>6
<1>9. CASE Resolve(t)
  <2>1. msg' = msg /\ capacity' = capacity /\ pc[t] = "resolve" /\ capacity[t] > 0
    BY <1>1, <1>9 DEF Resolve, At, Asking, MessageInHand, Scanning
  <2>2. /\ Scanned(t) < Last
        /\ \/ location' = location /\ At(t)' = "refused"
           \/ \E l \in Resolutions : /\ location'[t] = Append(location[t], l)
                                     /\ At(t)' \in {"place", "reserve"}
    <3>1. "reserve" \in {"place", "reserve"} /\ "place" \in {"place", "reserve"}
      OBVIOUS
    <3>2. QED
      BY <1>9, <3>1, ResolveEffect
  <2>3. CASE location' = location /\ At(t)' = "refused"
    BY <1>3, <2>1, <2>3
  <2>4. QED
    BY <1>4, <2>1, <2>2, <2>3
<1>10. CASE PlaceLocation(t)
  <2>1. /\ msg' = msg /\ capacity' = capacity /\ pc[t] = "place" /\ capacity[t] > 0
        /\ Scanned(t) > 0
    BY <1>1, <1>10 DEF PlaceLocation, At, Asking, MessageInHand, Scanning
  <2>2. /\ Scanned(t) \in DOMAIN location[t]
        /\ \/ location' = location /\ At(t)' = "refused"
           \/ \E p \in Resolutions : /\ location'[t] = [location[t] EXCEPT ![Scanned(t)] = p]
                                     /\ At(t)' = "reserve"
    BY <1>10, PlaceEffect
  <2>3. CASE location' = location /\ At(t)' = "refused"
    BY <1>3, <2>1, <2>3
  <2>4. ASSUME NEW p \in Resolutions, location'[t] = [location[t] EXCEPT ![Scanned(t)] = p],
               At(t)' = "reserve"
        PROVE  Goal
    <3>1. Len([location[t] EXCEPT ![Scanned(t)] = p]) = Len(location[t])
      BY <1>2, <2>2, ListUpdated
    <3>2. QED
      BY <1>5, <2>1, <2>4, <3>1
  <2>5. QED
    BY <2>2, <2>3, <2>4
<1>11. CASE ReserveText(t)
  <2>1. /\ msg' = msg /\ location' = location /\ pc[t] = "reserve" /\ capacity[t] > 0
    BY <1>1, <1>11 DEF ReserveText, At, Asking, MessageInHand, Scanning
  <2> DEFINE text == msg[t].locations[Scanned(t)].text
             added == Reserved(text)
  <2>2. CASE Goto(t, "scan") /\ capacity' = [capacity EXCEPT ![t] = @ + added]
    <3>1. added \in Nat
      <4>1. Scanned(t) > 0
        BY <1>1, <2>1 DEF MessageInHand, At, Asking
      <4>2. Scanned(t) \in 1..Scanned(t)
        BY <1>2, <2>1, <4>1
      <4>3. text \in Nat
        BY <2>1, <4>2, InHand, LocationFields
      <4>4. MaxAddressLen \in Nat
        BY TransferAssumption DEF MaxAddressLen
      <4> HIDE DEF text
      <4>5. QED
        BY <4>3, <4>4 DEF Reserved
    <3>2. capacity'[t] = capacity[t] + added
      BY <1>1, <2>2 DEF TransferTypes
    <3> HIDE DEF added
    <3>3. capacity'[t] > 0
      BY <1>2, <2>1, <3>1, <3>2
    <3>4. At(t)' = "scan"
      BY <1>1, <2>1, <2>2 DEF Goto, At, Asking, LocalTypes
    <3>5. QED
      BY <1>1, <2>1, <3>3, <3>4, HandKept DEF Goal, Holding
  <2>3. CASE Refuse(t, "space")
    <3>1. At(t)' = "refused"
      BY <1>1, <2>3 DEF Refuse, Goto, At, Asking, LocalTypes
    <3>2. QED
      BY <1>3, <2>1, <3>1
  <2>4. QED
    BY <1>11, <2>2, <2>3 DEF ReserveText
<1>12. CASE AlignText(t)
  <2>1. /\ msg' = msg /\ location' = location /\ capacity' = capacity
        /\ pc[t] = "scan" /\ capacity[t] > 0 /\ Scanned(t) = Last
    BY <1>1, <1>12 DEF AlignText, At, Asking, MessageInHand, Scanning
  <2>2. At(t)' \in {"pack", "refused"}
    BY <1>1, <1>12 DEF AlignText, Refuse, Goto, At, Asking, LocalTypes
  <2>3. QED
    BY <1>1, <2>1, <2>2, HandKept DEF Goal
<1>13. CASE PackPayload(t)
  <2>1. /\ msg' = msg /\ capacity' = capacity
        /\ pc[t] = "pack" /\ capacity[t] > 0 /\ Scanned(t) = Last
    BY <1>1, <1>13 DEF PackPayload, At, Asking, MessageInHand
  <2>2. \/ location' = location /\ At(t)' = "refused"
        \/ \E i \in Packing(t), p \in Resolutions :
             /\ i \in DOMAIN location[t] /\ location'[t] = [location[t] EXCEPT ![i] = p]
             /\ At(t)' = "pack"
    BY <1>13, PackEffect
  <2>3. CASE location' = location /\ At(t)' = "refused"
    BY <1>3, <2>1, <2>3
  <2>4. ASSUME NEW i \in DOMAIN location[t], NEW p \in Resolutions, At(t)' = "pack",
               location'[t] = [location[t] EXCEPT ![i] = p]
        PROVE  Goal
    <3>1. Len([location[t] EXCEPT ![i] = p]) = Len(location[t])
      BY <1>2, ListUpdated
    <3>2. QED
      BY <1>5, <2>1, <2>4, <3>1
  <2>5. QED
    BY <2>2, <2>3, <2>4
<1>14. CASE AllocateBlock(t)
  <2>1. /\ msg' = msg /\ location' = location /\ capacity' = capacity
        /\ pc[t] = "pack" /\ capacity[t] > 0 /\ Scanned(t) = Last
    BY <1>1, <1>14 DEF AllocateBlock, At, Asking, MessageInHand
  <2>2. At(t)' \in {"allocated", "refused"}
    BY <1>14, AllocateEffect
  <2>3. QED
    BY <1>1, <2>1, <2>2, HandKept DEF Goal
<1>15. CASE AllocateBadBlock(t)
  <2>1. /\ msg' = msg /\ location' = location /\ capacity' = capacity
        /\ pc[t] = "pack" /\ capacity[t] > 0 /\ Scanned(t) = Last
    BY <1>1, <1>15 DEF AllocateBadBlock, At, Asking, MessageInHand
  <2>2. At(t)' = "allocated"
    BY <1>1, <1>15 DEF AllocateBadBlock, Goto, At, Asking, LocalTypes
  <2>3. QED
    BY <1>1, <2>1, <2>2, HandKept DEF Goal
<1>16. CASE CheckSize(t)
  <2>1. /\ msg' = msg /\ location' = location /\ capacity' = capacity
        /\ pc[t] = "allocated" /\ capacity[t] > 0 /\ Scanned(t) = Last
    BY <1>1, <1>16 DEF CheckSize, transfer_vars, At, Asking, MessageInHand, Holding
  <2>2. AskThen(t, Dst(t), "validate") /\ "validate" \in Labels \ Asking
    BY <1>16 DEF CheckSize, AskAfterCall, Labels, Asking
  <2>3. At(t)' = "validate"
    BY <1>1, <1>2, <2>1, <2>2, AskedFor
  <2>4. QED
    BY <1>1, <2>1, <2>3, HandKept DEF Goal
<1>17. CASE ValidateBlock(t)
  <2>1. /\ msg' = msg /\ capacity' = capacity
        /\ pc[t] = "validate" /\ capacity[t] > 0 /\ Scanned(t) = Last
    BY <1>1, <1>17 DEF ValidateBlock, At, Asking, MessageInHand, Holding
  <2>2. \/ location' = location /\ At(t)' = "free"
        \/ Len(location'[t]) = Len(location[t]) /\ At(t)' = "rewrite"
    BY <1>17, ValidateEffect
  <2>3. QED
    BY <1>3, <1>5, <2>1, <2>2
<1>18. CASE RewriteText(t) \/ CopyPayloads(t)
  <2>1. /\ msg' = msg /\ location' = location /\ capacity' = capacity
        /\ pc[t] # "idle" /\ capacity[t] > 0 /\ Scanned(t) = Last
    BY <1>1, <1>18 DEF RewriteText, CopyPayloads, At, Asking, MessageInHand, Holding
  <2>2. At(t)' \in {"copy", "free", "delivered"}
    BY <1>1, <1>18 DEF RewriteText, CopyPayloads, GiveBack, Goto, At, Asking, LocalTypes
  <2>3. QED
    BY <1>1, <2>1, <2>2, HandKept DEF Goal
<1>19. CASE FreeTransferred(t)
  <2>1. /\ msg' = msg /\ location' = location /\ pc[t] # "idle"
    BY <1>19 DEF FreeTransferred
  <2>2. At(t)' \in {"freed", "refused"}
    BY <1>1, <1>19 DEF FreeTransferred, FreeBlock, Goto, At, Asking, LocalTypes
  <2>3. QED
    BY <1>3, <2>1, <2>2
<1>20. CASE EndTransfer(t)
  <2>1. msg'[t] = NoMessage /\ location'[t] = <<>> /\ pc'[t] = "idle"
    BY <1>1, <1>20 DEF EndTransfer, Goto, LocalTypes, TransferTypes
  <2>2. Scanned(t)' = 0 /\ Len(msg'[t].locations) = 0
    BY <2>1 DEF Scanned, NoMessage
  <2>3. QED
    BY <2>1, <2>2 DEF MessageInHand, Scanning, Holding, At, Asking, Goal
<1>21. QED
  BY <1>6, <1>7, <1>8, <1>9, <1>10, <1>11, <1>12, <1>13, <1>14, <1>15, <1>16, <1>17, <1>18,
     <1>19, <1>20 DEF TransferStep

LEMMA HandStep ==
  ASSUME NEW t \in Threads, StepOf(t), TypeOK, ThreadsPlaced, MessagesInHand, AllSound
  PROVE  MessagesInHand'
<1>1. \A u \in Movers : MessageInHand(u)
  BY DEF MessagesInHand, MessageInHand
<1>2. CASE MemoryStepOf(t) /\ UNCHANGED transfer_vars
  <2>1. ASSUME NEW u \in Movers PROVE MessageInHand(u)'
    <3>1. /\ At(u)' = At(u) \/ At(u)' \in Shrinking \cup {"refused"}
          /\ pc'[u] # "idle" => pc[u] # "idle"
      BY <1>2, MemoryAt
    <3>2. msg'[u] = msg[u] /\ location'[u] = location[u] /\ capacity'[u] = capacity[u]
      BY <1>2 DEF transfer_vars
    <3>3. QED
      BY <1>1, <3>1, <3>2, MemoryHandKept
  <2>2. QED
    BY <2>1 DEF MessagesInHand, MessageInHand
<1>3. CASE t \in Movers /\ TransferStep(t)
  <2>1. ASSUME NEW u \in Movers, u # t PROVE MessageInHand(u)'
    <3>1. OthersKept(t)
      BY OthersStep
    <3>2. /\ pc'[u] = pc[u] /\ ret'[u] = ret[u] /\ msg'[u] = msg[u]
          /\ location'[u] = location[u] /\ capacity'[u] = capacity[u]
      BY <2>1, <3>1 DEF OthersKept, Threads
    <3>3. At(u)' = At(u)
      BY <3>2 DEF At
    <3>4. QED
      BY <1>1, <3>2, <3>3, MemoryHandKept
  <2>2. \A u \in Movers : MessageInHand(u)'
    BY <1>3, <2>1, TransferHand
  <2>3. QED
    BY <2>2 DEF MessagesInHand, MessageInHand
<1>4. QED
  BY <1>2, <1>3 DEF StepOf

-----------------------------------------------------------------------------
(* The invariant on which the others rest.                                 *)

DataPathInv == TypeOK /\ AllSound /\ ThreadsPlaced /\ MessagesInHand

LEMMA BaseInit == Init => DataPathInv
<1> SUFFICES ASSUME Init PROVE DataPathInv
  OBVIOUS
<1>1. /\ Reserve \in Nat /\ InitialSize \in 1..Reserve /\ StaticData \in 1..InitialSize
      /\ InitialSize % PageSize = 0 /\ SizeMax \in Nat
  BY SizesTyped, AddressesTyped
<1>2. PICK kind \in Builds : ctx = [m \in Modules |-> Initialized(kind[m])]
  BY DEF Init, MemoryInit
<1>3. \A m \in Modules : kind[m] \in Kinds
  BY MemoryAssumption
<1>4. ASSUME NEW k \in Kinds
      PROVE  /\ Initialized(k) \in Records /\ Initialized(k).active = InitialSize
             /\ Initialized(k).backed = InitialSize
             /\ Initialized(k).memory_size = InitialSize /\ Initialized(k).type = k
  BY <1>1 DEF Initialized, Records
<1>5. /\ StaticBlock \in Blocks /\ StaticBlock.at + StaticBlock.length <= InitialSize
  BY <1>1 DEF StaticBlock, Blocks
<1>6. /\ live = [m \in Modules |-> {StaticBlock}]
      /\ live \in [Modules -> SUBSET Blocks]
  BY <1>5 DEF Init, MemoryInit
<1>7. ctx \in [Modules -> Records]
  BY <1>2, <1>3, <1>4
<1>8. AllSound
  <2>1. ASSUME NEW m \in Modules PROVE Sound(ctx[m], live[m])
    <3>1. ctx[m] = Initialized(kind[m]) /\ live[m] = {StaticBlock}
      BY <1>2, <1>6
    <3>2. InitialSize <= InitialSize /\ InitialSize >= InitialSize
      BY <1>1
    <3>3. QED
      BY <1>1, <1>3, <1>4, <1>5, <3>1, <3>2 DEF Sound
  <2>2. QED
    BY <1>7, <2>1 DEF AllSound
<1>9. /\ pc = [t \in Threads |-> "idle"] /\ ret = [t \in Threads |-> "idle"]
      /\ on = [t \in Threads |-> NoModule]
  BY DEF Init, MemoryInit
<1>10. LocalTypes
  BY <1>9 DEF LocalTypes, Labels
<1>11. /\ sample \in [Threads -> 0..Reserve] /\ size \in [Threads -> 0..Reserve]
       /\ current \in [Threads -> SUBSET (0..Reserve)]
  BY <1>1 DEF Init, MemoryInit
<1>12. mutex \in [Modules -> [Locks -> Threads \cup {NoThread}]]
  BY DEF Init, MemoryInit, Locks
<1>13. TransferTypes
  <2>1. 0 \in Sizes /\ <<>> \in Seq(Resolutions) /\ "none" \in Reasons
    BY <1>1 DEF Sizes, Reasons
  <2>2. QED
    BY <2>1 DEF TransferTypes, Init, TransferInit
<1>14. TypeOK
  BY <1>6, <1>7, <1>10, <1>11, <1>12, <1>13 DEF TypeOK, Records, LocalTypes, TransferTypes
<1>15. ThreadsPlaced
  BY <1>9 DEF ThreadsPlaced, Asking, Shrinking
<1>16. MessagesInHand
  <2>1. ASSUME NEW t \in Movers PROVE MessageInHand(t)
    <3>1. t \in Threads /\ pc[t] = "idle" /\ At(t) = "idle"
      BY <1>9 DEF Threads, At, Asking
    <3>2. location[t] = <<>> /\ msg[t] = NoMessage
      BY DEF Init, TransferInit
    <3>3. Scanned(t) = 0 /\ Len(msg[t].locations) = 0
      BY <3>2 DEF Scanned, NoMessage
    <3>4. QED
      BY <3>1, <3>2, <3>3 DEF MessageInHand, Scanning, Holding
  <2>2. QED
    BY <2>1 DEF MessagesInHand, MessageInHand
<1>17. QED
  BY <1>8, <1>14, <1>15, <1>16 DEF DataPathInv

LEMMA BaseStep == DataPathInv /\ [Next]_vars => DataPathInv' /\ KindsKept
<1> SUFFICES ASSUME DataPathInv, [Next]_vars PROVE DataPathInv' /\ KindsKept
  OBVIOUS
<1>1. TypeOK /\ AllSound /\ ThreadsPlaced /\ MessagesInHand
  BY DEF DataPathInv
<1>2. LocalTypes /\ TransferTypes
  BY <1>1 DEF TypeOK, LocalTypes, TransferTypes
<1>3. ASSUME NEW t \in Threads, StepOf(t)
      PROVE  DataPathInv' /\ KindsKept
  <2>1. AllSound' /\ live' \in [Modules -> SUBSET Blocks] /\ KindsKept
    BY <1>1, <1>3, MemoriesStep DEF KindsKept
  <2>2. LocalTypes'
    BY <1>1, <1>3, LocalsStep
  <2>3. mutex' \in [Modules -> [Locks -> Threads \cup {NoThread}]]
    BY <1>1, <1>3, LocksStep
  <2>4. sample' \in [Threads -> 0..Reserve] /\ size' \in [Threads -> 0..Reserve]
    BY <1>1, <1>3, SizesStep
  <2>5. current' \in [Threads -> SUBSET (0..Reserve)]
    BY <1>1, <1>3, <2>1, CurrentStep
  <2>6. TransferTypes'
    <3>1. CASE UNCHANGED transfer_vars
      BY <1>2, <3>1 DEF TransferTypes, transfer_vars
    <3>2. CASE t \in Movers /\ TransferStep(t)
      BY <1>1, <3>2, TransferTypesStep
    <3>3. QED
      BY <1>3, <3>1, <3>2 DEF StepOf
  <2>7. TypeOK'
    BY <2>1, <2>2, <2>3, <2>4, <2>5, <2>6
    DEF TypeOK, AllSound, Records, LocalTypes, TransferTypes
  <2>8. ThreadsPlaced'
    BY <1>1, <1>3, <2>1, PlacedStep
  <2>9. MessagesInHand'
    BY <1>1, <1>3, HandStep
  <2>10. QED
    BY <2>1, <2>7, <2>8, <2>9 DEF DataPathInv
<1>4. ASSUME UNCHANGED <<live, mutex, pc, on, ret, sample, size, current>>,
             UNCHANGED transfer_vars, AllSound', KindsKept
      PROVE  DataPathInv' /\ KindsKept
  <2>1. TypeOK'
    BY <1>1, <1>4 DEF TypeOK, AllSound, Records, transfer_vars
  <2>2. ThreadsPlaced'
    <3>1. \A t \in Threads : ThreadPlaced(t)
      BY <1>1 DEF ThreadsPlaced, ThreadPlaced
    <3>2. \A t \in Threads : ThreadPlaced(t)'
      BY <1>4, <3>1, ThreadStaysPlaced DEF transfer_vars
    <3>3. QED
      BY <3>2 DEF ThreadsPlaced, ThreadPlaced
  <2>3. MessagesInHand'
    <3>1. \A t \in Movers : MessageInHand(t)
      BY <1>1 DEF MessagesInHand, MessageInHand
    <3>2. ASSUME NEW t \in Movers PROVE MessageInHand(t)'
      <4>1. At(t)' = At(t)
        BY <1>4 DEF At
      <4>2. QED
        BY <1>4, <3>1, <4>1, MemoryHandKept DEF transfer_vars
    <3>3. QED
      BY <3>2 DEF MessagesInHand, MessageInHand
  <2>4. QED
    BY <1>4, <2>1, <2>2, <2>3 DEF DataPathInv
<1>5. CASE ReclaimStep
  <2>1. AllSound' /\ KindsKept
    BY <1>1, <1>5, MemoriesReclaimed DEF KindsKept
  <2>2. QED
    BY <1>4, <1>5, <2>1 DEF ReclaimStep, Reclaim
<1>6. CASE UNCHANGED vars
  <2>1. AllSound' /\ KindsKept
    BY <1>1, <1>6 DEF AllSound, KindsKept, vars, memory_vars
  <2>2. QED
    BY <1>4, <1>6, <2>1 DEF vars, memory_vars
<1>7. QED
  BY <1>3, <1>5, <1>6, Steps

LEMMA BaseHolds == Spec => []DataPathInv
<1>1. QED
  BY BaseInit, BaseStep, PTL DEF Spec

-----------------------------------------------------------------------------

(* Every variable of the data path stays of its type: sizes and addresses  *)
(* stay representable in the width of an address, memories within their    *)
(* reservation, and threads at the steps of the code.                      *)
THEOREM TypeCorrect == Spec => []TypeOK
<1>1. DataPathInv => TypeOK
  BY DEF DataPathInv
<1>2. QED
  BY <1>1, BaseHolds, PTL

(* What has been allocated stays within the active and backed memory,      *)
(* whoever shrinks the memory or reclaims its pages at the same time.      *)
THEOREM BlocksStayBacked == Spec => []LiveBlocksBacked
<1>1. DataPathInv => LiveBlocksBacked
  BY DEF DataPathInv, AllSound, Sound, LiveBlocksBacked
<1>2. QED
  BY <1>1, BaseHolds, PTL

-----------------------------------------------------------------------------
(* Pages behind the active memory.                                         *)

(* A memory whose idle pages, if it has any, it had before, or none.       *)
NoNewIdlePages(m) ==
  \/ /\ ctx'[m].backed > RoundUp(ctx'[m].active) => ctx[m].backed > RoundUp(ctx[m].active)
     /\ ctx[m].memory_reclaim_pending => ctx'[m].memory_reclaim_pending
  \/ ~(ctx'[m].backed > RoundUp(ctx'[m].active))

LEMMA IdlePagesKept ==
  ASSUME NEW t \in Threads, OthersKept(t), IdlePagesPending, pc[t] # "mark",
         NEW m \in Modules, NoNewIdlePages(m)
  PROVE  ctx'[m].backed > RoundUp(ctx'[m].active) =>
           \/ ctx'[m].memory_reclaim_pending
           \/ \E u \in Threads : pc'[u] = "mark" /\ on'[u] = m
<1>1. ASSUME NEW u \in Threads, pc[u] = "mark", on[u] = m
      PROVE  pc'[u] = "mark" /\ on'[u] = m
  BY <1>1 DEF OthersKept
<1>2. QED
  BY <1>1 DEF IdlePagesPending, NoNewIdlePages

LEMMA IdlePagesStep ==
  ASSUME NEW t \in Threads, StepOf(t), DataPathInv, DataPathInv', IdlePagesPending
  PROVE  IdlePagesPending'
<1> DEFINE Goal == IdlePagesPending'
<1>1. /\ TypeOK /\ AllSound /\ ThreadsPlaced /\ MessagesInHand /\ AllSound' /\ OthersKept(t)
      /\ ThreadPlaced(t)
  BY OthersStep DEF DataPathInv, ThreadsPlaced, ThreadPlaced
<1>2. ASSUME pc[t] # "mark", \A m \in Modules : NoNewIdlePages(m)
      PROVE  Goal
  BY <1>1, <1>2, IdlePagesKept DEF IdlePagesPending
<1>3. ctx' = ctx => \A m \in Modules : NoNewIdlePages(m)
  BY DEF NoNewIdlePages
<1>4. ASSUME NEW m \in Modules, NEW n \in Nat, NEW at, Malloc(t, m, n, at)
      PROVE  \A k \in Modules : NoNewIdlePages(k)
  <2>1. /\ \A k \in Modules : k # m => ctx'[k] = ctx[k]
        /\ ctx'[m].memory_reclaim_pending = ctx[m].memory_reclaim_pending
        /\ ctx'[m].backed > RoundUp(ctx'[m].active) => ctx[m].backed > RoundUp(ctx[m].active)
    BY <1>1, <1>4, MallocSound DEF TypeOK
  <2>2. QED
    BY <2>1 DEF NoNewIdlePages
<1>5. ASSUME NEW m \in Modules, NEW d, ctx' = [ctx EXCEPT ![m] = d],
             \/ ~(d.backed > RoundUp(d.active))
             \/ /\ d.backed = ctx[m].backed /\ d.active = ctx[m].active
                /\ d.memory_reclaim_pending = ctx[m].memory_reclaim_pending
      PROVE  \A k \in Modules : NoNewIdlePages(k)
  <2>1. ctx'[m] = d /\ \A k \in Modules : k # m => ctx'[k] = ctx[k]
    BY <1>1, <1>5 DEF AllSound
  <2>2. QED
    BY <1>5, <2>1 DEF NoNewIdlePages
<1>6. /\ pc[t] \in Shrinking \cup Asking => on[t] \in Modules
      /\ ctx \in [Modules -> Records]
  BY <1>1 DEF ThreadPlaced, AllSound
<1> SUFFICES Goal
  OBVIOUS
<1> HIDE DEF Goal
<1>7. CASE t \in Guests /\ GuestAllocates(t)
  BY <1>2, <1>4, <1>7, MemoryAssumption DEF GuestAllocates
<1>8. CASE ShrinkTranslated(t)
  <2> DEFINE m == on[t]
             d == [ctx[m] EXCEPT !.active = Top(m), !.memory_size = Top(m),
                                 !.backed = RoundUp(Top(m))]
  <2>1. m \in Modules /\ pc[t] # "mark"
    BY <1>6, <1>8 DEF ShrinkTranslated, Shrinking
  <2>2. CASE ctx' = ctx
    BY <1>2, <1>3, <2>1, <2>2
  <2>3. CASE ctx' = [ctx EXCEPT ![m] = d]
    <3>1. d.backed = RoundUp(Top(m)) /\ d.active = Top(m)
      BY <1>6, <2>1 DEF Records
    <3>2. ~(RoundUp(Top(m)) > RoundUp(Top(m)))
      <4> HIDE DEF m
      <4>1. Top(m) \in Nat
        BY <1>1, <2>1, EndsBounded
      <4>2. QED
        BY <4>1, PagesRounded
    <3> HIDE DEF d, m
    <3>3. QED
      BY <1>2, <1>5, <2>1, <2>3, <3>1, <3>2
  <2>4. QED
    BY <1>8, <2>2, <2>3 DEF ShrinkTranslated, Becomes
<1>9. CASE ShrinkWasmtime(t)
  <2> DEFINE m == on[t]
             d == [ctx[m] EXCEPT !.active = Target(m),
                                 !.backed = IF Entered(m) THEN Target(m) ELSE ctx[m].backed]
  <2>1. m \in Modules /\ pc[t] # "mark" /\ Type(m) \in {"ordinary", "shared"}
    BY <1>6, <1>9 DEF ShrinkWasmtime, Shrinking
  <2>2. CASE ctx' = ctx
    BY <1>2, <1>3, <2>1, <2>2
  <2>3. CASE ctx' = [ctx EXCEPT ![m] = d] /\ Entered(m)
    <3>1. d.backed = Target(m) /\ d.active = Target(m)
      BY <1>6, <2>1, <2>3 DEF Records
    <3>2. ~(Target(m) > RoundUp(Target(m)))
      <4> HIDE DEF m
      <4>1. Type(m) \notin Translated
        BY <2>1 DEF Translated
      <4>2. Target(m) \in Nat /\ Target(m) % PageSize = 0
        BY <1>1, <2>1, <4>1, TargetBounds DEF Type
      <4>3. QED
        BY <4>2, PagesRounded
    <3> HIDE DEF d, m
    <3>3. QED
      BY <1>2, <1>5, <2>1, <2>3, <3>1, <3>2
  <2>4. CASE /\ ctx' = [ctx EXCEPT ![m] = d] /\ ~Entered(m)
             /\ pc' = [pc EXCEPT ![t] = "mark"] /\ on' = on
    <3>1. pc'[t] = "mark" /\ on'[t] = m
      BY <1>1, <2>4 DEF TypeOK
    <3>2. \A k \in Modules : k # m => ctx'[k] = ctx[k]
      BY <1>6, <2>4
    <3>3. \A k \in Modules : k # m => NoNewIdlePages(k)
      BY <3>2 DEF NoNewIdlePages
    <3> HIDE DEF d, m
    <3>4. QED
      BY <1>1, <2>1, <3>1, <3>3, IdlePagesKept DEF IdlePagesPending, Goal
  <2>5. QED
    BY <1>9, <2>2, <2>3, <2>4 DEF ShrinkWasmtime, Becomes
<1>10. CASE MarkReclaimable(t)
  <2> DEFINE m == on[t]
  <2>1. m \in Modules /\ ctx' = [ctx EXCEPT ![m].memory_reclaim_pending = TRUE]
    BY <1>6, <1>10 DEF MarkReclaimable, Shrinking
  <2>2. ctx'[m].memory_reclaim_pending
    BY <1>6, <2>1 DEF Records
  <2>3. \A k \in Modules : k # m => ctx'[k] = ctx[k]
    BY <1>6, <2>1
  <2>4. ASSUME NEW k \in Modules, k # m, ctx'[k].backed > RoundUp(ctx'[k].active),
               ~ctx'[k].memory_reclaim_pending
        PROVE  \E u \in Threads : pc'[u] = "mark" /\ on'[u] = k
    <3>1. PICK u \in Threads : pc[u] = "mark" /\ on[u] = k
      BY <2>3, <2>4 DEF IdlePagesPending
    <3>2. u # t
      BY <2>4, <3>1
    <3>3. QED
      BY <1>1, <3>1, <3>2 DEF OthersKept
  <2> HIDE DEF m
  <2>5. QED
    BY <2>2, <2>4 DEF IdlePagesPending, Goal
<1>11. CASE RefreshShrunk(t)
  <2> DEFINE m == on[t]
             d == [ctx[m] EXCEPT !.memory_size = ctx[m].active]
  <2>1. m \in Modules /\ ctx' = [ctx EXCEPT ![m] = d] /\ pc[t] # "mark"
    BY <1>6, <1>11 DEF RefreshShrunk, Shrinking
  <2>2. /\ d.backed = ctx[m].backed /\ d.active = ctx[m].active
        /\ d.memory_reclaim_pending = ctx[m].memory_reclaim_pending
    BY <1>6, <2>1 DEF Records
  <2> HIDE DEF d, m
  <2>3. QED
    BY <1>2, <1>5, <2>1, <2>2
<1>12. CASE PublishSize(t)
  <2> DEFINE m == on[t]
             d == [ctx[m] EXCEPT !.memory_size = sample[t]]
  <2>1. m \in Modules /\ ctx' = [ctx EXCEPT ![m] = d] /\ pc[t] # "mark"
    BY <1>6, <1>12 DEF PublishSize, Asking
  <2>2. /\ d.backed = ctx[m].backed /\ d.active = ctx[m].active
        /\ d.memory_reclaim_pending = ctx[m].memory_reclaim_pending
    BY <1>6, <2>1 DEF Records
  <2> HIDE DEF d, m
  <2>3. QED
    BY <1>2, <1>5, <2>1, <2>2
<1>13. CASE t \in Movers /\ AllocateBlock(t)
  <2>1. pc[t] = "pack" /\ Dst(t) \in Modules
        /\ \E at \in Nat : Malloc(t, Dst(t), allocation[t], at)
    BY <1>1, <1>13, AllocateEffect
  <2>2. allocation[t] \in Nat
    BY <1>1, <1>13, AddressesTyped DEF TypeOK, Sizes
  <2>3. QED
    BY <1>2, <1>4, <2>1, <2>2
<1>14. CASE t \in Movers /\ FreeTransferred(t)
  BY <1>2, <1>3, <1>14 DEF FreeTransferred
<1>15. CASE \/ (t \in Guests /\ GuestFrees(t))
            \/ KeepTail(t)
            \/ SampleSize(t)
            \/ ReadSize(t)
            \/ (t \in Readers /\ BeginRead(t))
            \/ (t \in Movers /\ BeginTransfer(t))
            \/ (t \in Movers /\ Measure(t))
            \/ (t \in Movers /\ Scan(t))
            \/ (t \in Movers /\ Resolve(t))
            \/ (t \in Movers /\ PlaceLocation(t))
            \/ (t \in Movers /\ ReserveText(t))
            \/ (t \in Movers /\ AlignText(t))
            \/ (t \in Movers /\ PackPayload(t))
            \/ (t \in Movers /\ AllocateBadBlock(t))
            \/ (t \in Movers /\ CheckSize(t))
            \/ (t \in Movers /\ ValidateBlock(t))
            \/ (t \in Movers /\ RewriteText(t))
            \/ (t \in Movers /\ CopyPayloads(t))
            \/ (t \in Movers /\ EndTransfer(t))
  BY <1>2, <1>3, <1>15
  DEF GuestFrees, KeepTail, SampleSize, ReadSize, BeginRead, BeginTransfer,
      Measure, Scan, Resolve, PlaceLocation, ReserveText, AlignText,
      PackPayload, AllocateBadBlock, CheckSize, ValidateBlock, RewriteText,
      CopyPayloads, EndTransfer, FreeBlock,       KeepMemory
<1>16. CASE MemoryStepOf(t)
  BY <1>7, <1>8, <1>9, <1>10, <1>11, <1>12, <1>15, <1>16 DEF MemoryStepOf
<1>17. CASE t \in Movers /\ TransferStep(t)
  BY <1>13, <1>14, <1>15, <1>17 DEF TransferStep
<1>18. QED
  BY <1>16, <1>17 DEF StepOf

LEMMA IdlePagesReclaimed ==
  ASSUME ReclaimStep, DataPathInv, IdlePagesPending
  PROVE  IdlePagesPending'
<1>1. PICK m \in Modules, failed \in BOOLEAN :
        /\ ctx[m].memory_reclaim_pending /\ pc' = pc /\ on' = on
        /\ ctx' = [ctx EXCEPT ![m].backed = IF failed THEN @ ELSE ReclaimExtent(ctx[m]),
                              ![m].memory_reclaim_pending = PendingAfter(failed)]
  BY DEF ReclaimStep, Reclaim
<1>2. ctx \in [Modules -> Records]
  BY DEF DataPathInv, AllSound
<1>3. ctx[m].active \in Nat
  BY <1>2, RecordFields
<1>4. RoundUp(ctx[m].active) >= ctx[m].active /\ RoundUp(ctx[m].active) \in Nat
  BY <1>3, PagesRounded
<1>5. /\ ctx'[m].active = ctx[m].active
      /\ failed => ctx'[m].memory_reclaim_pending
      /\ ~failed => ctx'[m].backed = ctx[m].active
  BY <1>1, <1>2 DEF Records, ReclaimExtent, PendingAfter
<1>6. ~failed => ~(ctx'[m].backed > RoundUp(ctx'[m].active))
  BY <1>3, <1>4, <1>5
<1>7. \A k \in Modules : k # m => ctx'[k] = ctx[k]
  BY <1>1, <1>2
<1>8. QED
  BY <1>1, <1>5, <1>6, <1>7 DEF IdlePagesPending

(* No pages stay backed behind the active memory, except of a shared       *)
(* memory whose reclamation is pending: a failed one is tried again.       *)
THEOREM IdlePagesReclaimable == Spec => []IdlePagesPending
<1>1. Init => IdlePagesPending
  <2>1. ASSUME Init, NEW m \in Modules PROVE ~(ctx[m].backed > RoundUp(ctx[m].active))
    <3>1. ctx[m].backed = InitialSize /\ ctx[m].active = InitialSize
      BY <2>1 DEF Init, MemoryInit, Initialized
    <3>2. InitialSize \in Nat
      BY SizesTyped
    <3>3. RoundUp(InitialSize) >= InitialSize /\ RoundUp(InitialSize) \in Nat
      BY <3>2, PagesRounded
    <3>4. QED
      BY <3>1, <3>2, <3>3
  <2>2. QED
    BY <2>1 DEF IdlePagesPending
<1>2. DataPathInv /\ IdlePagesPending /\ [Next]_vars => IdlePagesPending'
  <2> SUFFICES ASSUME DataPathInv, IdlePagesPending, [Next]_vars PROVE IdlePagesPending'
    OBVIOUS
  <2>1. DataPathInv'
    BY BaseStep
  <2>2. CASE \E t \in Threads : StepOf(t)
    BY <2>1, <2>2, IdlePagesStep
  <2>3. CASE ReclaimStep
    BY <2>3, IdlePagesReclaimed
  <2>4. CASE UNCHANGED vars
    BY <2>4 DEF IdlePagesPending, vars, memory_vars
  <2>5. QED
    BY <2>2, <2>3, <2>4, Steps
<1>3. QED
  BY <1>1, <1>2, BaseHolds, PTL DEF Spec

-----------------------------------------------------------------------------
(* Whose the blocks are.                                                   *)

Owned(u, m) == {b \in live[m] : b.owner = u}

LEMMA MallocOwned ==
  ASSUME NEW t \in Threads, NEW m \in Modules, NEW n, NEW at, Malloc(t, m, n, at),
         live \in [Modules -> SUBSET Blocks], NEW u, NEW k \in Modules
  PROVE  Owned(u, k)' = IF at # 0 /\ k = m /\ u = t
                        THEN Owned(u, k) \cup {[at |-> at, length |-> n, owner |-> t]}
                        ELSE Owned(u, k)
<1> DEFINE b == [at |-> at, length |-> n, owner |-> t]
<1>1. live' = IF at = 0 THEN live ELSE [live EXCEPT ![m] = @ \cup {b}]
  BY DEF Malloc
<1>2. b.owner = t
  OBVIOUS
<1> HIDE DEF b
<1>3. live'[k] = IF at # 0 /\ k = m THEN live[k] \cup {b} ELSE live[k]
  BY <1>1
<1>4. QED
  BY <1>2, <1>3 DEF Owned, b

LEMMA FreeOwned ==
  ASSUME NEW t \in Threads, NEW m \in Modules, NEW b, NEW next, FreeBlock(t, m, b, next),
         live \in [Modules -> SUBSET Blocks], NEW u, NEW k \in Modules
  PROVE  Owned(u, k)' = IF k = m /\ u = b.owner THEN Owned(u, k) \ {b} ELSE Owned(u, k)
<1>1. live' = [live EXCEPT ![m] = @ \ {b}]
  BY DEF FreeBlock
<1>2. live'[k] = IF k = m THEN live[k] \ {b} ELSE live[k]
  BY <1>1
<1>3. QED
  BY <1>2 DEF Owned

(* Only a transfer's own steps change what it owns.                        *)
LEMMA OwnedKept ==
  ASSUME NEW t \in Threads, StepOf(t), DataPathInv, NEW u \in Movers, NEW k \in Modules,
         u # t \/ MemoryStepOf(t)
  PROVE  Owned(u, k)' = Owned(u, k)
<1> DEFINE Goal == Owned(u, k)' = Owned(u, k)
<1>1. live' = live => Goal
  BY DEF Owned
<1>2. live \in [Modules -> SUBSET Blocks] /\ t \in Guests => t # u
  BY MemoryAssumption DEF DataPathInv, TypeOK
<1>3. ASSUME NEW m \in Modules, NEW n, NEW at, Malloc(t, m, n, at), u # t
      PROVE  Goal
  BY <1>3, MallocOwned, ZenonT(30) DEF DataPathInv, TypeOK
<1>4. ASSUME NEW m \in Modules, NEW b \in live[m], NEW next, FreeBlock(t, m, b, next),
             b.owner # u
      PROVE  Goal
  <2>1. live \in [Modules -> SUBSET Blocks]
    BY DEF DataPathInv, TypeOK
  <2>2. Owned(u, k)' = IF k = m /\ u = b.owner THEN Owned(u, k) \ {b} ELSE Owned(u, k)
    BY <1>4, <2>1, FreeOwned
  <2>3. QED
    BY <1>4, <2>2
<1>5. pc[t] # "idle" /\ t \in Movers => Dst(t) \in Modules
  BY InHand DEF DataPathInv
<1> SUFFICES Goal
  OBVIOUS
<1> HIDE DEF Goal
<1>6. CASE t \in Guests /\ GuestAllocates(t)
  BY <1>2, <1>3, <1>6, MemoryAssumption DEF GuestAllocates
<1>7. CASE t \in Guests /\ GuestFrees(t)
  BY <1>4, <1>7, MemoryAssumption DEF GuestFrees
<1>8. CASE t \in Movers /\ AllocateBlock(t) /\ u # t
  <2>1. Dst(t) \in Modules /\ \E at : Malloc(t, Dst(t), allocation[t], at)
    BY <1>5, <1>8 DEF AllocateBlock
  <2>2. QED
    BY <1>3, <1>8, <2>1
<1>9. CASE t \in Movers /\ FreeTransferred(t) /\ u # t
  <2>1. CASE \E b \in live[Dst(t)] : b.owner = t /\ FreeBlock(t, Dst(t), b, "refused")
    BY <1>4, <1>5, <1>9, <2>1 DEF FreeTransferred
  <2>2. CASE UNCHANGED live
    BY <1>1, <2>2
  <2>3. QED
    BY <1>9, <2>1, <2>2 DEF FreeTransferred
<1>10. CASE \/ KeepTail(t)
            \/ ShrinkTranslated(t)
            \/ ShrinkWasmtime(t)
            \/ MarkReclaimable(t)
            \/ RefreshShrunk(t)
            \/ SampleSize(t)
            \/ PublishSize(t)
            \/ ReadSize(t)
            \/ (t \in Readers /\ BeginRead(t))
            \/ (t \in Movers /\ BeginTransfer(t))
            \/ (t \in Movers /\ Measure(t))
            \/ (t \in Movers /\ Scan(t))
            \/ (t \in Movers /\ Resolve(t))
            \/ (t \in Movers /\ PlaceLocation(t))
            \/ (t \in Movers /\ ReserveText(t))
            \/ (t \in Movers /\ AlignText(t))
            \/ (t \in Movers /\ PackPayload(t))
            \/ (t \in Movers /\ AllocateBadBlock(t))
            \/ (t \in Movers /\ CheckSize(t))
            \/ (t \in Movers /\ ValidateBlock(t))
            \/ (t \in Movers /\ RewriteText(t))
            \/ (t \in Movers /\ CopyPayloads(t))
            \/ (t \in Movers /\ EndTransfer(t))
  BY <1>1, <1>10
  DEF KeepTail, ShrinkTranslated, ShrinkWasmtime, MarkReclaimable,
      RefreshShrunk, SampleSize, PublishSize, ReadSize, BeginRead,
      BeginTransfer, Measure, Scan, Resolve, PlaceLocation, ReserveText,
      AlignText, PackPayload, AllocateBadBlock, CheckSize, ValidateBlock,
      RewriteText, CopyPayloads, EndTransfer, KeepMemory
<1>11. CASE MemoryStepOf(t)
  BY <1>6, <1>7, <1>10, <1>11 DEF MemoryStepOf
<1>12. CASE t \in Movers /\ TransferStep(t) /\ u # t
  BY <1>8, <1>9, <1>10, <1>12 DEF TransferStep
<1>13. QED
  BY <1>11, <1>12 DEF StepOf

BlockHeld(t) ==
  /\ \A m \in Modules : \A b \in Owned(t, m) :
       /\ At(t) \in Holding /\ m = Dst(t)
       /\ b.length = allocation[t] /\ block[t] = BlockAddress(m, b.at)
  /\ At(t) \in Holding =>
       \/ block[t] \in BadBlocks /\ Type(Dst(t)) # "native"
       \/ \E b \in live[Dst(t)] : b.owner = t
  /\ At(t) \notin Holding => block[t] = 0

LEMMA HeldByEach == BlocksHeld <=> \A t \in Movers : BlockHeld(t)
  BY DEF BlocksHeld, BlockHeld, Owned

LEMMA BlockStaysHeld ==
  ASSUME NEW t \in Movers, BlockHeld(t), DataPathInv, KindsKept, block'[t] = block[t],
         \A m \in Modules : Owned(t, m)' = Owned(t, m),
         \/ At(t) \notin Holding /\ At(t)' \notin Holding
         \/ /\ At(t) \in Holding /\ At(t)' \in Holding
            /\ msg'[t] = msg[t] /\ allocation'[t] = allocation[t]
  PROVE  BlockHeld(t)'
<1>1. CASE At(t) \notin Holding /\ At(t)' \notin Holding
  <2>1. \A m \in Modules : Owned(t, m)' = {}
    BY <1>1 DEF BlockHeld
  <2>2. QED
    BY <1>1, <2>1 DEF BlockHeld
<1>2. CASE /\ At(t) \in Holding /\ At(t)' \in Holding
           /\ msg'[t] = msg[t] /\ allocation'[t] = allocation[t]
  <2>1. pc[t] # "idle"
    BY <1>2 DEF At, Asking, Holding
  <2>2. Dst(t)' = Dst(t) /\ Dst(t) \in Modules
    BY <1>2, <2>1, InHand DEF Dst, DataPathInv
  <2>3. \A m \in Modules : Type(m)' = Type(m)
    BY DEF KindsKept, Type
  <2>4. \A m \in Modules : \A at : BlockAddress(m, at)' = BlockAddress(m, at)
    BY <2>3 DEF BlockAddress
  <2>5. \A m \in Modules : \A b \in Owned(t, m)' :
           /\ m = Dst(t)' /\ b.length = allocation'[t]
           /\ block'[t] = BlockAddress(m, b.at)'
    BY <1>2, <2>2, <2>4 DEF BlockHeld
  <2>6. (\E b \in live[Dst(t)] : b.owner = t) => \E b \in live'[Dst(t)'] : b.owner = t
    BY <2>2 DEF Owned
  <2>7. \/ block'[t] \in BadBlocks /\ Type(Dst(t))' # "native"
        \/ \E b \in live'[Dst(t)'] : b.owner = t
    BY <1>2, <2>2, <2>3, <2>6 DEF BlockHeld
  <2>8. QED
    BY <1>2, <2>5, <2>7 DEF BlockHeld
<1>3. QED
  BY <1>1, <1>2

(* The steps of a transfer that neither allocate nor free.                 *)
LEMMA TransferHolds ==
  ASSUME NEW t \in Movers, TransferStep(t), DataPathInv,
         ~AllocateBlock(t), ~AllocateBadBlock(t), ~FreeTransferred(t)
  PROVE  /\ live' = live /\ block' = block
         /\ \/ At(t) \notin Holding /\ At(t)' \notin Holding
            \/ /\ At(t) \in Holding /\ At(t)' \in Holding
               /\ msg'[t] = msg[t] /\ allocation'[t] = allocation[t]
<1> DEFINE Goal == /\ live' = live /\ block' = block
                   /\ \/ At(t) \notin Holding /\ At(t)' \notin Holding
                      \/ /\ At(t) \in Holding /\ At(t)' \in Holding
                         /\ msg'[t] = msg[t] /\ allocation'[t] = allocation[t]
<1>1. TypeOK /\ MessagesInHand /\ LocalTypes /\ t \in Threads
  BY DEF DataPathInv, TypeOK, LocalTypes, Threads
<1>2. pc[t] # "idle" => Dst(t) \in Modules /\ Src(t) \in Modules \cup {Host}
  BY <1>1, InHand
<1>3. {"measure", "resolve", "place", "validate"} \subseteq Labels \ Asking
  BY DEF Labels, Asking
<1>4. CASE BeginTransfer(t)
  <2>1. PICK m \in Messages : AskThen(t, m.src, "measure")
    BY <1>4 DEF BeginTransfer
  <2>2. m.src \in Modules \cup {Host}
    BY MessageFields
  <2>3. At(t)' = "measure"
    BY <1>1, <1>3, <2>1, <2>2, AskedFor
  <2>4. QED
    BY <1>4, <2>3 DEF BeginTransfer, KeepMemory, At, Asking, Holding
<1>5. CASE Measure(t) \/ ReserveText(t) \/ AlignText(t) \/ EndTransfer(t)
  BY <1>1, <1>5 DEF Measure, ReserveText, AlignText, EndTransfer, KeepMemory, Refuse, Goto,
                    At, Asking, Holding, LocalTypes
<1>6. CASE Scan(t)
  <2>1. At(t)' \in {"scan", "refused", "resolve"}
    BY <1>1, <1>6, ScanEffect
  <2>2. QED
    BY <1>6, <2>1 DEF Scan, KeepMemory, At, Asking, Holding
<1>7. CASE Resolve(t)
  <2>1. At(t)' \in {"reserve", "refused", "place"}
    <3>1. \/ At(t)' = "refused"
          \/ \E l \in Resolutions : At(t)' = IF Described(t).copy_size = 0 THEN "reserve"
                                             ELSE "place"
      BY <1>1, <1>7, ResolveEffect
    <3>2. QED
      BY <3>1
  <2>2. QED
    BY <1>7, <2>1 DEF Resolve, KeepMemory, At, Asking, Holding
<1>8. CASE PlaceLocation(t) \/ PackPayload(t)
  BY <1>1, <1>8 DEF PlaceLocation, PackPayload, KeepMemory, Refuse, Goto, At, Asking, Holding,
                    LocalTypes
<1>9. CASE CheckSize(t)
  <2>1. At(t)' = "validate"
    BY <1>1, <1>2, <1>3, <1>9, AskedFor DEF CheckSize, AskAfterCall
  <2>2. QED
    BY <1>9, <2>1 DEF CheckSize, KeepMemory, transfer_vars, At, Asking, Holding
<1>10. CASE ValidateBlock(t) \/ RewriteText(t) \/ CopyPayloads(t)
  BY <1>1, <1>10 DEF ValidateBlock, RewriteText, CopyPayloads, KeepMemory, GiveBack, Goto, At,
                     Asking, Holding, LocalTypes
<1>11. QED
  BY <1>4, <1>5, <1>6, <1>7, <1>8, <1>9, <1>10 DEF TransferStep

LEMMA BlockTransferred ==
  ASSUME NEW t \in Movers, TransferStep(t), DataPathInv, KindsKept, BlockHeld(t)
  PROVE  BlockHeld(t)'
<1>1. /\ TypeOK /\ MessagesInHand /\ LocalTypes /\ t \in Threads /\ AllSound
      /\ live \in [Modules -> SUBSET Blocks] /\ block \in [Movers -> Sizes]
      /\ allocation \in [Movers -> Sizes]
  BY DEF DataPathInv, TypeOK, LocalTypes, Threads
<1>2. \A m \in Modules : Type(m)' = Type(m)
  BY DEF KindsKept, Type
<1>3. \A m \in Modules : \A at : BlockAddress(m, at)' = BlockAddress(m, at)
  BY <1>2 DEF BlockAddress
<1>4. CASE AllocateBlock(t)
  <2>1. PICK at \in Nat :
          /\ at <= Reserve /\ Malloc(t, Dst(t), allocation[t], at)
          /\ IF at = 0 THEN At(t)' = "refused" /\ block' = block
             ELSE At(t)' = "allocated" /\ block'[t] = BlockAddress(Dst(t), at)
    BY <1>1, <1>4, AllocateEffect
  <2>2. /\ pc[t] = "pack" /\ Dst(t) \in Modules /\ Dst(t)' = Dst(t)
        /\ allocation'[t] = allocation[t]
    BY <1>1, <1>4, InHand DEF AllocateBlock, Dst
  <2>3. At(t) \notin Holding /\ \A m \in Modules : Owned(t, m) = {}
    BY <2>2 DEF At, Asking, Holding, BlockHeld
  <2> DEFINE b == [at |-> at, length |-> allocation[t], owner |-> t]
  <2>4. \A m \in Modules : Owned(t, m)' = IF at # 0 /\ m = Dst(t) THEN {b} ELSE {}
    BY <1>1, <2>1, <2>2, <2>3, MallocOwned
  <2>5. b.at = at /\ b.length = allocation[t] /\ b.owner = t
    OBVIOUS
  <2> HIDE DEF b
  <2>6. CASE at = 0
    <3>1. At(t)' \notin Holding
      BY <2>1, <2>6 DEF Holding
    <3>2. QED
      BY <2>1, <2>3, <2>4, <2>6, <3>1 DEF BlockHeld
  <2>7. CASE at # 0
    <3>1. At(t)' \in Holding
      BY <2>1, <2>7 DEF Holding
    <3>2. b \in live'[Dst(t)]
      BY <2>2, <2>4, <2>7 DEF Owned
    <3>3. \A m \in Modules : \A c \in Owned(t, m)' :
            /\ m = Dst(t)' /\ c.length = allocation'[t]
            /\ block'[t] = BlockAddress(m, c.at)'
      BY <1>3, <2>1, <2>2, <2>4, <2>5, <2>7
    <3>4. QED
      BY <2>2, <2>5, <3>1, <3>2, <3>3 DEF BlockHeld
  <2>8. QED
    BY <2>6, <2>7
<1>5. CASE AllocateBadBlock(t)
  <2>1. /\ pc[t] = "pack" /\ live' = live /\ Dst(t)' = Dst(t) /\ Type(Dst(t)) # "native"
        /\ At(t)' = "allocated" /\ block'[t] \in BadBlocks
    BY <1>1, <1>5 DEF AllocateBadBlock, KeepMemory, Dst, Goto, At, Asking, LocalTypes
  <2>2. Dst(t) \in Modules
    BY <1>1, <2>1, InHand
  <2>3. \A m \in Modules : Owned(t, m)' = {}
    BY <2>1 DEF At, Asking, Holding, BlockHeld, Owned
  <2>4. At(t)' \in Holding
    BY <2>1 DEF Holding
  <2>5. Type(Dst(t))' # "native"
    BY <1>2, <2>1, <2>2
  <2>6. QED
    BY <2>1, <2>3, <2>4, <2>5 DEF BlockHeld
<1>6. CASE FreeTransferred(t)
  <2>1. /\ pc[t] \in {"free", "delivered"} /\ block'[t] = 0
        /\ At(t)' \in {"freed", "refused"}
    BY <1>1, <1>6 DEF FreeTransferred, FreeBlock, Goto, At, Asking, LocalTypes
  <2>2. Dst(t) \in Modules
    BY <1>1, <2>1, InHand
  <2>3. At(t)' \notin Holding
    BY <2>1 DEF Holding
  <2>4. \A m \in Modules : m # Dst(t) => Owned(t, m) = {}
    BY DEF BlockHeld
  <2>5. CASE \E b \in live[Dst(t)] : b.owner = t /\ FreeBlock(t, Dst(t), b, "refused")
    <3>1. PICK b \in live[Dst(t)] : b.owner = t /\ FreeBlock(t, Dst(t), b, "refused")
      BY <2>5
    <3>2. b \in Owned(t, Dst(t))
      BY <3>1 DEF Owned
    <3>3. ASSUME NEW c \in Owned(t, Dst(t)) PROVE c = b
      <4>1. c \in Blocks /\ b \in Blocks /\ c.owner = b.owner
        BY <1>1, <2>2, <3>1 DEF Owned
      <4>2. c.length = b.length /\ BlockAddress(Dst(t), c.at) = BlockAddress(Dst(t), b.at)
        BY <2>2, <3>2 DEF BlockHeld
      <4>3. c.at \in Nat /\ b.at \in Nat /\ Base[Dst(t)] \in Nat
        BY <2>2, <4>1, BlockFields, AddressesTyped
      <4>4. c.at = b.at
        BY <4>2, <4>3 DEF BlockAddress
      <4>5. QED
        BY <4>1, <4>2, <4>4 DEF Blocks
    <3>4. \A m \in Modules : Owned(t, m)' = IF m = Dst(t) THEN Owned(t, m) \ {b}
                                            ELSE Owned(t, m)
      <4>1. ASSUME NEW m \in Modules
            PROVE  Owned(t, m)' = IF m = Dst(t) /\ t = b.owner THEN Owned(t, m) \ {b}
                                  ELSE Owned(t, m)
        <5> DEFINE k == Dst(t)
        <5>1. k \in Modules /\ b \in live[k] /\ FreeBlock(t, k, b, "refused")
          BY <2>2, <3>1
        <5> HIDE DEF k
        <5>2. Owned(t, m)' = IF m = k /\ t = b.owner THEN Owned(t, m) \ {b} ELSE Owned(t, m)
          BY <1>1, <5>1, FreeOwned
        <5>3. QED
          BY <5>2 DEF k
      <4>2. QED
        BY <3>1, <4>1
    <3>5. \A m \in Modules : Owned(t, m)' = {}
      BY <2>4, <3>3, <3>4
    <3>6. QED
      BY <2>1, <2>3, <3>5 DEF BlockHeld
  <2>6. CASE UNCHANGED live /\ \A b \in live[Dst(t)] : b.owner # t
    <3>1. \A m \in Modules : Owned(t, m)' = {}
      BY <2>4, <2>6 DEF Owned
    <3>2. QED
      BY <2>1, <2>3, <3>1 DEF BlockHeld
  <2>7. QED
    BY <1>6, <2>5, <2>6 DEF FreeTransferred
<1>7. CASE ~AllocateBlock(t) /\ ~AllocateBadBlock(t) /\ ~FreeTransferred(t)
  <2>1. /\ live' = live /\ block' = block
        /\ \/ At(t) \notin Holding /\ At(t)' \notin Holding
           \/ /\ At(t) \in Holding /\ At(t)' \in Holding
              /\ msg'[t] = msg[t] /\ allocation'[t] = allocation[t]
    BY <1>7, TransferHolds
  <2>2. \A m \in Modules : Owned(t, m)' = Owned(t, m)
    BY <2>1 DEF Owned
  <2>3. QED
    BY <2>1, <2>2, BlockStaysHeld
<1>8. QED
  BY <1>4, <1>5, <1>6, <1>7

LEMMA HeldStep == DataPathInv /\ BlocksHeld /\ [Next]_vars => BlocksHeld'
<1> SUFFICES ASSUME DataPathInv, BlocksHeld, [Next]_vars PROVE BlocksHeld'
  OBVIOUS
<1>1. KindsKept /\ DataPathInv' /\ TypeOK /\ ThreadsPlaced
  BY BaseStep DEF DataPathInv
<1>2. \A u \in Movers : BlockHeld(u)
  BY HeldByEach
<1>3. ASSUME NEW u \in Movers, NEW t \in Threads, StepOf(t)
      PROVE  BlockHeld(u)'
  <2>1. CASE u = t /\ TransferStep(t)
    BY <1>1, <1>2, <2>1, BlockTransferred
  <2>2. CASE MemoryStepOf(t) /\ UNCHANGED transfer_vars
    <3>1. \/ At(u)' = At(u)
          \/ At(u) \in Shrinking /\ At(u)' \in Shrinking \cup {"refused"}
      BY <1>1, <2>2, MemoryAt
    <3>2. \A m \in Modules : Owned(u, m)' = Owned(u, m)
      BY <1>3, <2>2, OwnedKept
    <3>3. msg'[u] = msg[u] /\ allocation'[u] = allocation[u] /\ block'[u] = block[u]
      BY <2>2 DEF transfer_vars
    <3>4. \/ At(u)' = At(u)
          \/ At(u) \notin Holding /\ At(u)' \notin Holding
      BY <3>1 DEF Shrinking, Holding
    <3>5. QED
      BY <1>1, <1>2, <3>2, <3>3, <3>4, BlockStaysHeld
  <2>3. CASE u # t
    <3>1. OthersKept(t)
      BY <1>1, <1>3, OthersStep
    <3>2. /\ msg'[u] = msg[u] /\ allocation'[u] = allocation[u] /\ block'[u] = block[u]
          /\ pc'[u] = pc[u] /\ ret'[u] = ret[u]
      BY <2>3, <3>1 DEF OthersKept, Threads
    <3>3. At(u)' = At(u)
      BY <3>2 DEF At
    <3>4. \A m \in Modules : Owned(u, m)' = Owned(u, m)
      BY <1>3, <2>3, OwnedKept
    <3>5. QED
      BY <1>1, <1>2, <3>2, <3>3, <3>4, BlockStaysHeld
  <2>4. QED
    BY <1>3, <2>1, <2>2, <2>3 DEF StepOf
<1>4. ASSUME NEW u \in Movers, UNCHANGED <<live, pc, ret, msg, allocation, block>>
      PROVE  BlockHeld(u)'
  <2>1. At(u)' = At(u) /\ \A m \in Modules : Owned(u, m)' = Owned(u, m)
    BY <1>4 DEF At, Owned
  <2>2. QED
    BY <1>1, <1>2, <1>4, <2>1, BlockStaysHeld
<1>5. CASE \E t \in Threads : StepOf(t)
  <2>1. \A u \in Movers : BlockHeld(u)'
    BY <1>3, <1>5
  <2>2. QED
    BY <2>1, HeldByEach DEF BlocksHeld, BlockHeld, Owned
<1>6. CASE ReclaimStep \/ UNCHANGED vars
  <2>1. UNCHANGED <<live, pc, ret, msg, allocation, block>>
    BY <1>6 DEF ReclaimStep, Reclaim, transfer_vars, vars, memory_vars
  <2>2. \A u \in Movers : BlockHeld(u)'
    BY <1>4, <2>1
  <2>3. QED
    BY <2>2 DEF BlocksHeld, BlockHeld, Owned
<1>7. QED
  BY <1>5, <1>6, Steps

LEMMA HeldInit == Init => BlocksHeld
<1> SUFFICES ASSUME Init PROVE BlocksHeld
  OBVIOUS
<1>1. \A m \in Modules : \A b \in live[m] : b.owner = NoThread
  BY DEF Init, MemoryInit, StaticBlock
<1>2. \A t \in Movers : At(t) = "idle" /\ block[t] = 0 /\ t # NoThread
  BY MemoryAssumption DEF Init, MemoryInit, TransferInit, At, Asking, Threads
<1>3. QED
  BY <1>1, <1>2 DEF BlocksHeld, Holding

LEMMA HeldHolds == Spec => []BlocksHeld
<1>1. QED
  BY HeldInit, HeldStep, BaseHolds, PTL DEF Spec

(* Whatever becomes of a transfer, the block that malloc has returned to   *)
(* it is passed to free: between transfers a thread owns none.             *)
THEOREM BlocksGivenBack == Spec => []BlocksReturned
<1>1. DataPathInv /\ BlocksHeld => BlocksReturned
  <2> SUFFICES ASSUME BlocksHeld, NEW t \in Movers, pc[t] \in {"idle", "refused"}
               PROVE  block[t] = 0 /\ \A m \in Modules : \A b \in live[m] : b.owner # t
    BY DEF BlocksReturned
  <2>1. At(t) \notin Holding
    BY DEF At, Asking, Holding
  <2>2. QED
    BY <2>1 DEF BlocksHeld
<1>2. QED
  BY <1>1, BaseHolds, HeldHolds, PTL

-----------------------------------------------------------------------------
(* The layout of a block: s the locations, cap the text's capacity, n the  *)
(* size of the block.                                                      *)

Apart(s, cap, n) ==
  \A i \in {k \in DOMAIN s : s[k].copy_payload /\ s[k].payload_offset # 0} :
    /\ s[i].payload_offset % PayloadAlignment = 0
    /\ s[i].payload_offset >= cap
    /\ s[i].payload_offset + s[i].copy_size <= n
    /\ \A j \in {k \in DOMAIN s : s[k].copy_payload /\ s[k].payload_offset # 0} :
         \/ i = j
         \/ s[j].payload_offset >= s[i].payload_offset + s[i].copy_size
         \/ s[i].payload_offset >= s[j].payload_offset + s[j].copy_size

Layout(a, s, cap, n) ==
  /\ a \in Scanning => \A i \in DOMAIN s : s[i].payload_offset = 0
  /\ a = "pack" \/ a \in Holding => n >= AlignedUp(cap) /\ Apart(s, cap, n)
  /\ a \in Holding => \A i \in DOMAIN s : s[i].copy_payload => s[i].payload_offset # 0

LEMMA LaidOutByEach ==
  LaidOut <=> \A t \in Movers : Layout(At(t), location[t], capacity[t], allocation[t])
<1>1. ASSUME NEW t \in Movers
      PROVE  Packed(t) = {k \in DOMAIN location[t] : /\ location[t][k].copy_payload
                                                     /\ location[t][k].payload_offset # 0}
  BY DEF Packed, Payloads
<1>2. ASSUME NEW t \in Movers
      PROVE  (Payloads(t) = Packed(t)) <=>
               \A i \in DOMAIN location[t] :
                 location[t][i].copy_payload => location[t][i].payload_offset # 0
  BY DEF Packed, Payloads
<1>3. QED
  BY <1>1, <1>2 DEF LaidOut, Layout, Apart

(* The next payload goes behind what there is.                             *)
LEMMA PayloadAppended ==
  ASSUME NEW s \in Seq(Resolutions), NEW i \in DOMAIN s, NEW p \in Resolutions,
         NEW cap \in Nat, NEW n \in Nat, Apart(s, cap, n), n >= cap,
         s[i].payload_offset = 0,
         p.copy_payload, p.payload_offset >= n, p.payload_offset % PayloadAlignment = 0
  PROVE  Apart([s EXCEPT ![i] = p], cap, p.payload_offset + p.copy_size)
<1> DEFINE r == [s EXCEPT ![i] = p]
           P(q) == {k \in DOMAIN q : q[k].copy_payload /\ q[k].payload_offset # 0}
<1>1. /\ DOMAIN r = DOMAIN s /\ r[i] = p /\ \A j \in DOMAIN s : j # i => r[j] = s[j]
  BY ListUpdated
<1>2. /\ p.payload_offset \in Nat /\ p.copy_size \in Nat
      /\ \A j \in DOMAIN s : s[j].payload_offset \in Nat /\ s[j].copy_size \in Nat
  BY ListFields, ResolutionFields
<1>3. i \notin P(s) /\ \A j \in P(r) : (j = i) \/ (j \in P(s) /\ r[j] = s[j])
  BY <1>1
<1>4. \A j \in P(s) : /\ j \in DOMAIN s
                      /\ s[j].payload_offset % PayloadAlignment = 0
                      /\ s[j].payload_offset >= cap
                      /\ s[j].payload_offset + s[j].copy_size <= n
                      /\ \A k \in P(s) :
                           \/ j = k
                           \/ s[k].payload_offset >= s[j].payload_offset + s[j].copy_size
                           \/ s[j].payload_offset >= s[k].payload_offset + s[k].copy_size
  BY DEF Apart
<1> HIDE DEF r, P
<1>5. ASSUME NEW j \in P(r), NEW k \in P(r)
      PROVE  /\ r[j].payload_offset % PayloadAlignment = 0
             /\ r[j].payload_offset >= cap
             /\ r[j].payload_offset + r[j].copy_size <= p.payload_offset + p.copy_size
             /\ \/ j = k
                \/ r[k].payload_offset >= r[j].payload_offset + r[j].copy_size
                \/ r[j].payload_offset >= r[k].payload_offset + r[k].copy_size
  <2>1. CASE j = i /\ k = i
    BY <1>1, <1>2, <2>1
  <2>2. CASE j = i /\ k \in P(s) /\ r[k] = s[k]
    <3>1. k \in DOMAIN s /\ s[k].payload_offset + s[k].copy_size <= n
      BY <1>4, <2>2
    <3>2. QED
      BY <1>1, <1>2, <2>2, <3>1
  <2>3. CASE j \in P(s) /\ r[j] = s[j] /\ k = i
    <3>1. /\ j \in DOMAIN s /\ s[j].payload_offset + s[j].copy_size <= n
          /\ s[j].payload_offset % PayloadAlignment = 0 /\ s[j].payload_offset >= cap
      BY <1>4, <2>3
    <3>2. QED
      BY <1>1, <1>2, <2>3, <3>1
  <2>4. CASE j \in P(s) /\ r[j] = s[j] /\ k \in P(s) /\ r[k] = s[k]
    <3>1. /\ j \in DOMAIN s /\ s[j].payload_offset + s[j].copy_size <= n
          /\ s[j].payload_offset % PayloadAlignment = 0 /\ s[j].payload_offset >= cap
          /\ \/ j = k
             \/ s[k].payload_offset >= s[j].payload_offset + s[j].copy_size
             \/ s[j].payload_offset >= s[k].payload_offset + s[k].copy_size
      BY <1>4, <2>4
    <3>2. QED
      BY <1>1, <1>2, <2>4, <3>1
  <2>5. QED
    BY <1>3, <2>1, <2>2, <2>3, <2>4
<1>6. QED
  BY <1>5 DEF Apart, P, r

LEMMA LayoutTransferred ==
  ASSUME NEW t \in Movers, TransferStep(t), DataPathInv,
         Layout(At(t), location[t], capacity[t], allocation[t])
  PROVE  Layout(At(t)', location'[t], capacity'[t], allocation'[t])
<1> DEFINE Goal == Layout(At(t)', location'[t], capacity'[t], allocation'[t])
           s == location[t]
<1>1. /\ TypeOK /\ MessagesInHand /\ LocalTypes /\ TransferTypes /\ t \in Threads /\ AllSound
      /\ MessageInHand(t)
  BY DEF DataPathInv, TypeOK, LocalTypes, TransferTypes, Threads, MessagesInHand, MessageInHand
<1>2. /\ s \in Seq(Resolutions) /\ capacity[t] \in Nat /\ allocation[t] \in Nat
      /\ allocation[t] \in Sizes /\ capacity[t] \in Sizes
  BY <1>1, AddressesTyped DEF TransferTypes, Sizes
<1>3. pc[t] # "idle" => Dst(t) \in Modules /\ Src(t) \in Modules \cup {Host}
  BY <1>1, InHand
<1>4. ASSUME At(t)' \in {"measure", "refused", "freed", "idle"} PROVE Goal
  BY <1>4 DEF Layout, Scanning, Holding
<1>5. ASSUME NEW l \in Resolutions, location'[t] = Append(s, l), l.payload_offset = 0,
             At(t) \in Scanning, At(t)' \in Scanning
      PROVE  Goal
  <2>1. /\ DOMAIN location'[t] = 1..(Len(s) + 1) /\ DOMAIN s = 1..Len(s) /\ Len(s) \in Nat
        /\ \A i \in DOMAIN s : location'[t][i] = s[i]
        /\ location'[t][Len(s) + 1] = l
    BY <1>2, <1>5, ListExtended, ListFields
  <2>2. \A i \in DOMAIN s : s[i].payload_offset = 0
    BY <1>5 DEF Layout
  <2>3. \A i \in 1..(Len(s) + 1) : i \in 1..Len(s) \/ i = Len(s) + 1
    BY <2>1
  <2>4. \A i \in DOMAIN location'[t] : location'[t][i].payload_offset = 0
    BY <1>5, <2>1, <2>2, <2>3
  <2>5. QED
    BY <1>5, <2>4 DEF Layout, Scanning, Holding
<1>6. ASSUME location'[t] = s, capacity'[t] = capacity[t], allocation'[t] = allocation[t],
             \/ At(t) \in Scanning /\ At(t)' \in Scanning
             \/ At(t) \in Holding /\ At(t)' \in Holding
      PROVE  Goal
  BY <1>6 DEF Layout, Scanning, Holding
<1> SUFFICES Goal
  OBVIOUS
<1> HIDE DEF Goal
<1>7. CASE BeginTransfer(t)
  <2>1. PICK m \in Messages : AskThen(t, m.src, "measure")
    BY <1>7 DEF BeginTransfer
  <2>2. m.src \in Modules \cup {Host} /\ "measure" \in Labels \ Asking
    BY MessageFields DEF Labels, Asking
  <2>3. At(t)' = "measure"
    BY <1>1, <2>1, <2>2, AskedFor
  <2>4. QED
    BY <1>4, <2>3
<1>8. CASE Measure(t)
  <2>1. location'[t] = <<>> /\ At(t)' \in {"scan", "refused"}
    BY <1>1, <1>8 DEF Measure, Refuse, Goto, At, Asking, LocalTypes, MessageInHand
  <2>2. QED
    BY <2>1 DEF Layout, Scanning, Holding, Goal
<1>9. CASE Scan(t)
  <2>1. At(t) = "scan" /\ capacity' = capacity /\ allocation' = allocation
    BY <1>9 DEF Scan, At, Asking
  <2>2. Unresolved \in Resolutions /\ Unresolved.payload_offset = 0
    BY AddressesTyped DEF Unresolved, Resolutions, Sizes
  <2>3. \/ location'[t] = Append(s, Unresolved) /\ At(t)' = "scan"
        \/ location' = location /\ At(t)' = "refused"
        \/ location' = location /\ At(t)' = "resolve"
    BY <1>1, <1>9, ScanEffect
  <2>4. CASE location'[t] = Append(s, Unresolved) /\ At(t)' = "scan"
    BY <1>5, <2>1, <2>2, <2>4 DEF Scanning
  <2>5. QED
    BY <1>4, <1>6, <2>1, <2>3, <2>4 DEF Scanning
<1>10. CASE Resolve(t)
  <2>1. At(t) = "resolve"
    BY <1>10 DEF Resolve, At, Asking
  <2>2. \/ At(t)' = "refused"
        \/ \E l \in Resolutions : /\ location'[t] = Append(s, l) /\ l.payload_offset = 0
                                  /\ At(t)' = IF Described(t).copy_size = 0 THEN "reserve"
                                              ELSE "place"
    BY <1>1, <1>10, ResolveEffect
  <2>3. QED
    BY <1>4, <1>5, <2>1, <2>2 DEF Scanning
<1>11. CASE PlaceLocation(t)
  <2>1. At(t) = "place"
    BY <1>11 DEF PlaceLocation, At, Asking
  <2>2. Scanned(t) \in DOMAIN s
        /\ \/ At(t)' = "refused"
           \/ \E p \in Resolutions : /\ location'[t] = [s EXCEPT ![Scanned(t)] = p]
                                     /\ p.payload_offset = s[Scanned(t)].payload_offset
                                     /\ At(t)' = "reserve"
    BY <1>1, <1>11, PlaceEffect
  <2>3. ASSUME NEW p \in Resolutions, location'[t] = [s EXCEPT ![Scanned(t)] = p],
               p.payload_offset = s[Scanned(t)].payload_offset, At(t)' = "reserve"
        PROVE  Goal
    <3>1. \A i \in DOMAIN s : s[i].payload_offset = 0
      BY <2>1 DEF Layout, Scanning
    <3>2. \A i \in DOMAIN location'[t] : location'[t][i].payload_offset = 0
      BY <1>2, <2>2, <2>3, <3>1, ListUpdated
    <3>3. QED
      BY <2>3, <3>2 DEF Layout, Scanning, Holding, Goal
  <2>4. QED
    BY <1>4, <2>2, <2>3
<1>12. CASE ReserveText(t)
  <2>1. At(t) = "reserve" /\ location' = location /\ At(t)' \in {"scan", "refused"}
    BY <1>1, <1>12 DEF ReserveText, Refuse, Goto, At, Asking, LocalTypes
  <2>2. QED
    BY <2>1 DEF Layout, Scanning, Holding, Goal
<1>13. CASE AlignText(t)
  <2>1. At(t) = "scan" /\ location' = location /\ capacity' = capacity
    BY <1>13 DEF AlignText, At, Asking
  <2>2. CASE Refuse(t, "space")
    <3>1. At(t)' = "refused"
      BY <1>1, <2>2 DEF Refuse, Goto, At, Asking, LocalTypes
    <3>2. QED
      BY <1>4, <3>1
  <2>3. CASE /\ allocation' = [allocation EXCEPT ![t] = AlignedUp(capacity[t])]
             /\ Alignable(capacity[t]) /\ Goto(t, "pack")
    <3>1. At(t)' = "pack" /\ allocation'[t] = AlignedUp(capacity[t])
      BY <1>1, <2>3 DEF Goto, At, Asking, LocalTypes, TransferTypes
    <3>2. AlignedUp(capacity[t]) \in Nat
      BY <1>2, PayloadsAligned
    <3>3. \A i \in DOMAIN s : s[i].payload_offset = 0
      BY <2>1 DEF Layout, Scanning
    <3>4. Apart(s, capacity[t], AlignedUp(capacity[t]))
      BY <3>3 DEF Apart
    <3>5. AlignedUp(capacity[t]) >= AlignedUp(capacity[t])
      BY <3>2
    <3>6. QED
      BY <2>1, <3>1, <3>4, <3>5 DEF Layout, Scanning, Holding, Goal
  <2>4. QED
    BY <1>13, <2>2, <2>3 DEF AlignText
<1>14. CASE PackPayload(t)
  <2>1. capacity' = capacity /\ At(t) = "pack"
    BY <1>14 DEF PackPayload, At, Asking
  <2>2. allocation[t] >= AlignedUp(capacity[t]) /\ Apart(s, capacity[t], allocation[t])
    BY <2>1 DEF Layout
  <2>3. \/ At(t)' = "refused"
        \/ \E i \in Packing(t), p \in Resolutions :
             /\ i \in DOMAIN s /\ location'[t] = [s EXCEPT ![i] = p] /\ p.copy_payload
             /\ p.payload_offset >= allocation[t]
             /\ p.payload_offset % PayloadAlignment = 0
             /\ allocation'[t] = p.payload_offset + p.copy_size
             /\ At(t)' = "pack"
    BY <1>1, <1>14, PackEffect
  <2>4. ASSUME NEW i \in Packing(t), NEW p \in Resolutions,
               i \in DOMAIN s, location'[t] = [s EXCEPT ![i] = p], p.copy_payload,
               p.payload_offset >= allocation[t],
               p.payload_offset % PayloadAlignment = 0,
               allocation'[t] = p.payload_offset + p.copy_size, At(t)' = "pack"
        PROVE  Goal
    <3>1. AlignedUp(capacity[t]) \in Nat /\ AlignedUp(capacity[t]) >= capacity[t]
      BY <1>2, PayloadsAligned
    <3>2. p.payload_offset \in Nat /\ p.copy_size \in Nat
      BY ResolutionFields
    <3>3. allocation[t] >= capacity[t] /\ allocation'[t] >= AlignedUp(capacity[t])
      BY <1>2, <2>2, <2>4, <3>1, <3>2
    <3>4. s[i].payload_offset = 0
      BY DEF Packing
    <3>5. Apart([s EXCEPT ![i] = p], capacity[t], p.payload_offset + p.copy_size)
      <4> HIDE DEF s
      <4>1. QED
        BY <1>2, <2>2, <2>4, <3>3, <3>4, PayloadAppended
    <3>6. QED
      BY <2>1, <2>4, <3>3, <3>5 DEF Layout, Scanning, Holding, Goal
  <2>5. QED
    BY <1>4, <2>3, <2>4
<1>15. CASE AllocateBlock(t) \/ AllocateBadBlock(t)
  <2>1. /\ location' = location /\ capacity' = capacity /\ allocation' = allocation
        /\ At(t) = "pack" /\ Packing(t) = {}
    BY <1>15 DEF AllocateBlock, AllocateBadBlock, At, Asking
  <2>2. At(t)' \in {"allocated", "refused"}
    BY <1>1, <1>15 DEF AllocateBlock, AllocateBadBlock, Refuse, Goto, At, Asking, LocalTypes
  <2>3. \A i \in DOMAIN s : s[i].copy_payload => s[i].payload_offset # 0
    BY <2>1 DEF Packing
  <2>4. QED
    BY <2>1, <2>2, <2>3 DEF Layout, Scanning, Holding, Goal
<1>16. CASE CheckSize(t)
  <2>1. /\ location' = location /\ capacity' = capacity /\ allocation' = allocation
        /\ At(t) = "allocated" /\ AskThen(t, Dst(t), "validate")
        /\ "validate" \in Labels \ Asking
    BY <1>16 DEF CheckSize, AskAfterCall, transfer_vars, At, Asking, Labels
  <2>2. At(t)' = "validate"
    BY <1>1, <1>3, <1>16, <2>1, AskedFor DEF CheckSize
  <2>3. QED
    BY <1>6, <2>1, <2>2 DEF Holding
<1>17. CASE ValidateBlock(t)
  <2>1. capacity' = capacity /\ allocation' = allocation /\ At(t) = "validate"
    BY <1>17 DEF ValidateBlock, At, Asking
  <2>2. \/ location' = location /\ At(t)' = "free"
        \/ /\ At(t)' = "rewrite" /\ DOMAIN location'[t] = DOMAIN s
           /\ \A i \in DOMAIN s : /\ location'[t][i].copy_size = s[i].copy_size
                                  /\ location'[t][i].copy_payload = s[i].copy_payload
                                  /\ location'[t][i].payload_offset = s[i].payload_offset
    BY <1>1, <1>17, ValidateEffect
  <2>3. CASE location' = location /\ At(t)' = "free"
    BY <1>6, <2>1, <2>3 DEF Holding
  <2>4. CASE /\ At(t)' = "rewrite" /\ DOMAIN location'[t] = DOMAIN s
             /\ \A i \in DOMAIN s : /\ location'[t][i].copy_size = s[i].copy_size
                                    /\ location'[t][i].copy_payload = s[i].copy_payload
                                    /\ location'[t][i].payload_offset = s[i].payload_offset
    <3>1. Layout("rewrite", s, capacity[t], allocation[t])
      BY <2>1 DEF Layout, Scanning, Holding
    <3> DEFINE r == location'[t]
    <3>2. {k \in DOMAIN r : r[k].copy_payload /\ r[k].payload_offset # 0}
            = {k \in DOMAIN s : s[k].copy_payload /\ s[k].payload_offset # 0}
      BY <2>4
    <3>3. Apart(r, capacity[t], allocation[t])
      <4>1. Apart(s, capacity[t], allocation[t])
        BY <3>1 DEF Layout, Holding
      <4>2. QED
        BY <2>4, <3>2, <4>1 DEF Apart
    <3>4. Layout("rewrite", r, capacity[t], allocation[t])
      BY <2>4, <3>1, <3>3 DEF Layout, Scanning, Holding
    <3>5. QED
      BY <2>1, <2>4, <3>4 DEF Goal
  <2>5. QED
    BY <2>2, <2>3, <2>4
<1>18. CASE RewriteText(t) \/ CopyPayloads(t)
  <2>1. /\ location' = location /\ capacity' = capacity /\ allocation' = allocation
        /\ At(t) \in Holding
    BY <1>18 DEF RewriteText, CopyPayloads, At, Asking, Holding
  <2>2. At(t)' \in {"copy", "free", "delivered"}
    BY <1>1, <1>18 DEF RewriteText, CopyPayloads, GiveBack, Goto, At, Asking, LocalTypes
  <2>3. QED
    BY <1>6, <2>1, <2>2 DEF Holding
<1>19. CASE FreeTransferred(t) \/ EndTransfer(t)
  <2>1. At(t)' \in {"freed", "refused", "idle"}
    BY <1>1, <1>19 DEF FreeTransferred, FreeBlock, EndTransfer, Goto, At, Asking, LocalTypes
  <2>2. QED
    BY <1>4, <2>1
<1>20. QED
  BY <1>7, <1>8, <1>9, <1>10, <1>11, <1>12, <1>13, <1>14, <1>15, <1>16, <1>17, <1>18, <1>19
  DEF TransferStep

(* What else happens leaves what a transfer has found out alone.           *)
LEMMA TransfersKept ==
  ASSUME [Next]_vars, DataPathInv, NEW u \in Movers
  PROVE  \/ TransferStep(u)
         \/ /\ msg'[u] = msg[u] /\ location'[u] = location[u]
            /\ capacity'[u] = capacity[u] /\ allocation'[u] = allocation[u]
            /\ block'[u] = block[u] /\ outcome'[u] = outcome[u]
            /\ \/ At(u)' = At(u)
               \/ At(u) \in Shrinking /\ At(u)' \in Shrinking \cup {"refused"}
<1>1. TypeOK /\ ThreadsPlaced
  BY DEF DataPathInv
<1>2. ASSUME NEW t \in Threads, MemoryStepOf(t), UNCHANGED transfer_vars
      PROVE  /\ msg'[u] = msg[u] /\ location'[u] = location[u]
             /\ capacity'[u] = capacity[u] /\ allocation'[u] = allocation[u]
             /\ block'[u] = block[u] /\ outcome'[u] = outcome[u]
             /\ \/ At(u)' = At(u)
                \/ At(u) \in Shrinking /\ At(u)' \in Shrinking \cup {"refused"}
  BY <1>1, <1>2, MemoryAt DEF transfer_vars
<1>3. ASSUME NEW t \in Movers, TransferStep(t), t # u
      PROVE  /\ msg'[u] = msg[u] /\ location'[u] = location[u]
             /\ capacity'[u] = capacity[u] /\ allocation'[u] = allocation[u]
             /\ block'[u] = block[u] /\ outcome'[u] = outcome[u] /\ At(u)' = At(u)
  <2>1. StepOf(t) /\ t \in Threads /\ u \in Threads
    BY <1>3 DEF StepOf, Threads
  <2>2. OthersKept(t)
    BY <1>1, <2>1, OthersStep
  <2>3. QED
    BY <1>3, <2>1, <2>2 DEF OthersKept, At
<1>4. CASE ReclaimStep \/ UNCHANGED vars
  BY <1>4 DEF ReclaimStep, Reclaim, vars, memory_vars, transfer_vars, At
<1>5. QED
  BY <1>2, <1>3, <1>4, Steps DEF StepOf

LEMMA LaidOutHolds == Spec => []LaidOut
<1>1. Init => LaidOut
  BY DEF Init, MemoryInit, TransferInit, LaidOut, At, Asking, Scanning, Holding, Threads
<1>2. DataPathInv /\ LaidOut /\ [Next]_vars => LaidOut'
  <2> SUFFICES ASSUME DataPathInv, LaidOut, [Next]_vars PROVE LaidOut'
    OBVIOUS
  <2>1. \A t \in Movers : Layout(At(t), location[t], capacity[t], allocation[t])
    BY LaidOutByEach
  <2>2. ASSUME NEW t \in Movers
        PROVE  Layout(At(t)', location'[t], capacity'[t], allocation'[t])
    <3>1. CASE TransferStep(t)
      BY <2>1, <3>1, LayoutTransferred
    <3>2. CASE At(t)' \in Shrinking \cup {"refused"}
      BY <3>2 DEF Layout, Shrinking, Scanning, Holding
    <3>3. CASE /\ At(t)' = At(t) /\ location'[t] = location[t] /\ capacity'[t] = capacity[t]
               /\ allocation'[t] = allocation[t]
      BY <2>1, <3>3
    <3>4. QED
      BY <3>1, <3>2, <3>3, TransfersKept
  <2>3. \A t \in Movers : Packed(t)' = {k \in DOMAIN location'[t] :
                            location'[t][k].copy_payload /\ location'[t][k].payload_offset # 0}
    BY DEF Packed, Payloads
  <2>4. \A t \in Movers : (Payloads(t)' = Packed(t)') <=>
          \A i \in DOMAIN location'[t] :
            location'[t][i].copy_payload => location'[t][i].payload_offset # 0
    BY DEF Packed, Payloads
  <2>5. QED
    BY <2>2, <2>3, <2>4 DEF LaidOut, Layout, Apart
<1>3. QED
  BY <1>1, <1>2, BaseHolds, PTL DEF Spec

(* In a block that is written, the text and the payloads are apart from    *)
(* each other, aligned, and within what has been allocated, whatever the   *)
(* sizes in the message are.                                               *)
THEOREM PayloadsApart == Spec => []PayloadsSeparate
<1>1. LaidOut => PayloadsSeparate
  <2> SUFFICES ASSUME LaidOut, NEW t \in Movers, pc[t] \in {"rewrite", "copy", "delivered"},
                      NEW i \in Payloads(t)
               PROVE  LET l == location[t][i]
                      IN  /\ l.payload_offset % PayloadAlignment = 0
                          /\ l.payload_offset >= capacity[t]
                          /\ l.payload_offset + l.copy_size <= allocation[t]
                          /\ \A j \in Payloads(t) :
                               \/ i = j
                               \/ location[t][j].payload_offset
                                    >= l.payload_offset + l.copy_size
                               \/ l.payload_offset >= location[t][j].payload_offset
                                                        + location[t][j].copy_size
    BY DEF PayloadsSeparate
  <2>1. At(t) \in Holding
    BY DEF At, Asking, Holding
  <2>2. QED
    BY <2>1 DEF LaidOut
<1>2. QED
  BY <1>1, LaidOutHolds, PTL

-----------------------------------------------------------------------------
(* What a transfer finds out about the locations of its message.           *)

LEMMA MeaningByKind ==
  ASSUME NEW m \in Modules \cup {Host}, NEW addr
  PROVE  /\ IsNative(m) <=> KindOf(m) = "native"
         /\ Meaning(m, addr) = Means(m, KindOf(m), addr)
         /\ m \in Modules => KindOf(m) = Type(m)
  BY TransferAssumption DEF IsNative, KindOf, Meaning, Means

(* What is known stays known on the way to another step.                   *)
LEMMA KnowledgeKept ==
  ASSUME NEW m, NEW km, NEW n, NEW kn, NEW a, NEW b, NEW i, NEW j, NEW k, NEW x, NEW y,
         NEW l, NEW d, Known(m, km, n, kn, a, i, j, x, l, d),
         a = "place" /\ i = j => (b = "place" /\ i = k) \/ d.form # "numeric" \/ l.copy_size = 0,
         b = "place" /\ i = k => d.form = "numeric",
         b \in {"rewrite", "copy", "delivered"} =>
           a \in {"rewrite", "copy", "delivered"} /\ x = y
  PROVE  Known(m, km, n, kn, b, i, k, y, l, d)
<1>1. d.form = "numeric" /\ l.copy_size > 0 => l.copy_size # 0
  OBVIOUS
<1>2. QED
  BY <1>1 DEF Known

LEMMA UnderstandingKept ==
  ASSUME NEW m, NEW km, NEW n, NEW kn, NEW a, NEW b, NEW x, NEW y, NEW s, NEW ds,
         AllKnown(m, km, n, kn, a, x, s, ds),
         a \in Scanning \cup Holding \cup {"pack"}, a # "place", b # "place",
         b \in {"rewrite", "copy", "delivered"} =>
           a \in {"rewrite", "copy", "delivered"} /\ x = y
  PROVE  AllKnown(m, km, n, kn, b, y, s, ds)
<1>1. ASSUME NEW i \in DOMAIN s
      PROVE  Known(m, km, n, kn, b, i, Len(s), y, s[i], ds[i])
  <2>1. Known(m, km, n, kn, a, i, Len(s), x, s[i], ds[i])
    BY DEF AllKnown
  <2>2. QED
    BY <2>1 DEF Known
<1>2. QED
  BY <1>1 DEF AllKnown

LEMMA UnderstandingTransferred ==
  ASSUME NEW t \in Movers, TransferStep(t), DataPathInv, KindsKept, UnderstoodBy(t)
  PROVE  UnderstoodBy(t)'
<1> DEFINE m == Src(t)
           km == KindOf(Src(t))
           n == Dst(t)
           kn == Type(Dst(t))
           a == At(t)
           b == At(t)'
           s == location[t]
           r == location'[t]
           ds == msg[t].locations
           Goal == AllKnown(m, km, n, kn, b, block'[t], r, ds)
<1>1. /\ TypeOK /\ MessagesInHand /\ LocalTypes /\ TransferTypes /\ t \in Threads /\ AllSound
      /\ MessageInHand(t)
  BY DEF DataPathInv, TypeOK, LocalTypes, TransferTypes, Threads, MessagesInHand, MessageInHand
<1>2. s \in Seq(Resolutions) /\ block[t] \in Sizes
  BY <1>1 DEF TransferTypes
<1>3. pc[t] # "idle" => n \in Modules /\ m \in Modules \cup {Host}
  BY <1>1, InHand
<1>4. AllKnown(m, km, n, kn, a, block[t], s, ds)
  BY DEF UnderstoodBy
<1>5. b \notin Scanning \cup Holding \cup {"pack"} => UnderstoodBy(t)'
  BY DEF UnderstoodBy, AllKnown
<1>6. ASSUME pc[t] # "idle", msg'[t] = msg[t], Goal
      PROVE  UnderstoodBy(t)'
  <2>1. m' = m /\ n' = n /\ ds' = ds
    BY <1>6 DEF Src, Dst
  <2>2. km' = km
    BY <1>3, <1>6, <2>1 DEF KindsKept, KindOf, Type
  <2>3. kn' = kn
    BY <1>3, <1>6, <2>1 DEF KindsKept, Type
  <2>4. QED
    BY <1>6, <2>1, <2>2, <2>3 DEF UnderstoodBy
<1>7. b \notin Scanning \cup Holding \cup {"pack"} => Goal
  BY DEF AllKnown
<1>8. ASSUME r = s, a \in Scanning \cup Holding \cup {"pack"}, a # "place", b # "place",
             b \in {"rewrite", "copy", "delivered"} =>
               a \in {"rewrite", "copy", "delivered"} /\ block'[t] = block[t]
      PROVE  Goal
  <2> HIDE DEF m, km, n, kn, a, b, s, r, ds
  <2>1. QED
    BY <1>4, <1>8, UnderstandingKept
<1>9. ASSUME NEW l \in Resolutions, r = Append(s, l), a \in {"scan", "resolve"},
              b \in Scanning,
              Known(m, km, n, kn, b, Len(s) + 1, Len(s) + 1, block'[t], l, ds[Len(s) + 1])
       PROVE  Goal
  <2> HIDE DEF m, km, n, kn, a, b, s, r, ds
  <2>1. /\ DOMAIN r = 1..(Len(s) + 1) /\ DOMAIN s = 1..Len(s) /\ Len(s) \in Nat
        /\ Len(r) = Len(s) + 1 /\ r[Len(s) + 1] = l
        /\ \A i \in DOMAIN s : r[i] = s[i]
    BY <1>2, <1>9, ListExtended, ListFields
  <2>2. ASSUME NEW i \in DOMAIN s
        PROVE  Known(m, km, n, kn, b, i, Len(r), block'[t], r[i], ds[i])
    <3>1. Known(m, km, n, kn, a, i, Len(s), block[t], s[i], ds[i])
      BY <1>4, <1>9 DEF AllKnown, Scanning
    <3>2. a # "place" /\ b \notin {"rewrite", "copy", "delivered"} /\ i # Len(r) /\ r[i] = s[i]
      BY <1>9, <2>1 DEF Scanning
    <3>3. QED
      BY <3>1, <3>2, KnowledgeKept
  <2>3. \A i \in DOMAIN r : i \in DOMAIN s \/ i = Len(s) + 1
    BY <2>1
  <2>4. \A i \in DOMAIN r : Known(m, km, n, kn, b, i, Len(r), block'[t], r[i], ds[i])
    BY <1>9, <2>1, <2>2, <2>3
  <2>5. QED
    BY <2>4 DEF AllKnown, Goal
<1>10. ASSUME NEW i \in DOMAIN s, NEW p \in Resolutions, r = [s EXCEPT ![i] = p],
              a \in {"place", "pack"}, b \in {"reserve", "pack"}, a = "place" => i = Len(s),
              Known(m, km, n, kn, b, i, Len(s), block'[t], p, ds[i])
       PROVE  Goal
  <2> HIDE DEF m, km, n, kn, a, b, s, r, ds
  <2>1. /\ DOMAIN r = DOMAIN s /\ Len(r) = Len(s) /\ r[i] = p
        /\ \A j \in DOMAIN s : j # i => r[j] = s[j]
    BY <1>2, <1>10, ListUpdated
  <2>2. ASSUME NEW j \in DOMAIN s, j # i
        PROVE  Known(m, km, n, kn, b, j, Len(r), block'[t], r[j], ds[j])
    <3>1. Known(m, km, n, kn, a, j, Len(s), block[t], s[j], ds[j])
      BY <1>4, <1>10 DEF AllKnown, Scanning
    <3>2. /\ ~(a = "place" /\ j = Len(s)) /\ b # "place" /\ r[j] = s[j]
          /\ b \notin {"rewrite", "copy", "delivered"}
      BY <1>10, <2>1, <2>2
    <3>3. QED
      BY <2>1, <3>1, <3>2, KnowledgeKept
  <2>3. \A j \in DOMAIN r : Known(m, km, n, kn, b, j, Len(r), block'[t], r[j], ds[j])
    BY <1>10, <2>1, <2>2
  <2>4. QED
    BY <2>3 DEF AllKnown, Goal
<1> SUFFICES UnderstoodBy(t)'
  OBVIOUS
<1> HIDE DEF Goal
<1>11. CASE BeginTransfer(t)
  <2>1. PICK q \in Messages : AskThen(t, q.src, "measure")
    BY <1>11 DEF BeginTransfer
  <2>2. q.src \in Modules \cup {Host} /\ "measure" \in Labels \ Asking
    BY MessageFields DEF Labels, Asking
  <2>3. b = "measure"
    BY <1>1, <2>1, <2>2, AskedFor
  <2>4. QED
    BY <1>5, <2>3 DEF Scanning, Holding
<1>12. CASE Measure(t)
  <2>1. s = <<>> /\ r = s /\ pc[t] # "idle" /\ msg'[t] = msg[t]
    BY <1>1, <1>12 DEF Measure, At, Asking, MessageInHand
  <2>2. DOMAIN r = {}
    BY <2>1
  <2>3. Goal
    BY <2>2 DEF Goal, AllKnown
  <2>4. QED
    BY <1>6, <2>1, <2>3
<1>13. CASE Scan(t)
  <2>1. a = "scan" /\ msg'[t] = msg[t] /\ pc[t] # "idle"
    BY <1>13 DEF Scan, At, Asking
  <2>2. /\ Unresolved \in Resolutions /\ ~Unresolved.inside /\ ~Unresolved.copy_payload
    BY AddressesTyped DEF Unresolved, Resolutions, Sizes
  <2>3. \/ /\ r = Append(s, Unresolved) /\ b = "scan" /\ Described(t).form # "numeric"
        \/ location' = location /\ b = "refused"
        \/ location' = location /\ b = "resolve"
    BY <1>1, <1>13, ScanEffect
  <2>4. CASE r = Append(s, Unresolved) /\ b = "scan" /\ Described(t).form # "numeric"
    <3>1. ds[Len(s) + 1].form # "numeric"
      BY <2>4 DEF Described, Scanned
    <3>2. Known(m, km, n, kn, b, Len(s) + 1, Len(s) + 1, block'[t], Unresolved, ds[Len(s) + 1])
      BY <2>2, <2>4, <3>1 DEF Known
    <3>3. Goal
      BY <1>9, <2>1, <2>2, <2>4, <3>2 DEF Scanning
    <3>4. QED
      BY <1>6, <2>1, <3>3
  <2>5. CASE location' = location /\ b = "resolve"
    BY <1>6, <1>8, <2>1, <2>5 DEF Scanning
  <2>6. CASE b = "refused"
    BY <1>5, <2>6 DEF Scanning, Holding
  <2>7. QED
    BY <2>3, <2>4, <2>5, <2>6
<1>14. CASE Resolve(t)
  <2>1. a = "resolve" /\ msg'[t] = msg[t] /\ pc[t] # "idle"
    BY <1>14 DEF Resolve, At, Asking
  <2> DEFINE d == Described(t)
  <2>2. /\ d \in Location /\ d.form = "numeric"
        /\ \/ b = "refused"
           \/ \E l \in Resolutions :
                /\ r = Append(s, l) /\ l.copy_size = d.copy_size /\ ~l.copy_payload
                /\ l.src_ptr = Meaning(m, d.src_addr)
                /\ l.inside => /\ ~IsNative(m) /\ Inside(d.copy_size, d.src_addr, Reserve)
                               /\ l.src_ptr = Base[m] + d.src_addr
                /\ b = IF d.copy_size = 0 THEN "reserve" ELSE "place"
    BY <1>1, <1>14, ResolveEffect
  <2>3. ASSUME NEW l \in Resolutions,
               r = Append(s, l), l.copy_size = d.copy_size, ~l.copy_payload,
               l.src_ptr = Meaning(m, d.src_addr),
               l.inside => /\ ~IsNative(m) /\ Inside(d.copy_size, d.src_addr, Reserve)
                           /\ l.src_ptr = Base[m] + d.src_addr,
               b = IF d.copy_size = 0 THEN "reserve" ELSE "place"
        PROVE  Goal
    <3>1. ds[Len(s) + 1] = d
      BY DEF Described, Scanned
    <3>2. /\ IsNative(m) <=> km = "native"
          /\ Meaning(m, d.src_addr) = Means(m, km, d.src_addr)
      BY <1>3, <2>1, MeaningByKind
    <3>3. l.copy_size \in Nat
      BY ResolutionFields
    <3> HIDE DEF m, km, n, kn, b, s, r, ds, d
    <3>4. Known(m, km, n, kn, b, Len(s) + 1, Len(s) + 1, block'[t], l, ds[Len(s) + 1])
      BY <2>2, <2>3, <3>1, <3>2, <3>3 DEF Known
    <3>5. b \in Scanning
      BY <2>3 DEF Scanning
    <3>6. QED
      BY <1>9, <2>1, <2>3, <3>4, <3>5
  <2>4. CASE b = "refused"
    BY <1>5, <2>4 DEF Scanning, Holding
  <2>5. QED
    BY <1>6, <2>1, <2>2, <2>3, <2>4
<1>15. CASE PlaceLocation(t)
  <2>1. a = "place" /\ msg'[t] = msg[t] /\ pc[t] # "idle"
    BY <1>15 DEF PlaceLocation, At, Asking
  <2> DEFINE k == Scanned(t)
             l == s[k]
             d == ds[k]
  <2>2. /\ k \in DOMAIN s /\ l \in Resolutions /\ d \in Location
        /\ \/ b = "refused"
           \/ \E p \in Resolutions :
                /\ r = [s EXCEPT ![k] = p]
                /\ p.copy_size = l.copy_size /\ p.src_ptr = l.src_ptr /\ p.inside = l.inside
                /\ \/ Keeps(t, l, d.src_addr) /\ p.dst_addr = d.src_addr
                        /\ p.copy_payload = l.copy_payload
                   \/ HostAccess(n) /\ Meaning(n, p.dst_addr) = l.src_ptr
                        /\ p.copy_payload = l.copy_payload
                   \/ ~HostAccess(n) /\ p.copy_payload
                /\ b = "reserve"
    BY <1>1, <1>15, PlaceEffect
  <2>3. ASSUME NEW p \in Resolutions,
               r = [s EXCEPT ![k] = p],
               p.copy_size = l.copy_size, p.src_ptr = l.src_ptr, p.inside = l.inside,
               \/ Keeps(t, l, d.src_addr) /\ p.dst_addr = d.src_addr
                    /\ p.copy_payload = l.copy_payload
               \/ HostAccess(n) /\ Meaning(n, p.dst_addr) = l.src_ptr
                    /\ p.copy_payload = l.copy_payload
               \/ ~HostAccess(n) /\ p.copy_payload,
               b = "reserve"
        PROVE  Goal
    <3>1. k = Len(s) /\ Known(m, km, n, kn, a, k, k, block[t], l, d)
      BY <1>4, <2>1, <2>2 DEF AllKnown, Scanning, Scanned
    <3>2. /\ n \in Modules /\ n # Host /\ m \in Modules \cup {Host}
          /\ Keeps(t, l, d.src_addr) => n = m
      BY <1>3, <2>1, TransferAssumption DEF Keeps
    <3>3. /\ \A addr : Meaning(n, addr) = Means(n, kn, addr)
          /\ n = m => km = kn
          /\ HostAccess(n) <=> kn \in {"native", "translated64"}
      BY <3>2, MeaningByKind DEF HostAccess
    <3>4. Known(m, km, n, kn, b, k, k, block'[t], p, d)
      <4> HIDE DEF m, km, n, kn, a, b, s, r, ds, d, k, l
      <4>1. /\ d.form = "numeric" /\ l.copy_size = d.copy_size
            /\ l.copy_size > 0 => l.src_ptr = Means(m, km, d.src_addr)
            /\ l.copy_payload => kn \notin {"native", "translated64"}
        BY <2>1, <3>1 DEF Known
      <4>2. l.inside => /\ km # "native" /\ Inside(l.copy_size, d.src_addr, Reserve)
                        /\ l.src_ptr = Base[m] + d.src_addr
        BY <3>1 DEF Known
      <4>3. CASE Keeps(t, l, d.src_addr) /\ p.dst_addr = d.src_addr
                   /\ p.copy_payload = l.copy_payload
        BY <2>3, <3>2, <3>3, <4>1, <4>2, <4>3 DEF Known
      <4>4. CASE HostAccess(n) /\ Meaning(n, p.dst_addr) = l.src_ptr
                   /\ p.copy_payload = l.copy_payload
        BY <2>3, <3>3, <4>1, <4>2, <4>4 DEF Known
      <4>5. CASE ~HostAccess(n) /\ p.copy_payload
        BY <2>3, <3>3, <4>1, <4>2, <4>5 DEF Known
      <4>6. QED
        BY <2>3, <4>3, <4>4, <4>5
    <3> HIDE DEF m, km, n, kn, a, b, s, r, ds
    <3>5. QED
      BY <1>10, <2>1, <2>2, <2>3, <3>1, <3>4 DEF d
  <2>4. CASE b = "refused"
    BY <1>5, <2>4 DEF Scanning, Holding
  <2>5. QED
    BY <1>6, <2>1, <2>2, <2>3, <2>4
<1>16. CASE ReserveText(t) \/ AlignText(t)
  <2>1. /\ location' = location /\ a \in {"reserve", "scan"} /\ msg'[t] = msg[t]
        /\ pc[t] # "idle"
    BY <1>16 DEF ReserveText, AlignText, At, Asking
  <2>2. b \in {"scan", "pack", "refused"}
    BY <1>1, <1>16 DEF ReserveText, AlignText, Refuse, Goto, At, Asking, LocalTypes
  <2>3. CASE b \in {"scan", "pack"}
    BY <1>6, <1>8, <2>1, <2>3 DEF Scanning
  <2>4. CASE b = "refused"
    BY <1>5, <2>4 DEF Scanning, Holding
  <2>5. QED
    BY <2>2, <2>3, <2>4
<1>17. CASE PackPayload(t)
  <2>1. a = "pack" /\ msg'[t] = msg[t] /\ pc[t] # "idle"
    BY <1>17 DEF PackPayload, At, Asking
  <2>2. \/ b = "refused"
        \/ \E i \in Packing(t), p \in Resolutions :
             /\ i \in DOMAIN s /\ r = [s EXCEPT ![i] = p]
             /\ p.copy_size = s[i].copy_size /\ p.src_ptr = s[i].src_ptr
             /\ p.inside = s[i].inside /\ p.dst_addr = s[i].dst_addr /\ p.copy_payload
             /\ b = "pack"
    BY <1>1, <1>17, PackEffect
  <2>3. ASSUME NEW i \in Packing(t), NEW p \in Resolutions,
               i \in DOMAIN s, r = [s EXCEPT ![i] = p],
               p.copy_size = s[i].copy_size, p.src_ptr = s[i].src_ptr,
               p.inside = s[i].inside, p.dst_addr = s[i].dst_addr, p.copy_payload,
               b = "pack"
        PROVE  Goal
    <3>1. s[i].copy_payload
      BY DEF Packing
    <3> HIDE DEF m, km, n, kn, a, b, s, r, ds
    <3>2. Known(m, km, n, kn, a, i, Len(s), block[t], s[i], ds[i])
      BY <1>4, <2>1, <2>3 DEF AllKnown
    <3>3. Known(m, km, n, kn, b, i, Len(s), block'[t], p, ds[i])
      BY <2>3, <3>1, <3>2 DEF Known
    <3>4. QED
      BY <1>10, <2>1, <2>3, <3>3
  <2>4. CASE b = "refused"
    BY <1>5, <2>4 DEF Scanning, Holding
  <2>5. QED
    BY <1>6, <2>1, <2>2, <2>3, <2>4
<1>18. CASE AllocateBlock(t) \/ AllocateBadBlock(t)
  <2>1. location' = location /\ a = "pack" /\ msg'[t] = msg[t] /\ pc[t] # "idle"
    BY <1>18 DEF AllocateBlock, AllocateBadBlock, At, Asking
  <2>2. b \in {"allocated", "refused"}
    BY <1>1, <1>18 DEF AllocateBlock, AllocateBadBlock, Refuse, Goto, At, Asking, LocalTypes
  <2>3. CASE b = "allocated"
    BY <1>6, <1>8, <2>1, <2>3
  <2>4. CASE b = "refused"
    BY <1>5, <2>4 DEF Scanning, Holding
  <2>5. QED
    BY <2>2, <2>3, <2>4
<1>19. CASE CheckSize(t)
  <2>1. /\ location' = location /\ a = "allocated" /\ msg'[t] = msg[t] /\ pc[t] # "idle"
        /\ AskThen(t, n, "validate") /\ "validate" \in Labels \ Asking
    BY <1>19 DEF CheckSize, AskAfterCall, transfer_vars, At, Asking, Labels
  <2>2. b = "validate"
    BY <1>1, <1>3, <2>1, AskedFor
  <2>3. QED
    BY <1>6, <1>8, <2>1, <2>2 DEF Holding
<1>20. CASE ValidateBlock(t)
  <2>1. a = "validate" /\ block' = block /\ msg'[t] = msg[t] /\ pc[t] # "idle"
    BY <1>20 DEF ValidateBlock, At, Asking
  <2>2. \/ location' = location /\ b = "free"
        \/ /\ b = "rewrite" /\ DOMAIN r = DOMAIN s /\ Len(r) = Len(s)
           /\ \A i \in DOMAIN s :
                /\ r[i].copy_size = s[i].copy_size /\ r[i].src_ptr = s[i].src_ptr
                /\ r[i].inside = s[i].inside /\ r[i].copy_payload = s[i].copy_payload
                /\ r[i].payload_offset = s[i].payload_offset
                /\ r[i].dst_addr = IF s[i].copy_payload THEN block[t] + s[i].payload_offset
                                   ELSE s[i].dst_addr
    BY <1>1, <1>20, ValidateEffect
  <2>3. CASE location' = location /\ b = "free"
    BY <1>6, <1>8, <2>1, <2>3 DEF Holding
  <2>4. ASSUME b = "rewrite", DOMAIN r = DOMAIN s, Len(r) = Len(s),
               \A i \in DOMAIN s :
                 /\ r[i].copy_size = s[i].copy_size /\ r[i].src_ptr = s[i].src_ptr
                 /\ r[i].inside = s[i].inside /\ r[i].copy_payload = s[i].copy_payload
                 /\ r[i].payload_offset = s[i].payload_offset
                 /\ r[i].dst_addr = IF s[i].copy_payload THEN block[t] + s[i].payload_offset
                                    ELSE s[i].dst_addr
        PROVE  Goal
    <3> HIDE DEF m, km, n, kn, a, b, s, r, ds
    <3>1. ASSUME NEW i \in DOMAIN s
          PROVE  Known(m, km, n, kn, b, i, Len(r), block'[t], r[i], ds[i])
      <4>1. Known(m, km, n, kn, a, i, Len(s), block[t], s[i], ds[i])
        BY <1>4, <2>1 DEF AllKnown, Holding
      <4> DEFINE l == s[i]
                 p == r[i]
      <4>2. /\ p.copy_size = l.copy_size /\ p.src_ptr = l.src_ptr
            /\ p.inside = l.inside /\ p.copy_payload = l.copy_payload
            /\ p.payload_offset = l.payload_offset
            /\ p.dst_addr = IF l.copy_payload THEN block[t] + l.payload_offset
                            ELSE l.dst_addr
        BY <2>4
      <4> HIDE DEF l, p
      <4>3. Known(m, km, n, kn, b, i, Len(r), block'[t], p, ds[i])
        <5>1. Known(m, km, n, kn, a, i, Len(s), block[t], l, ds[i])
          BY <4>1 DEF l
        <5>2. CASE l.copy_payload
          BY <2>1, <2>4, <4>2, <5>1, <5>2 DEF Known
        <5>3. CASE ~l.copy_payload
          BY <2>1, <2>4, <4>2, <5>1, <5>3 DEF Known
        <5>4. QED
          BY <5>2, <5>3
      <4>4. QED
        BY <4>3 DEF p
    <3>2. QED
      BY <2>4, <3>1 DEF AllKnown, Goal
  <2>5. QED
    BY <1>6, <2>1, <2>2, <2>3, <2>4
<1>21. CASE RewriteText(t) \/ CopyPayloads(t)
  <2>1. /\ location' = location /\ block' = block /\ a \in {"rewrite", "copy"}
        /\ msg'[t] = msg[t] /\ pc[t] # "idle"
    BY <1>21 DEF RewriteText, CopyPayloads, At, Asking
  <2>2. b \in {"copy", "free", "delivered"}
    BY <1>1, <1>21 DEF RewriteText, CopyPayloads, GiveBack, Goto, At, Asking, LocalTypes
  <2>3. QED
    BY <1>6, <1>8, <2>1, <2>2 DEF Holding
<1>22. CASE FreeTransferred(t) \/ EndTransfer(t)
  <2>1. b \in {"freed", "refused", "idle"}
    BY <1>1, <1>22 DEF FreeTransferred, FreeBlock, EndTransfer, Goto, At, Asking, LocalTypes
  <2>2. QED
    BY <1>5, <2>1 DEF Scanning, Holding
<1>23. QED
  BY <1>11, <1>12, <1>13, <1>14, <1>15, <1>16, <1>17, <1>18, <1>19, <1>20, <1>21, <1>22
  DEF TransferStep

LEMMA UnderstoodHolds == Spec => []Understood
<1>1. Init => Understood
  BY DEF Init, MemoryInit, TransferInit, Understood, UnderstoodBy, AllKnown, At, Asking,
         Scanning, Holding, Threads
<1>2. DataPathInv /\ Understood /\ [Next]_vars => Understood'
  <2> SUFFICES ASSUME DataPathInv, Understood, [Next]_vars PROVE Understood'
    OBVIOUS
  <2>1. KindsKept /\ TypeOK /\ MessagesInHand
    BY BaseStep DEF DataPathInv
  <2>2. ASSUME NEW t \in Movers
        PROVE  UnderstoodBy(t)'
    <3>1. UnderstoodBy(t)
      BY DEF Understood
    <3>2. CASE TransferStep(t)
      BY <2>1, <3>1, <3>2, UnderstandingTransferred
    <3>3. CASE At(t)' \in Shrinking \cup {"refused"}
      BY <3>3 DEF UnderstoodBy, AllKnown, Shrinking, Scanning, Holding
    <3>4. CASE /\ At(t)' = At(t) /\ location'[t] = location[t] /\ msg'[t] = msg[t]
               /\ block'[t] = block[t]
      <4>1. CASE At(t) \notin Scanning \cup Holding \cup {"pack"}
        BY <3>4, <4>1 DEF UnderstoodBy, AllKnown
      <4>2. CASE At(t) \in Scanning \cup Holding \cup {"pack"}
        <5>1. pc[t] # "idle"
          BY <4>2 DEF At, Asking, Scanning, Holding
        <5>2. Src(t) \in Modules \cup {Host} /\ Dst(t) \in Modules
          BY <2>1, <5>1, InHand
        <5>3. KindOf(Src(t))' = KindOf(Src(t)) /\ Type(Dst(t))' = Type(Dst(t))
          BY <2>1, <3>4, <5>2 DEF KindsKept, KindOf, Type, Src, Dst
        <5>4. Src(t)' = Src(t) /\ Dst(t)' = Dst(t)
          BY <3>4 DEF Src, Dst
        <5>5. QED
          BY <3>1, <3>4, <5>3, <5>4 DEF UnderstoodBy
      <4>3. QED
        BY <4>1, <4>2
    <3>5. QED
      BY <3>2, <3>3, <3>4, TransfersKept
  <2>3. QED
    BY <2>2 DEF Understood
<1>3. QED
  BY <1>1, <1>2, BaseHolds, PTL DEF Spec

(* The addresses of a message that has been delivered mean the sender's    *)
(* bytes to the receiver, or their copy in its block, whatever the two     *)
(* modules are and wherever the bytes lie.                                 *)
THEOREM AddressesUnderstood == Spec => []AddressesMean
<1>1. DataPathInv /\ Understood => AddressesMean
  <2> SUFFICES ASSUME DataPathInv, Understood, NEW t \in Movers, pc[t] = "delivered",
                      NEW i \in Numeric(t), location[t][i].copy_size > 0
               PROVE  LET l    == location[t][i]
                          sent == Meaning(Src(t), msg[t].locations[i].src_addr)
                      IN  IF l.copy_payload
                          THEN /\ l.src_ptr = sent
                               /\ Meaning(Dst(t), l.dst_addr)
                                    = Base[Dst(t)] + block[t] + l.payload_offset
                          ELSE Meaning(Dst(t), l.dst_addr) = sent
    BY DEF AddressesMean
  <2> DEFINE l == location[t][i]
             d == msg[t].locations[i]
             m == Src(t)
             n == Dst(t)
             km == KindOf(m)
             kn == Type(n)
  <2>1. At(t) = "delivered" /\ i \in DOMAIN location[t] /\ d.form = "numeric"
    BY DEF At, Asking, Numeric
  <2>2. Known(m, km, n, kn, "delivered", i, Len(location[t]), block[t], l, d)
    BY <2>1 DEF Understood, UnderstoodBy, AllKnown, Holding
  <2>3. /\ m \in Modules \cup {Host} /\ n \in Modules /\ l \in Resolutions
        /\ block[t] \in Nat /\ Base[n] \in Nat /\ l.payload_offset \in Nat
    <3>1. TypeOK /\ MessagesInHand /\ block[t] \in Sizes /\ SizeMax \in Nat
      BY AddressesTyped DEF DataPathInv, TypeOK
    <3>2. m \in Modules \cup {Host} /\ n \in Modules /\ location[t] \in Seq(Resolutions)
      BY <3>1, InHand
    <3>3. l \in Resolutions
      BY <2>1, <3>2, ListFields
    <3>4. l.payload_offset \in Nat
      BY <3>3, ResolutionFields
    <3>5. QED
      BY <3>1, <3>2, <3>3, <3>4, AddressesTyped DEF Sizes
  <2>4. /\ \A addr : Meaning(m, addr) = Means(m, km, addr)
        /\ \A addr : Meaning(n, addr) = Means(n, kn, addr)
    BY <2>3, MeaningByKind
  <2> HIDE DEF l, d, m, n, km, kn
  <2>5. CASE l.copy_payload
    <3>1. /\ l.src_ptr = Meaning(m, d.src_addr) /\ l.dst_addr = block[t] + l.payload_offset
          /\ kn \notin {"native", "translated64"}
      BY <2>1, <2>2, <2>4, <2>5 DEF Known, l
    <3>2. Meaning(n, l.dst_addr) = Base[n] + (block[t] + l.payload_offset)
      BY <2>4, <3>1 DEF Means
    <3>3. QED
      BY <2>3, <2>5, <3>1, <3>2 DEF l, d, m, n
  <2>6. CASE ~l.copy_payload
    <3>1. Meaning(n, l.dst_addr) = Meaning(m, d.src_addr)
      BY <2>1, <2>2, <2>4, <2>6 DEF Known, l
    <3>2. QED
      BY <2>6, <3>1 DEF l, d, m, n
  <2>7. QED
    BY <2>5, <2>6
<1>2. QED
  BY <1>1, BaseHolds, UnderstoodHolds, PTL

-----------------------------------------------------------------------------
(* What a thread that asks for a size knows.                               *)

Publishing == {"publish", "publish_again"}

(* Who begins to ask knows of the size there is, and who asks goes on.     *)
LEMMA AskBegun ==
  ASSUME NEW t \in Threads, StepOf(t), DataPathInv, pc[t] \notin Asking, pc'[t] \in Asking
  PROVE  /\ on'[t] \in Modules /\ ctx' = ctx /\ current'[t] = {ctx[on'[t]].active}
         /\ pc'[t] = IF Type(on'[t]) \in Translated THEN "read" ELSE "sample"
         /\ UNCHANGED <<mutex, sample>>
<1> DEFINE Goal == /\ on'[t] \in Modules /\ ctx' = ctx /\ current'[t] = {ctx[on'[t]].active}
                   /\ pc'[t] = IF Type(on'[t]) \in Translated THEN "read" ELSE "sample"
                   /\ UNCHANGED <<mutex, sample>>
<1>1. /\ TypeOK /\ LocalTypes /\ ThreadsPlaced /\ MessagesInHand
      /\ current \in [Threads -> SUBSET (0..Reserve)]
  BY DEF DataPathInv, TypeOK, LocalTypes
<1>2. ASSUME NEW m \in Modules, NEW next, Ask(t, m, next), UNCHANGED <<ctx, mutex, sample>>
      PROVE  Goal
  BY <1>1, <1>2 DEF Ask, LocalTypes
<1>3. ASSUME NEW m \in Modules \cup {Host}, NEW label \in Labels \ Asking,
             AskThen(t, m, label), UNCHANGED <<ctx, mutex, sample>>
      PROVE  Goal
  <2>1. m = Host => IsNative(m)
    BY DEF IsNative
  <2>2. CASE IsNative(m)
    BY <1>1, <1>3, <2>2 DEF AskThen, Goto, LocalTypes
  <2>3. CASE ~IsNative(m)
    BY <1>2, <1>3, <2>1, <2>3 DEF AskThen
  <2>4. QED
    BY <2>2, <2>3
<1>4. {"measure", "resolve", "place", "validate"} \subseteq Labels \ Asking
  BY DEF Labels, Asking
<1>5. pc[t] # "idle" /\ t \in Movers => Dst(t) \in Modules /\ Src(t) \in Modules \cup {Host}
  BY <1>1, InHand
<1>6. \A m \in Messages : m.src \in Modules \cup {Host}
  BY MessageFields
<1>7. pc[t] \in Shrinking => ret[t] \notin Asking
  BY <1>1 DEF ThreadsPlaced, Asking
<1> SUFFICES Goal
  OBVIOUS
<1> HIDE DEF Goal
<1>8. CASE t \in Readers /\ BeginRead(t)
  BY <1>2, <1>8 DEF BeginRead
<1>9. CASE t \in Movers /\ BeginTransfer(t)
  BY <1>3, <1>4, <1>6, <1>9 DEF BeginTransfer, KeepMemory
<1>10. CASE t \in Movers /\ Scan(t)
  BY <1>1, <1>3, <1>4, <1>5, <1>10 DEF Scan, KeepMemory, Refuse, Goto, LocalTypes, Asking
<1>11. CASE t \in Movers /\ Resolve(t)
  BY <1>1, <1>3, <1>4, <1>5, <1>11 DEF Resolve, KeepMemory, Refuse, Goto, LocalTypes, Asking
<1>12. CASE t \in Movers /\ CheckSize(t)
  BY <1>3, <1>4, <1>5, <1>12 DEF CheckSize, AskAfterCall, KeepMemory
<1>13. CASE \/ (t \in Guests /\ GuestAllocates(t))
            \/ (t \in Guests /\ GuestFrees(t))
            \/ KeepTail(t)
            \/ ShrinkTranslated(t)
            \/ ShrinkWasmtime(t)
            \/ MarkReclaimable(t)
            \/ RefreshShrunk(t)
  BY <1>1, <1>7, <1>13
  DEF GuestAllocates, GuestFrees, KeepTail, ShrinkTranslated,
      ShrinkWasmtime, MarkReclaimable, RefreshShrunk, FreeBlock,
      LeaveAllocator, Return, Asking, Shrinking, LocalTypes
<1>14. CASE \/ (t \in Movers /\ Measure(t))
            \/ (t \in Movers /\ PlaceLocation(t))
            \/ (t \in Movers /\ ReserveText(t))
            \/ (t \in Movers /\ AlignText(t))
            \/ (t \in Movers /\ PackPayload(t))
            \/ (t \in Movers /\ AllocateBlock(t))
            \/ (t \in Movers /\ AllocateBadBlock(t))
            \/ (t \in Movers /\ ValidateBlock(t))
            \/ (t \in Movers /\ RewriteText(t))
            \/ (t \in Movers /\ CopyPayloads(t))
            \/ (t \in Movers /\ FreeTransferred(t))
            \/ (t \in Movers /\ EndTransfer(t))
  BY <1>1, <1>14
  DEF Measure, PlaceLocation, ReserveText, AlignText, PackPayload,
      AllocateBlock, AllocateBadBlock, ValidateBlock, RewriteText,
      CopyPayloads, FreeTransferred, EndTransfer, FreeBlock, Refuse,
      GiveBack, Goto, Asking, LocalTypes
<1>15. CASE \/ SampleSize(t)
            \/ PublishSize(t)
            \/ ReadSize(t)
  BY <1>15
  DEF SampleSize, PublishSize, ReadSize, Asking
<1>16. CASE MemoryStepOf(t)
  BY <1>8, <1>13, <1>15, <1>16 DEF MemoryStepOf
<1>17. CASE t \in Movers /\ TransferStep(t)
  BY <1>9, <1>10, <1>11, <1>12, <1>14, <1>17 DEF TransferStep
<1>18. QED
  BY <1>16, <1>17 DEF StepOf

LEMMA AskContinued ==
  ASSUME NEW t \in Threads, StepOf(t), pc[t] \in Asking
  PROVE  SampleSize(t) \/ PublishSize(t) \/ ReadSize(t)
<1> DEFINE Goal == SampleSize(t) \/ PublishSize(t) \/ ReadSize(t)
<1> SUFFICES Goal
  OBVIOUS
<1> HIDE DEF Goal
<1>1. CASE SampleSize(t) \/ PublishSize(t) \/ ReadSize(t)
  BY <1>1 DEF Goal
<1>2. CASE \/ (t \in Guests /\ GuestAllocates(t))
            \/ (t \in Guests /\ GuestFrees(t))
            \/ KeepTail(t)
            \/ ShrinkTranslated(t)
            \/ ShrinkWasmtime(t)
            \/ MarkReclaimable(t)
            \/ RefreshShrunk(t)
            \/ (t \in Readers /\ BeginRead(t))
  BY <1>2
  DEF GuestAllocates, GuestFrees, KeepTail, ShrinkTranslated,
      ShrinkWasmtime, MarkReclaimable, RefreshShrunk, BeginRead, Asking
<1>3. CASE \/ (t \in Movers /\ BeginTransfer(t))
            \/ (t \in Movers /\ Measure(t))
            \/ (t \in Movers /\ Scan(t))
            \/ (t \in Movers /\ Resolve(t))
            \/ (t \in Movers /\ PlaceLocation(t))
            \/ (t \in Movers /\ ReserveText(t))
            \/ (t \in Movers /\ AlignText(t))
            \/ (t \in Movers /\ PackPayload(t))
            \/ (t \in Movers /\ AllocateBlock(t))
            \/ (t \in Movers /\ AllocateBadBlock(t))
            \/ (t \in Movers /\ CheckSize(t))
            \/ (t \in Movers /\ ValidateBlock(t))
            \/ (t \in Movers /\ RewriteText(t))
            \/ (t \in Movers /\ CopyPayloads(t))
            \/ (t \in Movers /\ FreeTransferred(t))
            \/ (t \in Movers /\ EndTransfer(t))
  BY <1>3
  DEF BeginTransfer, Measure, Scan, Resolve, PlaceLocation, ReserveText,
      AlignText, PackPayload, AllocateBlock, AllocateBadBlock, CheckSize,
      ValidateBlock, RewriteText, CopyPayloads, FreeTransferred,
      EndTransfer, Asking
<1>4. CASE MemoryStepOf(t)
  BY <1>1, <1>2, <1>4 DEF MemoryStepOf
<1>5. CASE t \in Movers /\ TransferStep(t)
  BY <1>3, <1>5 DEF TransferStep
<1>6. QED
  BY <1>4, <1>5 DEF StepOf

(* Whoever goes on asking is told of every size the memory gets.           *)
LEMMA AskersTold ==
  ASSUME NEW t \in Threads, StepOf(t), DataPathInv, NEW u \in Threads, pc[u] \in Asking,
         u = t => ~ReadSize(t), ctx[on[u]].active \in current[u]
  PROVE  /\ current[u] \subseteq current'[u] /\ ctx'[on[u]].active \in current'[u]
         /\ current'[u] \subseteq current[u] \cup {ctx'[on[u]].active}
<1> DEFINE Goal == /\ current[u] \subseteq current'[u] /\ ctx'[on[u]].active \in current'[u]
                   /\ current'[u] \subseteq current[u] \cup {ctx'[on[u]].active}
<1>1. /\ TypeOK /\ ThreadsPlaced /\ MessagesInHand /\ on[u] \in Modules
      /\ current \in [Threads -> SUBSET (0..Reserve)] /\ ctx \in [Modules -> Records]
  BY DEF DataPathInv, TypeOK, ThreadsPlaced, AllSound
<1>2. ASSUME UNCHANGED current, ctx'[on[u]].active = ctx[on[u]].active
      PROVE  Goal
  BY <1>2
<1>3. ASSUME NEW m \in Modules, NEW c, Becomes(m, c)
      PROVE  Goal
  <2>1. current'[u] = IF on[u] = m THEN current[u] \cup {c.active} ELSE current[u]
    BY <1>1, <1>3 DEF Becomes
  <2>2. ctx'[on[u]] = IF on[u] = m THEN c ELSE ctx[on[u]]
    BY <1>1, <1>3 DEF Becomes
  <2>3. QED
    BY <2>1, <2>2
<1>4. ASSUME UNCHANGED ctx, u # t, NEW S, current' = [current EXCEPT ![t] = S]
      PROVE  Goal
  BY <1>1, <1>4
<1>5. ASSUME NEW m \in Modules, NEW n, NEW at, Malloc(t, m, n, at)
      PROVE  Goal
  BY <1>2, <1>3, <1>5 DEF Malloc
<1>6. pc[t] \in Shrinking => on[t] \in Modules
  BY <1>1 DEF ThreadsPlaced
<1>7. pc[t] # "idle" /\ t \in Movers => Dst(t) \in Modules
  BY <1>1, InHand
<1>8. pc[t] \notin Asking => u # t
  OBVIOUS
<1>9. ASSUME NEW m, NEW label, AskThen(t, m, label), UNCHANGED ctx, pc[t] \notin Asking
      PROVE  Goal
  BY <1>2, <1>4, <1>8, <1>9 DEF AskThen, Stay, Ask
<1>10. ASSUME NEW m \in Modules, NEW c, ctx' = [ctx EXCEPT ![m] = c],
              c.active = ctx[m].active, UNCHANGED current
       PROVE  Goal
  <2>1. ctx'[on[u]].active = ctx[on[u]].active
    BY <1>1, <1>10
  <2>2. QED
    BY <1>2, <1>10, <2>1
<1> SUFFICES Goal
  OBVIOUS
<1> HIDE DEF Goal
<1>11. CASE t \in Guests /\ GuestAllocates(t)
  BY <1>5, <1>11 DEF GuestAllocates
<1>12. CASE ShrinkTranslated(t)
  BY <1>2, <1>3, <1>6, <1>12 DEF ShrinkTranslated, Shrinking
<1>13. CASE ShrinkWasmtime(t)
  BY <1>2, <1>3, <1>6, <1>13 DEF ShrinkWasmtime, Shrinking
<1>14. CASE MarkReclaimable(t)
  <2> DEFINE c == [ctx[on[t]] EXCEPT !.memory_reclaim_pending = TRUE]
  <2>1. on[t] \in Modules /\ ctx' = [ctx EXCEPT ![on[t]] = c] /\ UNCHANGED current
    BY <1>6, <1>14 DEF MarkReclaimable, Shrinking
  <2>2. c.active = ctx[on[t]].active
    BY <1>1, <2>1 DEF Records
  <2>3. QED
    BY <1>10, <2>1, <2>2
<1>15. CASE RefreshShrunk(t)
  <2> DEFINE c == [ctx[on[t]] EXCEPT !.memory_size = ctx[on[t]].active]
  <2>1. on[t] \in Modules /\ ctx' = [ctx EXCEPT ![on[t]] = c] /\ UNCHANGED current
    BY <1>6, <1>15 DEF RefreshShrunk, Shrinking
  <2>2. c.active = ctx[on[t]].active
    BY <1>1, <2>1 DEF Records
  <2>3. QED
    BY <1>10, <2>1, <2>2
<1>16. CASE PublishSize(t)
  <2> DEFINE c == [ctx[on[t]] EXCEPT !.memory_size = sample[t]]
  <2>1. on[t] \in Modules /\ ctx' = [ctx EXCEPT ![on[t]] = c] /\ UNCHANGED current
    BY <1>1, <1>16 DEF PublishSize, ThreadsPlaced, Asking
  <2>2. c.active = ctx[on[t]].active
    BY <1>1, <2>1 DEF Records
  <2>3. QED
    BY <1>10, <2>1, <2>2
<1>17. CASE ReadSize(t)
  BY <1>4, <1>17 DEF ReadSize
<1>18. CASE t \in Readers /\ BeginRead(t)
  BY <1>4, <1>8, <1>18 DEF BeginRead, Ask, Asking
<1>19. CASE t \in Movers /\ BeginTransfer(t)
  BY <1>9, <1>19 DEF BeginTransfer, KeepMemory, Asking
<1>20. CASE t \in Movers /\ Scan(t)
  BY <1>2, <1>9, <1>20 DEF Scan, KeepMemory, Asking, Stay
<1>21. CASE t \in Movers /\ Resolve(t)
  BY <1>2, <1>9, <1>21 DEF Resolve, KeepMemory, Asking, Stay
<1>22. CASE t \in Movers /\ CheckSize(t)
  BY <1>9, <1>22 DEF CheckSize, AskAfterCall, KeepMemory, Asking
<1>23. CASE t \in Movers /\ AllocateBlock(t)
  BY <1>5, <1>7, <1>23 DEF AllocateBlock
<1>24. CASE \/ (t \in Guests /\ GuestFrees(t))
            \/ KeepTail(t)
            \/ SampleSize(t)
            \/ (t \in Movers /\ Measure(t))
            \/ (t \in Movers /\ PlaceLocation(t))
            \/ (t \in Movers /\ ReserveText(t))
            \/ (t \in Movers /\ AlignText(t))
            \/ (t \in Movers /\ PackPayload(t))
            \/ (t \in Movers /\ AllocateBadBlock(t))
            \/ (t \in Movers /\ ValidateBlock(t))
            \/ (t \in Movers /\ RewriteText(t))
            \/ (t \in Movers /\ CopyPayloads(t))
            \/ (t \in Movers /\ FreeTransferred(t))
            \/ (t \in Movers /\ EndTransfer(t))
  BY <1>2, <1>24
  DEF GuestFrees, KeepTail, SampleSize, Measure, PlaceLocation,
      ReserveText, AlignText, PackPayload, AllocateBadBlock, ValidateBlock,
      RewriteText, CopyPayloads, FreeTransferred, EndTransfer, KeepMemory,
      Stay
<1>25. CASE MemoryStepOf(t)
  BY <1>11, <1>12, <1>13, <1>14, <1>15, <1>16, <1>17, <1>18, <1>24, <1>25 DEF MemoryStepOf
<1>26. CASE t \in Movers /\ TransferStep(t)
  BY <1>19, <1>20, <1>21, <1>22, <1>23, <1>24, <1>26 DEF TransferStep
<1>27. QED
  BY <1>25, <1>26 DEF StepOf

(* The cached size is changed to the size, or to a published sample.       *)
LEMMA CachedSize ==
  ASSUME NEW t \in Threads, StepOf(t), DataPathInv, NEW m \in Modules,
         Type(m) \notin Translated
  PROVE  \/ ctx'[m].memory_size = ctx[m].memory_size
         \/ ctx'[m].memory_size = ctx'[m].active
         \/ PublishSize(t) /\ on[t] = m /\ ctx'[m].memory_size = sample[t]
<1> DEFINE Goal == \/ ctx'[m].memory_size = ctx[m].memory_size
                   \/ ctx'[m].memory_size = ctx'[m].active
                   \/ PublishSize(t) /\ on[t] = m /\ ctx'[m].memory_size = sample[t]
<1>1. /\ TypeOK /\ ThreadsPlaced /\ MessagesInHand /\ ctx \in [Modules -> Records]
  BY DEF DataPathInv, AllSound
<1>2. UNCHANGED ctx => Goal
  OBVIOUS
<1>3. ASSUME NEW k \in Modules, NEW c, ctx' = [ctx EXCEPT ![k] = c],
             k = m => c.memory_size = ctx[m].memory_size \/ c.memory_size = c.active
      PROVE  Goal
  BY <1>1, <1>3
<1>4. ASSUME NEW k \in Modules, NEW n, NEW at, Malloc(t, k, n, at)
      PROVE  Goal
  <2> DEFINE e == Place(k, n) + n
             c == Enlarged(ctx[k], e)
  <2>1. UNCHANGED ctx \/ ctx' = [ctx EXCEPT ![k] = c]
    BY <1>4 DEF Malloc, Becomes
  <2>2. ctx[k] \in Records
    BY <1>1
  <2> HIDE DEF e
  <2>3. k = m => c.memory_size = ctx[m].memory_size
    <3> SUFFICES ASSUME ctx[m] \in Records, ctx[m].type \notin Translated
                 PROVE  Enlarged(ctx[m], e).memory_size = ctx[m].memory_size
      BY <2>2 DEF Type
    <3>1. QED
      BY DEF Enlarged, Records
  <2> HIDE DEF c
  <2>4. QED
    BY <1>2, <1>3, <2>1, <2>3
<1>5. pc[t] \in Shrinking \cup Asking => on[t] \in Modules
  BY <1>1 DEF ThreadsPlaced
<1>6. pc[t] # "idle" /\ t \in Movers => Dst(t) \in Modules
  BY <1>1, InHand
<1> SUFFICES Goal
  OBVIOUS
<1> HIDE DEF Goal
<1>7. CASE t \in Guests /\ GuestAllocates(t)
  BY <1>4, <1>7 DEF GuestAllocates
<1>8. CASE ShrinkTranslated(t)
  <2>1. on[t] \in Modules /\ on[t] # m
    BY <1>5, <1>8 DEF ShrinkTranslated, Shrinking
  <2>2. UNCHANGED ctx \/ \E c : ctx' = [ctx EXCEPT ![on[t]] = c]
    BY <1>8 DEF ShrinkTranslated, Becomes
  <2>3. QED
    BY <1>2, <1>3, <2>1, <2>2
<1>9. CASE ShrinkWasmtime(t)
  <2>1. on[t] \in Modules
    BY <1>5, <1>9 DEF ShrinkWasmtime, Shrinking
  <2> DEFINE c == [ctx[on[t]] EXCEPT !.active = Target(on[t]),
                     !.backed = IF Entered(on[t]) THEN Target(on[t]) ELSE @]
  <2>2. UNCHANGED ctx \/ ctx' = [ctx EXCEPT ![on[t]] = c]
    BY <1>9 DEF ShrinkWasmtime, Becomes
  <2>3. c.memory_size = ctx[on[t]].memory_size
    BY <1>1, <2>1 DEF Records
  <2> HIDE DEF c
  <2>4. QED
    BY <1>2, <1>3, <2>1, <2>2, <2>3
<1>10. CASE MarkReclaimable(t)
  <2> DEFINE c == [ctx[on[t]] EXCEPT !.memory_reclaim_pending = TRUE]
  <2>1. on[t] \in Modules /\ ctx' = [ctx EXCEPT ![on[t]] = c]
    BY <1>5, <1>10 DEF MarkReclaimable, Shrinking
  <2>2. c.memory_size = ctx[on[t]].memory_size
    BY <1>1, <2>1 DEF Records
  <2> HIDE DEF c
  <2>3. QED
    BY <1>3, <2>1, <2>2
<1>11. CASE RefreshShrunk(t)
  <2> DEFINE c == [ctx[on[t]] EXCEPT !.memory_size = ctx[on[t]].active]
  <2>1. on[t] \in Modules /\ ctx' = [ctx EXCEPT ![on[t]] = c]
    BY <1>5, <1>11 DEF RefreshShrunk, Shrinking
  <2>2. c.memory_size = c.active
    BY <1>1, <2>1 DEF Records
  <2> HIDE DEF c
  <2>3. QED
    BY <1>3, <2>1, <2>2
<1>12. CASE PublishSize(t)
  <2> DEFINE c == [ctx[on[t]] EXCEPT !.memory_size = sample[t]]
  <2>1. on[t] \in Modules /\ ctx' = [ctx EXCEPT ![on[t]] = c]
    BY <1>5, <1>12 DEF PublishSize, Asking
  <2>2. c.memory_size = sample[t]
    BY <1>1, <2>1 DEF Records
  <2> HIDE DEF c
  <2>3. CASE on[t] = m
    BY <1>1, <1>12, <2>1, <2>2, <2>3 DEF Goal
  <2>4. CASE on[t] # m
    BY <1>3, <2>1, <2>4
  <2>5. QED
    BY <2>3, <2>4
<1>13. CASE t \in Movers /\ AllocateBlock(t)
  BY <1>4, <1>6, <1>13 DEF AllocateBlock
<1>14. CASE \/ (t \in Guests /\ GuestFrees(t))
            \/ KeepTail(t)
            \/ SampleSize(t)
            \/ ReadSize(t)
            \/ (t \in Readers /\ BeginRead(t))
            \/ (t \in Movers /\ BeginTransfer(t))
            \/ (t \in Movers /\ Measure(t))
            \/ (t \in Movers /\ Scan(t))
            \/ (t \in Movers /\ Resolve(t))
            \/ (t \in Movers /\ PlaceLocation(t))
            \/ (t \in Movers /\ ReserveText(t))
            \/ (t \in Movers /\ AlignText(t))
            \/ (t \in Movers /\ PackPayload(t))
            \/ (t \in Movers /\ AllocateBadBlock(t))
            \/ (t \in Movers /\ CheckSize(t))
            \/ (t \in Movers /\ ValidateBlock(t))
            \/ (t \in Movers /\ RewriteText(t))
            \/ (t \in Movers /\ CopyPayloads(t))
            \/ (t \in Movers /\ FreeTransferred(t))
            \/ (t \in Movers /\ EndTransfer(t))
  BY <1>2, <1>14
  DEF GuestFrees, KeepTail, SampleSize, ReadSize, BeginRead, BeginTransfer,
      Measure, Scan, Resolve, PlaceLocation, ReserveText, AlignText,
      PackPayload, AllocateBadBlock, CheckSize, ValidateBlock, RewriteText,
      CopyPayloads, FreeTransferred, EndTransfer, KeepMemory
<1>15. CASE MemoryStepOf(t)
  BY <1>7, <1>8, <1>9, <1>10, <1>11, <1>12, <1>14, <1>15 DEF MemoryStepOf
<1>16. CASE t \in Movers /\ TransferStep(t)
  BY <1>13, <1>14, <1>16 DEF TransferStep
<1>17. QED
  BY <1>15, <1>16 DEF StepOf

(* A lock that another thread holds is not taken from it.                  *)
LEMMA HeldLocksKept ==
  ASSUME NEW t \in Threads, StepOf(t), DataPathInv, NEW u \in Threads, u # t,
         NEW m \in Modules, NEW lock \in {"runner", "ctx"}, mutex[m][lock] = u
  PROVE  mutex'[m][lock] = u
<1> DEFINE Goal == mutex'[m][lock] = u
<1>1. /\ TypeOK /\ ThreadsPlaced /\ MessagesInHand
      /\ mutex \in [Modules -> [Locks -> Threads \cup {NoThread}]]
      /\ NoThread \notin Threads /\ {"runner", "ctx", "alloc"} \subseteq Locks
      /\ \A k \in Modules : DOMAIN mutex[k] = Locks
  BY MemoryAssumption DEF DataPathInv, TypeOK, Locks
<1>2. UNCHANGED mutex => Goal
  OBVIOUS
<1>3. ASSUME NEW k \in Modules, NEW e, NEW next, FreeBlock(t, k, e, next)
      PROVE  Goal
  <2>1. k = m /\ Entered(k) => lock # "runner"
    BY <1>1, <1>3 DEF FreeBlock, Free
  <2>2. mutex'[m]["ctx"] = mutex[m]["ctx"]
    BY <1>1, <1>3 DEF FreeBlock
  <2>3. ~(k = m /\ Entered(k)) => mutex'[m]["runner"] = mutex[m]["runner"]
    BY <1>1, <1>3 DEF FreeBlock
  <2>4. QED
    BY <2>1, <2>2, <2>3
<1>4. ASSUME LeaveAllocator(t), on[t] \in Modules
      PROVE  Goal
  <2>1. mutex'[m]["ctx"] = mutex[m]["ctx"]
    BY <1>1, <1>4 DEF LeaveAllocator
  <2>2. mutex[m]["runner"] # t => mutex'[m]["runner"] = mutex[m]["runner"]
    BY <1>1, <1>4 DEF LeaveAllocator
  <2>3. QED
    BY <2>1, <2>2
<1>5. /\ pc[t] \in Shrinking \cup Asking => on[t] \in Modules
      /\ pc[t] # "idle" /\ t \in Movers => Dst(t) \in Modules
  BY <1>1, InHand DEF ThreadsPlaced
<1> SUFFICES Goal
  OBVIOUS
<1> HIDE DEF Goal
<1>6. CASE t \in Guests /\ GuestFrees(t)
  BY <1>3, <1>6 DEF GuestFrees
<1>7. CASE KeepTail(t) \/ ShrinkTranslated(t) \/ RefreshShrunk(t)
  BY <1>4, <1>5, <1>7 DEF KeepTail, ShrinkTranslated, RefreshShrunk, Shrinking
<1>8. CASE SampleSize(t)
  <2>1. on[t] \in Modules
    BY <1>5, <1>8 DEF SampleSize, Asking
  <2>2. ~(on[t] = m /\ HeldForSample(m, lock))
    BY <1>1, <1>8, <2>1 DEF SampleSize, Free
  <2>3. QED
    BY <1>1, <1>8, <2>1, <2>2 DEF SampleSize, Goal
<1>9. CASE PublishSize(t)
  <2>1. on[t] \in Modules
    BY <1>5, <1>9 DEF PublishSize, Asking
  <2>2. QED
    BY <1>1, <1>9, <2>1 DEF PublishSize, Goal
<1>10. CASE t \in Movers /\ FreeTransferred(t)
  BY <1>2, <1>3, <1>5, <1>10 DEF FreeTransferred
<1>11. CASE \/ (t \in Guests /\ GuestAllocates(t))
            \/ ShrinkWasmtime(t)
            \/ MarkReclaimable(t)
            \/ ReadSize(t)
            \/ (t \in Readers /\ BeginRead(t))
            \/ (t \in Movers /\ BeginTransfer(t))
            \/ (t \in Movers /\ Measure(t))
            \/ (t \in Movers /\ Scan(t))
            \/ (t \in Movers /\ Resolve(t))
            \/ (t \in Movers /\ PlaceLocation(t))
            \/ (t \in Movers /\ ReserveText(t))
            \/ (t \in Movers /\ AlignText(t))
            \/ (t \in Movers /\ PackPayload(t))
            \/ (t \in Movers /\ AllocateBlock(t))
            \/ (t \in Movers /\ AllocateBadBlock(t))
            \/ (t \in Movers /\ CheckSize(t))
            \/ (t \in Movers /\ ValidateBlock(t))
            \/ (t \in Movers /\ RewriteText(t))
            \/ (t \in Movers /\ CopyPayloads(t))
            \/ (t \in Movers /\ EndTransfer(t))
  BY <1>2, <1>11
  DEF GuestAllocates, ShrinkWasmtime, MarkReclaimable, ReadSize, BeginRead,
      BeginTransfer, Measure, Scan, Resolve, PlaceLocation, ReserveText,
      AlignText, PackPayload, AllocateBlock, AllocateBadBlock, CheckSize,
      ValidateBlock, RewriteText, CopyPayloads, EndTransfer, KeepMemory
<1>12. CASE MemoryStepOf(t)
  BY <1>6, <1>7, <1>8, <1>9, <1>11, <1>12 DEF MemoryStepOf
<1>13. CASE t \in Movers /\ TransferStep(t)
  BY <1>10, <1>11, <1>13 DEF TransferStep
<1>14. QED
  BY <1>12, <1>13 DEF StepOf

(* What one thread knows, and what two threads on one memory know.         *)
Told(u) ==
  /\ pc[u] \in Asking => ctx[on[u]].active \in current[u]
  /\ pc[u] \in Publishing =>
       /\ \A lock \in {"runner", "ctx"} : HeldForSample(on[u], lock) => mutex[on[u]][lock] = u
       /\ sample[u] \in current[u]
  /\ pc[u] = "read" => ctx[on[u]].memory_size \in current[u]

SampleToldTo(u, v) ==
  pc[u] \in Publishing /\ pc[v] = "read" /\ on[v] = on[u] => sample[u] \in current[v]

NoWamr == \A m \in Modules : Type(m) # "wamr"

SizesTold ==
  /\ \A u \in Threads : Told(u)
  /\ \A u, v \in Threads : SampleToldTo(u, v)

LEMMA ToldStep ==
  ASSUME NEW t \in Threads, StepOf(t), DataPathInv, DataPathInv', KindsKept, SizesTold,
         NEW u \in Threads
  PROVE  Told(u)'
<1>1. /\ TypeOK /\ LocalTypes /\ ThreadsPlaced /\ OthersKept(t)
      /\ sample \in [Threads -> 0..Reserve]
      /\ mutex \in [Modules -> [Locks -> Threads \cup {NoThread}]]
      /\ Told(u) /\ {"runner", "ctx"} \subseteq Locks
      /\ \A m \in Modules : DOMAIN mutex[m] = Locks
  BY OthersStep DEF DataPathInv, TypeOK, LocalTypes, SizesTold, Locks
<1>2. /\ Publishing \subseteq Asking /\ "read" \in Asking /\ "read" \notin Publishing
      /\ Publishing \cap {"sample", "sample_again"} = {}
  BY DEF Publishing, Asking
<1>3. CASE pc'[u] \notin Asking
  BY <1>2, <1>3 DEF Told
<1>4. CASE pc'[u] \in Asking /\ pc[u] \notin Asking
  <2>1. u = t
    BY <1>1, <1>4 DEF OthersKept
  <2>2. /\ on'[u] \in Modules /\ ctx' = ctx /\ current'[u] = {ctx[on'[u]].active}
        /\ pc'[u] = IF Type(on'[u]) \in Translated THEN "read" ELSE "sample"
    BY <1>4, <2>1, AskBegun
  <2>3. pc'[u] = "read" => ctx[on'[u]].memory_size = ctx[on'[u]].active
    BY <1>1, <2>2 DEF DataPathInv, AllSound, Sound, Type
  <2>4. QED
    BY <1>2, <2>2, <2>3 DEF Told
<1>5. CASE pc'[u] \in Asking /\ pc[u] \in Asking
  <2>1. /\ on'[u] = on[u] /\ on[u] \in Modules
        /\ u = t => ~ReadSize(t)
    <3>1. on[u] \in Modules
      BY <1>1, <1>5 DEF ThreadsPlaced
    <3>2. u # t => on'[u] = on[u]
      BY <1>1 DEF OthersKept
    <3>3. u = t => SampleSize(t) \/ PublishSize(t) \/ ReadSize(t)
      BY <1>5, AskContinued
    <3>4. u = t => ~ReadSize(t)
      <4>1. ret[u] \notin Asking
        BY <1>1, <1>5 DEF ThreadsPlaced, Asking
      <4>2. QED
        BY <1>1, <1>5, <4>1 DEF ReadSize, Return, LocalTypes
    <3>5. QED
      BY <3>1, <3>2, <3>3, <3>4 DEF SampleSize, PublishSize
  <2>2. current[u] \subseteq current'[u] /\ ctx'[on[u]].active \in current'[u]
    BY <1>1, <1>5, <2>1, AskersTold DEF Told
  <2>3. Type(on[u])' = Type(on[u])
    BY <2>1 DEF KindsKept, Type
  <2>4. \A lock : HeldForSample(on[u], lock)' <=> HeldForSample(on[u], lock)
    BY <2>1, <2>3 DEF HeldForSample
  <2>5. ASSUME pc'[u] \in Publishing
        PROVE  /\ \A lock \in {"runner", "ctx"} :
                    HeldForSample(on[u], lock) => mutex'[on[u]][lock] = u
               /\ sample'[u] \in current'[u]
    <3>1. CASE u # t
      <4>1. pc[u] \in Publishing /\ sample'[u] = sample[u]
        BY <1>1, <2>5, <3>1 DEF OthersKept
      <4>2. ASSUME NEW lock \in {"runner", "ctx"}, HeldForSample(on[u], lock)
            PROVE  mutex'[on[u]][lock] = u
        <5> DEFINE m == on[u]
        <5>1. m \in Modules /\ mutex[m][lock] = u
          BY <1>1, <2>1, <4>1, <4>2 DEF Told
        <5> HIDE DEF m
        <5>2. mutex'[m][lock] = u
          BY <3>1, <5>1, HeldLocksKept
        <5>3. QED
          BY <5>2 DEF m
      <4>3. QED
        BY <1>1, <2>2, <4>1, <4>2 DEF Told
    <3>2. CASE u = t
      <4>1. SampleSize(u)
        <5>1. SampleSize(u) \/ PublishSize(u)
          BY <1>5, <2>1, <3>2, AskContinued
        <5>2. ~PublishSize(u)
          BY <1>1, <1>2, <2>5 DEF PublishSize, LocalTypes
        <5>3. QED
          BY <5>1, <5>2
      <4>2. sample'[u] = ctx[on[u]].active
        BY <1>1, <4>1 DEF SampleSize
      <4>3. \A lock \in Locks : HeldForSample(on[u], lock) => mutex'[on[u]][lock] = u
        BY <1>1, <2>1, <4>1 DEF SampleSize
      <4>4. QED
        BY <1>1, <1>5, <2>2, <4>2, <4>3 DEF Told
    <3>3. QED
      BY <3>1, <3>2
  <2>6. ASSUME pc'[u] = "read"
        PROVE  ctx'[on[u]].memory_size \in current'[u]
    <3>1. CASE Type(on[u]) \in Translated
      <4>1. Sound(ctx'[on[u]], live'[on[u]]) /\ ctx'[on[u]].type \in Translated
        BY <2>1, <2>3, <3>1 DEF DataPathInv, AllSound, Type
      <4>2. QED
        BY <2>2, <4>1 DEF Sound
    <3>2. CASE Type(on[u]) \notin Translated /\ pc[u] = "read"
      <4> DEFINE m == on[u]
      <4>1. m \in Modules /\ Type(m) \notin Translated
        BY <2>1, <3>2
      <4> HIDE DEF m
      <4>2. \/ ctx'[m].memory_size = ctx[m].memory_size
            \/ ctx'[m].memory_size = ctx'[m].active
            \/ PublishSize(t) /\ on[t] = m /\ ctx'[m].memory_size = sample[t]
        BY <4>1, CachedSize
      <4>3. ctx[m].memory_size \in current[u]
        BY <1>1, <3>2 DEF Told, m
      <4>4. PublishSize(t) /\ on[t] = m => sample[t] \in current[u]
        BY <3>2 DEF SizesTold, SampleToldTo, PublishSize, Publishing, m
      <4>5. current[u] \subseteq current'[u] /\ ctx'[m].active \in current'[u]
        BY <2>2 DEF m
      <4>6. ctx'[m].memory_size \in current'[u]
        BY <4>2, <4>3, <4>4, <4>5
      <4>7. QED
        BY <4>6 DEF m
    <3>3. CASE pc[u] # "read"
      <4>1. u = t
        BY <1>1, <2>6, <3>3 DEF OthersKept
      <4>2. PublishSize(u)
        <5>1. SampleSize(u) \/ PublishSize(u)
          BY <1>5, <2>1, <4>1, AskContinued
        <5>2. ~SampleSize(u)
          BY <1>1, <2>6 DEF SampleSize, LocalTypes
        <5>3. QED
          BY <5>1, <5>2
      <4>3. sample[u] \in current[u]
        BY <1>1, <4>2 DEF Told, PublishSize, Publishing
      <4>4. ctx'[on[u]].memory_size = sample[u]
        <5>1. ctx \in [Modules -> Records]
          BY DEF DataPathInv, AllSound
        <5>2. QED
          BY <2>1, <4>2, <5>1 DEF PublishSize, Records
      <4>5. QED
        BY <2>2, <4>3, <4>4
    <3>4. QED
      BY <3>1, <3>2, <3>3
  <2>7. QED
    BY <2>1, <2>2, <2>4, <2>5, <2>6 DEF Told
<1>6. QED
  BY <1>3, <1>4, <1>5

LEMMA SampleStep ==
  ASSUME NEW t \in Threads, StepOf(t), DataPathInv, DataPathInv', KindsKept, SizesTold,
         NoWamr, NEW u \in Threads, NEW v \in Threads
  PROVE  SampleToldTo(u, v)'
<1> SUFFICES ASSUME pc'[u] \in Publishing, pc'[v] = "read", on'[v] = on'[u]
             PROVE  sample'[u] \in current'[v]
  BY DEF SampleToldTo
<1>1. /\ TypeOK /\ LocalTypes /\ ThreadsPlaced /\ OthersKept(t) /\ Told(u) /\ Told(v)
      /\ SampleToldTo(u, v) /\ ThreadsPlaced'
  BY OthersStep DEF DataPathInv, TypeOK, LocalTypes, SizesTold
<1>2. /\ Publishing \subseteq Asking /\ "read" \in Asking \ Publishing
      /\ Publishing \cap {"sample", "sample_again"} = {}
      /\ {"sample", "sample_again"} \subseteq Asking
  BY DEF Publishing, Asking
<1>3. on'[u] \in Modules /\ Type(on[u])' \notin Translated \cup {"native", "wamr"}
  <2>1. on'[u] \in Modules /\ Type(on[u])' \notin Translated \cup {"native"}
    BY <1>1, <1>2 DEF ThreadsPlaced, Publishing, Asking
  <2>2. Type(on[u])' # "wamr"
    BY <2>1 DEF NoWamr, KindsKept, Type
  <2>3. QED
    BY <2>1, <2>2
<1>4. ASSUME NEW w \in {u, v} PROVE pc[w] \in Asking /\ on'[w] = on[w]
  <2>1. pc'[w] \in Asking /\ pc'[w] # "sample" /\ on'[w] = on'[u]
    BY <1>2 DEF Publishing
  <2>2. CASE w # t
    BY <1>1, <2>1, <2>2 DEF OthersKept
  <2>3. CASE w = t
    <3>1. pc[w] \in Asking
      <4>1. SUFFICES ASSUME pc[w] \notin Asking PROVE FALSE
        OBVIOUS
      <4>2. pc'[w] = (IF Type(on'[w]) \in Translated THEN "read" ELSE "sample")
        BY <2>1, <2>3, <4>1, AskBegun
      <4>3. Type(on'[u]) = Type(on[u])'
        BY <1>3 DEF KindsKept, Type
      <4>4. QED
        BY <1>3, <2>1, <4>2, <4>3
    <3>2. SampleSize(w) \/ PublishSize(w) \/ ReadSize(w)
      BY <2>3, <3>1, AskContinued
    <3>3. ~ReadSize(w)
      <4>1. ret[w] \notin Asking
        BY <1>1, <3>1 DEF ThreadsPlaced, Asking
      <4>2. QED
        BY <1>1, <2>1, <4>1 DEF ReadSize, Return, LocalTypes
    <3>4. QED
      BY <3>1, <3>2, <3>3 DEF SampleSize, PublishSize
  <2>4. QED
    BY <2>2, <2>3
<1>5. Type(on[u]) \notin Translated \cup {"native", "wamr"} /\ on[u] \in Modules /\ on[v] = on[u]
  BY <1>3, <1>4 DEF KindsKept, Type
<1>6. CASE pc[v] = "read"
  <2>1. v = t => ~ReadSize(t)
    <3>1. ret[v] \notin Asking
      BY <1>1, <1>2, <1>6 DEF ThreadsPlaced, Asking
    <3>2. QED
      BY <1>1, <1>2, <3>1 DEF ReadSize, Return, LocalTypes
  <2>2. current[v] \subseteq current'[v]
    BY <1>1, <1>2, <1>6, <2>1, AskersTold DEF Told
  <2>3. CASE u # t
    BY <1>1, <1>5, <1>6, <2>2, <2>3 DEF OthersKept, SampleToldTo
  <2>4. CASE u = t
    <3>1. SampleSize(u)
      <4>1. SampleSize(u) \/ PublishSize(u) \/ ReadSize(u)
        BY <1>4, <2>4, AskContinued
      <4>2. ~PublishSize(u)
        BY <1>1, <1>2 DEF PublishSize, LocalTypes
      <4>3. ~ReadSize(u)
        <5>1. ret[u] \notin Asking
          BY <1>1, <1>4 DEF ThreadsPlaced, Asking
        <5>2. QED
          BY <1>1, <1>2, <5>1 DEF ReadSize, Return, LocalTypes
      <4>4. QED
        BY <4>1, <4>2, <4>3
    <3>2. sample'[u] = ctx[on[u]].active
      BY <3>1 DEF SampleSize, DataPathInv, TypeOK
    <3>3. ctx[on[v]].active \in current[v]
      BY <1>1, <1>2, <1>6 DEF Told
    <3>4. QED
      BY <1>5, <2>2, <3>2, <3>3
  <2>5. QED
    BY <2>3, <2>4
<1>7. CASE pc[v] # "read"
  <2>1. v = t
    BY <1>1, <1>7 DEF OthersKept
  <2>2. PublishSize(v)
    <3>1. SampleSize(v) \/ PublishSize(v) \/ ReadSize(v)
      BY <1>4, <2>1, AskContinued
    <3>2. ~SampleSize(v) /\ ~ReadSize(v)
      BY <1>1, <1>7 DEF SampleSize, ReadSize, LocalTypes
    <3>3. QED
      BY <3>1, <3>2
  <2>3. u # v
    BY <1>2
  <2>4. pc[u] \in Publishing /\ pc[v] \in Publishing
    BY <1>1, <2>1, <2>2, <2>3 DEF OthersKept, PublishSize, Publishing
  <2>5. Type(on[u]) \in {"ordinary", "shared"}
    BY <1>1, <1>5 DEF DataPathInv, AllSound, Records, Type, Kinds
  <2>6. PICK lock \in {"runner", "ctx"} : HeldForSample(on[u], lock)
    BY <2>5 DEF HeldForSample
  <2>7. mutex[on[u]][lock] = u /\ mutex[on[v]][lock] = v
    BY <1>1, <1>5, <2>4, <2>6 DEF Told
  <2>8. QED
    BY <1>5, <2>3, <2>7
<1>8. QED
  BY <1>6, <1>7

LEMMA SizesToldHold ==
  ASSUME WithoutWamr
  PROVE  Spec => []SizesTold
<1>1. Init => SizesTold /\ NoWamr
  <2> SUFFICES ASSUME Init PROVE SizesTold /\ NoWamr
    OBVIOUS
  <2>1. PICK kind \in Builds : ctx = [m \in Modules |-> Initialized(kind[m])]
    BY DEF Init, MemoryInit
  <2>2. NoWamr
    BY <2>1 DEF NoWamr, WithoutWamr, Type, Initialized
  <2>3. \A t \in Threads : pc[t] \notin Asking
    BY DEF Init, MemoryInit, Asking
  <2>4. QED
    BY <2>2, <2>3 DEF SizesTold, Told, SampleToldTo, Publishing, Asking
<1>2. DataPathInv /\ DataPathInv' /\ SizesTold /\ NoWamr /\ [Next]_vars => SizesTold' /\ NoWamr'
  <2> SUFFICES ASSUME DataPathInv, DataPathInv', SizesTold, NoWamr, [Next]_vars
               PROVE  SizesTold' /\ NoWamr'
    OBVIOUS
  <2>1. KindsKept
    BY BaseStep
  <2>2. NoWamr'
    BY <2>1 DEF NoWamr, KindsKept, Type
  <2>3. CASE \E t \in Threads : StepOf(t)
    <3>1. PICK t \in Threads : StepOf(t)
      BY <2>3
    <3>2. \A u \in Threads : Told(u)'
      BY <2>1, <3>1, ToldStep
    <3>3. \A u, v \in Threads : SampleToldTo(u, v)'
      BY <2>1, <3>1, SampleStep
    <3>4. QED
      BY <2>2, <3>2, <3>3 DEF SizesTold
  <2>4. ASSUME UNCHANGED <<mutex, pc, on, sample, current>>,
               \A m \in Modules : /\ ctx'[m].active = ctx[m].active
                                  /\ ctx'[m].memory_size = ctx[m].memory_size
        PROVE  SizesTold' /\ NoWamr'
    <3>1. ASSUME NEW u \in Threads PROVE Told(u)'
      <4>1. pc[u] \in Asking => on[u] \in Modules
        BY DEF SizesTold, DataPathInv, ThreadsPlaced
      <4>2. pc[u] \in Asking =>
              \A lock : HeldForSample(on[u], lock)' <=> HeldForSample(on[u], lock)
        BY <2>1, <2>4, <4>1 DEF HeldForSample, KindsKept, Type
      <4>3. Told(u)
        BY DEF SizesTold
      <4>4. QED
        BY <2>4, <4>1, <4>2, <4>3 DEF Told, Publishing, Asking
    <3>2. \A u, v \in Threads : SampleToldTo(u, v)'
      BY <2>4 DEF SizesTold, SampleToldTo
    <3>3. QED
      BY <2>2, <3>1, <3>2 DEF SizesTold
  <2>5. CASE ReclaimStep
    <3>1. PICK k \in Modules : Reclaim(k)
      BY <2>5 DEF ReclaimStep
    <3>2. ctx \in [Modules -> Records]
      BY DEF DataPathInv, AllSound
    <3>3. \A m \in Modules : /\ ctx'[m].active = ctx[m].active
                             /\ ctx'[m].memory_size = ctx[m].memory_size
      BY <3>1, <3>2 DEF Reclaim, Records
    <3>4. QED
      BY <2>4, <3>1, <3>3 DEF Reclaim
  <2>6. CASE UNCHANGED vars
    BY <2>4, <2>6 DEF vars, memory_vars
  <2>7. QED
    BY <2>3, <2>5, <2>6, Steps
<1>3. QED
  BY <1>1, <1>2, BaseHolds, PTL DEF Spec

(* Where WAMR is not in use, what a thread is told of the size of a memory *)
(* is a size that the memory has had since the thread asked: who asks      *)
(* holds a lock from its sample to the publication, so that no stale       *)
(* sample is published over a newer one.                                   *)
THEOREM SizesCurrent ==
  ASSUME WithoutWamr
  PROVE  Spec => []SizeIsCurrent
<1>1. SizesTold => SizeIsCurrent
  BY DEF SizesTold, Told, SizeIsCurrent
<1>2. QED
  BY <1>1, SizesToldHold, PTL

-----------------------------------------------------------------------------
(* What happens to a block once it has been allocated.                     *)

LEMMA PositiveAligned ==
  ASSUME NEW n \in Nat, n > 0
  PROVE  AlignedUp(n) \in Nat /\ AlignedUp(n) >= PayloadAlignment
<1> DEFINE x == AlignedUp(n)
<1>1. /\ x \in Nat /\ x >= n /\ x % PayloadAlignment = 0
      /\ PayloadAlignment \in Nat \ {0}
  BY PayloadsAligned, AddressesTyped
<1> HIDE DEF x
<1>2. SUFFICES ASSUME x < PayloadAlignment PROVE FALSE
  BY <1>1 DEF x
<1> DEFINE k == PayloadAlignment - 1
<1>3. x % PayloadAlignment = x
  <2>1. k \in Nat /\ x <= k /\ k + 1 = PayloadAlignment
    BY <1>1, <1>2
  <2> HIDE DEF k
  <2>2. x % (k + 1) = x
    BY <1>1, <2>1, SmallRest
  <2>3. QED
    BY <2>1, <2>2
<1>4. QED
  BY <1>1, <1>3

LEMMA InsideStep == DataPathInv /\ BlocksInside /\ [Next]_vars => BlocksInside'
<1> SUFFICES ASSUME DataPathInv, BlocksInside, [Next]_vars, NEW t \in Movers,
                    At(t)' \in {"rewrite", "copy", "delivered"}
             PROVE  Type(Dst(t))' = "native" \/ Inside(allocation'[t], block'[t], Reserve)
  BY DEF BlocksInside
<1>1. /\ KindsKept /\ TypeOK /\ LocalTypes /\ MessagesInHand /\ t \in Threads
      /\ size[t] \in 0..Reserve /\ allocation[t] \in Nat /\ block[t] \in Nat /\ Reserve \in Nat
  <2>1. KindsKept
    BY BaseStep
  <2>2. TypeOK /\ MessagesInHand /\ t \in Threads
    BY DEF DataPathInv, Threads
  <2>3. LocalTypes
    BY <2>2 DEF TypeOK, LocalTypes
  <2>4. size[t] \in 0..Reserve /\ allocation[t] \in Sizes /\ block[t] \in Sizes
    BY <2>2 DEF TypeOK
  <2>5. SizeMax \in Nat /\ Reserve \in Nat
    BY AddressesTyped, SizesTyped
  <2>6. QED
    BY <2>1, <2>2, <2>3, <2>4, <2>5 DEF Sizes
<1>2. ASSUME msg'[t] = msg[t], pc[t] # "idle" PROVE Type(Dst(t))' = Type(Dst(t))
  <2>1. Dst(t) \in Modules /\ Dst(t)' = Dst(t)
    BY <1>1, <1>2, InHand DEF Dst
  <2>2. QED
    BY <1>1, <2>1 DEF KindsKept, Type
<1>3. CASE TransferStep(t)
  <2>1. CASE ValidateBlock(t)
    <3>1. UsableBlock(t) /\ pc[t] = "validate"
      BY <1>1, <2>1, ValidateEffect
    <3>2. Type(Dst(t)) = "native" \/ Inside(allocation[t], block[t], Reserve)
      BY <1>1, <3>1 DEF UsableBlock, Inside
    <3>3. msg'[t] = msg[t] /\ allocation' = allocation /\ block' = block
      BY <2>1 DEF ValidateBlock
    <3>4. QED
      BY <1>2, <3>1, <3>2, <3>3
  <2>2. CASE RewriteText(t) \/ CopyPayloads(t)
    <3>1. /\ msg' = msg /\ allocation' = allocation /\ block' = block /\ pc[t] # "idle"
          /\ At(t) \in {"rewrite", "copy"}
      BY <2>2 DEF RewriteText, CopyPayloads, At, Asking
    <3>2. QED
      BY <1>2, <3>1 DEF BlocksInside
  <2>3. CASE BeginTransfer(t)
    <3>1. PICK q \in Messages : AskThen(t, q.src, "measure")
      BY <2>3 DEF BeginTransfer
    <3>2. q.src \in Modules \cup {Host} /\ "measure" \in Labels \ Asking
      BY MessageFields DEF Labels, Asking
    <3>3. QED
      BY <1>1, <3>1, <3>2, AskedFor
  <2>4. CASE Scan(t)
    BY <1>1, <2>4, ScanEffect
  <2>5. CASE Resolve(t)
    BY <1>1, <2>5, ResolveEffect
  <2>6. CASE PlaceLocation(t)
    BY <1>1, <2>6, PlaceEffect
  <2>7. CASE PackPayload(t)
    BY <1>1, <2>7, PackEffect
  <2>8. CASE CheckSize(t)
    <3>1. AskThen(t, Dst(t), "validate") /\ Dst(t) \in Modules /\ "validate" \in Labels \ Asking
      BY <1>1, <2>8, InHand DEF CheckSize, AskAfterCall, Labels, Asking
    <3>2. QED
      BY <1>1, <3>1, AskedFor
  <2>9. CASE \/ Measure(t) \/ ReserveText(t) \/ AlignText(t)
             \/ AllocateBlock(t) \/ AllocateBadBlock(t) \/ FreeTransferred(t) \/ EndTransfer(t)
    BY <1>1, <2>9 DEF Measure, ReserveText, AlignText, AllocateBlock, AllocateBadBlock,
                      FreeTransferred, FreeBlock, EndTransfer, Refuse, Goto, At, LocalTypes,
                      Asking
  <2>10. QED
    BY <1>3, <2>1, <2>2, <2>3, <2>4, <2>5, <2>6, <2>7, <2>8, <2>9 DEF TransferStep
<1>4. CASE /\ msg'[t] = msg[t] /\ allocation'[t] = allocation[t] /\ block'[t] = block[t]
           /\ At(t)' = At(t)
  <2>1. pc[t] # "idle"
    BY <1>4 DEF At, Asking
  <2>2. QED
    BY <1>2, <1>4, <2>1 DEF BlocksInside
<1>5. QED
  BY <1>3, <1>4, TransfersKept DEF Shrinking

LEMMA InsideHolds == Spec => []BlocksInside
<1>1. Init => BlocksInside
  BY DEF Init, MemoryInit, BlocksInside, At, Asking, Threads
<1>2. QED
  BY <1>1, InsideStep, BaseHolds, PTL DEF Spec

(* While a transfer reads the sender's memory and writes the receiver's,   *)
(* the bytes it touches are backed, however much either memory has shrunk  *)
(* or been reclaimed since they were checked, if senders keep what they    *)
(* send and an address the allocator makes up is not within the memory.    *)
THEOREM AccessesStayBacked ==
  ASSUME SourcesStatic, BadBlocksOutside
  PROVE  Spec => []AccessesBacked
<1>1. ASSUME DataPathInv, BlocksHeld, BlocksInside, LaidOut, Understood,
             NEW t \in Movers, pc[t] \in {"rewrite", "copy"}
      PROVE  /\ Type(Dst(t)) # "native" =>
                  Backed(Dst(t), Base[Dst(t)] + block[t], allocation[t])
             /\ \A i \in Payloads(t) : location[t][i].inside =>
                  Backed(Src(t), location[t][i].src_ptr, location[t][i].copy_size)
  <2>1. /\ TypeOK /\ MessagesInHand /\ AllSound /\ At(t) = pc[t] /\ At(t) \in Holding
        /\ block[t] \in Nat /\ allocation[t] \in Nat /\ capacity[t] \in Nat
        /\ Reserve \in Nat /\ PayloadAlignment \in Nat /\ StaticData \in Nat
    <3>1. TypeOK /\ MessagesInHand /\ AllSound
      BY <1>1 DEF DataPathInv
    <3>2. block[t] \in Sizes /\ allocation[t] \in Sizes /\ capacity[t] \in Sizes
      BY <3>1 DEF TypeOK
    <3>3. /\ SizeMax \in Nat /\ Reserve \in Nat /\ PayloadAlignment \in Nat
          /\ StaticData \in 1..InitialSize /\ InitialSize \in 1..Reserve
      BY AddressesTyped, SizesTyped
    <3>4. At(t) = pc[t] /\ At(t) \in Holding
      BY <1>1 DEF At, Asking, Holding
    <3>5. QED
      BY <3>1, <3>2, <3>3, <3>4 DEF Sizes
  <2>2. /\ msg[t] \in Messages /\ Src(t) \in Modules \cup {Host} /\ Dst(t) \in Modules
        /\ location[t] \in Seq(Resolutions) /\ DOMAIN location[t] = 1..Scanned(t)
        /\ Scanned(t) = Len(msg[t].locations) /\ msg[t].locations \in Seq(Location)
    BY <1>1, <2>1, InHand DEF MessagesInHand
  <2>3. ASSUME NEW m \in Modules
        PROVE  /\ ctx[m].active \in Nat /\ ctx[m].backed \in Nat /\ Base[m] \in Nat
               /\ ctx[m].active <= ctx[m].backed /\ StaticBlock \in live[m]
               /\ \A b \in live[m] : /\ b.at \in Nat /\ b.length \in Nat
                                     /\ b.at + b.length <= ctx[m].active
    BY <2>1, RecordFields, BlockFields, AddressesTyped DEF AllSound, Sound
  <2>4. ASSUME Type(Dst(t)) # "native"
        PROVE  Backed(Dst(t), Base[Dst(t)] + block[t], allocation[t])
    <3> DEFINE n == Dst(t)
    <3>1. block[t] \notin BadBlocks
      <4>1. allocation[t] >= AlignedUp(capacity[t]) /\ capacity[t] > 0
        BY <1>1, <2>1 DEF LaidOut, MessagesInHand
      <4>2. AlignedUp(capacity[t]) \in Nat /\ AlignedUp(capacity[t]) >= PayloadAlignment
        BY <2>1, <4>1, PositiveAligned
      <4>3. Inside(allocation[t], block[t], Reserve)
        BY <1>1, <2>1, <2>4 DEF BlocksInside
      <4>4. block[t] + PayloadAlignment <= Reserve
        BY <2>1, <4>1, <4>2, <4>3 DEF Inside
      <4>5. QED
        BY <2>1, <4>4 DEF BadBlocksOutside
    <3>2. PICK b \in live[n] : b.owner = t
      BY <1>1, <2>1, <3>1 DEF BlocksHeld
    <3>3. b.length = allocation[t] /\ block[t] = b.at
      BY <1>1, <2>2, <2>4, <3>2 DEF BlocksHeld, BlockAddress
    <3>4. /\ b.at \in Nat /\ b.length \in Nat /\ b.at + b.length <= ctx[n].active
          /\ ctx[n].active \in Nat /\ ctx[n].backed \in Nat /\ Base[n] \in Nat
          /\ ctx[n].active <= ctx[n].backed
      BY <2>2, <2>3, <3>2
    <3> HIDE DEF n
    <3>5. Backed(n, Base[n] + block[t], allocation[t])
      BY <3>3, <3>4 DEF Backed
    <3>6. QED
      BY <3>5 DEF n
  <2>5. ASSUME NEW i \in Payloads(t), location[t][i].inside
        PROVE  Backed(Src(t), location[t][i].src_ptr, location[t][i].copy_size)
    <3> DEFINE l == location[t][i]
               d == msg[t].locations[i]
               m == Src(t)
    <3>1. i \in DOMAIN location[t] /\ l.copy_payload
      BY DEF Payloads
    <3>2. Known(m, KindOf(m), Dst(t), Type(Dst(t)), At(t), i, Len(location[t]), block[t], l, d)
      BY <1>1, <2>1, <3>1 DEF Understood, UnderstoodBy, AllKnown
    <3>3. /\ l.copy_size = d.copy_size /\ Inside(d.copy_size, d.src_addr, Reserve)
          /\ l.src_ptr = Base[m] + d.src_addr /\ KindOf(m) # "native"
      BY <2>5, <3>1, <3>2 DEF Known
    <3>4. m \in Modules
      BY <2>2, <3>3 DEF KindOf
    <3>5. i \in DOMAIN msg[t].locations /\ d \in Location
      BY <2>2, <3>1, ListFields
    <3>6. Inside(d.copy_size, d.src_addr, StaticData)
      <4>1. msg[t].src # Host
        BY <3>4, TransferAssumption DEF Src
      <4> HIDE DEF m, l
      <4>2. QED
        BY <2>2, <3>3, <3>5, <4>1 DEF SourcesStatic
    <3>7. d.copy_size \in Nat /\ d.src_addr \in Nat
      <4> HIDE DEF d
      <4>1. QED
        BY <3>5, LocationFields, AddressesTyped DEF Sizes
    <3>8. d.src_addr + d.copy_size <= StaticData
      BY <2>1, <3>6, <3>7 DEF Inside
    <3>9. StaticData <= ctx[m].active /\ ctx[m].active <= ctx[m].backed
          /\ ctx[m].active \in Nat /\ ctx[m].backed \in Nat /\ Base[m] \in Nat
      <4>1. 0 + StaticData <= ctx[m].active
        BY <2>3, <3>4 DEF StaticBlock
      <4>2. QED
        BY <2>1, <2>3, <3>4, <4>1
    <3> HIDE DEF l, d, m
    <3>10. Backed(m, l.src_ptr, l.copy_size)
      BY <2>1, <3>3, <3>7, <3>8, <3>9 DEF Backed
    <3>11. QED
      BY <3>10 DEF l, m
  <2>6. QED
    BY <2>4, <2>5
<1>2. DataPathInv /\ BlocksHeld /\ BlocksInside /\ LaidOut /\ Understood => AccessesBacked
  BY <1>1 DEF AccessesBacked
<1>3. QED
  BY <1>2, BaseHolds, HeldHolds, InsideHolds, LaidOutHolds, UnderstoodHolds, PTL

-----------------------------------------------------------------------------
(* Blocks that are refused.                                                *)

(* The sizes that t may be told of, and the one it has been told of, reach *)
(* beyond the end of block b of the module m.                              *)
BlockKnown(t, m, b) ==
  Type(m) # "native" =>
    /\ pc[t] \in Asking => \A s \in current[t] : s >= b.at + b.length
    /\ pc[t] = "validate" => size[t] >= b.at + b.length

LEMMA BlocksKnownByEach ==
  BlocksKnown <=> \A t \in Movers, m \in Modules : \A b \in Owned(t, m) : BlockKnown(t, m, b)
  BY DEF BlocksKnown, BlockKnown, Owned

LEMMA KnownStep ==
  ASSUME NEW t \in Threads, StepOf(t), DataPathInv, DataPathInv', KindsKept, SizesTold,
         BlocksHeld, BlocksHeld', BlocksKnown,
         NEW u \in Movers, NEW m \in Modules, NEW b \in live'[m], b.owner = u
  PROVE  BlockKnown(u, m, b)'
<1> SUFFICES ASSUME Type(m)' # "native"
             PROVE  /\ pc'[u] \in Asking => \A s \in current'[u] : s >= b.at + b.length
                    /\ pc'[u] = "validate" => size'[u] >= b.at + b.length
  BY DEF BlockKnown
<1>1. /\ TypeOK /\ LocalTypes /\ ThreadsPlaced /\ MessagesInHand /\ OthersKept(t)
      /\ u \in Threads /\ Told(u) /\ TypeOK' /\ ThreadsPlaced'
  BY OthersStep DEF DataPathInv, TypeOK, LocalTypes, SizesTold, Threads
<1>2. Type(m) = Type(m)'
  BY DEF KindsKept, Type
<1>3. /\ At(u)' \in Holding /\ m = Dst(u)'
  BY DEF BlocksHeld
<1>4. b.at + b.length <= ctx'[m].active
  BY DEF DataPathInv, AllSound, Sound
<1>5. ASSUME pc'[u] \in Asking PROVE on'[u] = m
  <2>1. ret'[u] \in Holding
    BY <1>3, <1>5 DEF At
  <2>2. ret'[u] \in {"measure", "resolve"} \/ on'[u] = Dst(u)'
    BY <1>1, <1>5 DEF ThreadsPlaced
  <2>3. QED
    BY <1>3, <2>1, <2>2 DEF Holding
<1>6. ASSUME pc'[u] \in Asking \cup {"validate"}
      PROVE  b \in live[m]
  <2>1. Owned(u, m)' = Owned(u, m)
    <3>1. CASE u # t \/ MemoryStepOf(t)
      BY <3>1, OwnedKept
    <3>2. CASE u = t /\ TransferStep(t)
      <4>1. ~AllocateBlock(t) /\ ~AllocateBadBlock(t) /\ ~FreeTransferred(t)
        BY <1>1, <1>6, <3>2 DEF AllocateBlock, AllocateBadBlock, FreeTransferred, FreeBlock,
                                Refuse, Goto, LocalTypes, Asking
      <4>2. UNCHANGED live
        BY <3>2, <4>1, TransferHolds
      <4>3. QED
        BY <4>2 DEF Owned
    <3>3. QED
      BY <3>1, <3>2 DEF StepOf
  <2>2. b \in Owned(u, m)'
    BY DEF Owned
  <2>3. QED
    BY <2>1, <2>2 DEF Owned
<1>7. ASSUME b \in live[m]
      PROVE  /\ pc[u] \in Asking => \A s \in current[u] : s >= b.at + b.length
             /\ pc[u] = "validate" => size[u] >= b.at + b.length
             /\ At(u) \in Holding /\ m = Dst(u)
  <2>1. At(u) \in Holding /\ m = Dst(u)
    BY <1>7 DEF BlocksHeld
  <2>2. QED
    BY <1>2, <1>7, <2>1 DEF BlocksKnown
<1>8. ASSUME pc'[u] \in Asking
      PROVE  \A s \in current'[u] : s >= b.at + b.length
  <2>1. b \in live[m] /\ on'[u] = m
    BY <1>5, <1>6, <1>8
  <2>2. CASE pc[u] \notin Asking
    <3>1. u = t
      BY <1>1, <1>8, <2>2 DEF OthersKept
    <3>2. ctx' = ctx /\ current'[u] = {ctx[m].active}
      BY <1>8, <2>1, <2>2, <3>1, AskBegun
    <3>3. QED
      BY <1>4, <3>2
  <2>3. CASE pc[u] \in Asking
    <3>1. u = t => ~ReadSize(t)
      <4>1. ret[u] \notin Asking
        BY <1>1, <2>3 DEF ThreadsPlaced, Asking
      <4>2. QED
        BY <1>1, <1>8, <4>1 DEF ReadSize, Return, LocalTypes
    <3>2. on[u] = m
      <4>1. ret[u] \in Holding /\ m = Dst(u)
        BY <1>7, <2>1, <2>3 DEF At
      <4>2. ret[u] \in {"measure", "resolve"} \/ on[u] = Dst(u)
        BY <1>1, <2>3 DEF ThreadsPlaced
      <4>3. QED
        BY <4>1, <4>2 DEF Holding
    <3>3. current'[u] \subseteq current[u] \cup {ctx'[on[u]].active}
      BY <1>1, <2>3, <3>1, AskersTold DEF Told
    <3>4. QED
      BY <1>4, <1>7, <2>1, <2>3, <3>2, <3>3
  <2>4. QED
    BY <2>2, <2>3
<1>9. ASSUME pc'[u] = "validate"
      PROVE  size'[u] >= b.at + b.length
  <2>1. b \in live[m]
    BY <1>6, <1>9
  <2>2. CASE u # t
    <3>1. pc[u] = "validate" /\ size'[u] = size[u]
      BY <1>1, <1>9, <2>2 DEF OthersKept
    <3>2. QED
      BY <1>7, <2>1, <3>1
  <2>3. CASE u = t /\ pc[u] \in Asking
    <3>1. ReadSize(u)
      <4>1. SampleSize(u) \/ PublishSize(u) \/ ReadSize(u)
        BY <2>3, AskContinued
      <4>2. ~SampleSize(u) /\ ~PublishSize(u)
        BY <1>1, <1>9 DEF SampleSize, PublishSize, LocalTypes
      <4>3. QED
        BY <4>1, <4>2
    <3>2. on[u] = m
      <4>1. ret[u] \in Holding /\ m = Dst(u)
        BY <1>7, <2>1, <2>3 DEF At
      <4>2. ret[u] \in {"measure", "resolve"} \/ on[u] = Dst(u)
        BY <1>1, <2>3 DEF ThreadsPlaced
      <4>3. QED
        BY <4>1, <4>2 DEF Holding
    <3>3. pc[u] = "read" /\ u \notin Readers
      BY <3>1, MemoryAssumption DEF ReadSize
    <3>4. ctx[m].active \in current[u] /\ ctx[m].memory_size \in current[u]
      BY <1>1, <2>3, <3>2, <3>3 DEF Told
    <3>5. size'[u] \in {ctx[m].active, ctx[m].memory_size}
      BY <1>1, <3>1, <3>2, <3>3 DEF ReadSize, TypeOK
    <3>6. QED
      BY <1>7, <2>1, <2>3, <3>4, <3>5
  <2>4. CASE u = t /\ pc[u] \notin Asking
    <3>1. At(u)' = "validate" /\ At(u) \in Holding /\ At(u) = pc[u]
      BY <1>7, <1>9, <2>1, <2>4 DEF At, Asking
    <3>2. ~MemoryStepOf(t)
      BY <1>7, <2>1, <2>4, <3>1, MemoryAssumption
      DEF MemoryStepOf, GuestAllocates, GuestFrees, KeepTail, ShrinkTranslated, ShrinkWasmtime,
          MarkReclaimable, RefreshShrunk, SampleSize, PublishSize, ReadSize, BeginRead, Holding,
          Asking
    <3>3. TransferStep(t)
      BY <2>4, <3>2 DEF StepOf
    <3>4. CheckSize(t)
      BY <1>1, <1>9, <2>4, <3>1, <3>3
      DEF TransferStep, BeginTransfer, Measure, Scan, Resolve, PlaceLocation, ReserveText,
          AlignText, PackPayload, AllocateBlock, AllocateBadBlock, ValidateBlock, RewriteText,
          CopyPayloads, FreeTransferred, FreeBlock, EndTransfer, Refuse, GiveBack, Goto,
          LocalTypes, Holding
    <3>5. AskThen(t, m, "validate") /\ m \in Modules /\ "validate" \in Labels \ Asking
      BY <1>7, <2>1, <2>4, <3>4 DEF CheckSize, AskAfterCall, Labels, Asking
    <3>6. IsNative(m)
      BY <1>1, <1>9, <2>4, <3>5, AskedFor
    <3>7. m # Host
      BY <3>5, TransferAssumption
    <3>8. QED
      BY <1>2, <3>6, <3>7 DEF IsNative
  <2>5. QED
    BY <2>2, <2>3, <2>4
<1>10. QED
  BY <1>8, <1>9

LEMMA BlocksKnownHold ==
  ASSUME WithoutWamr
  PROVE  Spec => []BlocksKnown
<1>1. Init => BlocksKnown
  <2> SUFFICES ASSUME Init, NEW t \in Movers, NEW m \in Modules, NEW b \in live[m], b.owner = t
               PROVE  FALSE
    BY DEF BlocksKnown
  <2>1. b.owner = NoThread /\ t \in Threads
    BY DEF Init, MemoryInit, StaticBlock, Threads
  <2>2. QED
    BY <2>1, MemoryAssumption
<1>2. /\ DataPathInv /\ DataPathInv' /\ SizesTold /\ BlocksHeld /\ BlocksHeld' /\ BlocksKnown
      /\ [Next]_vars
      => BlocksKnown'
  <2> SUFFICES ASSUME DataPathInv, DataPathInv', SizesTold, BlocksHeld, BlocksHeld',
                      BlocksKnown, [Next]_vars
               PROVE  BlocksKnown'
    OBVIOUS
  <2>1. KindsKept
    BY BaseStep
  <2>2. CASE \E t \in Threads : StepOf(t)
    <3>1. PICK t \in Threads : StepOf(t)
      BY <2>2
    <3>2. \A u \in Movers, m \in Modules : \A b \in live'[m] :
            b.owner = u => BlockKnown(u, m, b)'
      BY <2>1, <3>1, KnownStep
    <3>3. QED
      BY <3>2 DEF BlocksKnown, BlockKnown
  <2>3. CASE ReclaimStep \/ UNCHANGED vars
    <3>1. UNCHANGED <<live, pc, current, size>>
      BY <2>3 DEF ReclaimStep, Reclaim, vars, memory_vars
    <3>2. \A m \in Modules : Type(m)' = Type(m)
      BY <2>1 DEF KindsKept, Type
    <3>3. QED
      BY <3>1, <3>2 DEF BlocksKnown
  <2>4. QED
    BY <2>2, <2>3, Steps
<1>3. QED
  BY <1>1, <1>2, BaseHolds, SizesToldHold, HeldHolds, PTL DEF Spec

(* A block that its transfer owns passes for usable.                       *)
LEMMA OwnedUsable ==
  ASSUME NEW t \in Movers, pc[t] = "validate", DataPathInv, LaidOut, BlocksHeld, BlocksKnown,
         block[t] \notin BadBlocks
  PROVE  UsableBlock(t) /\ Representable(t)
<1> DEFINE m == Dst(t)
<1>1. TypeOK /\ MessagesInHand /\ AllSound /\ At(t) = "validate" /\ "validate" \in Holding
  BY DEF DataPathInv, At, Asking, Holding
<1>2. m \in Modules /\ location[t] \in Seq(Resolutions)
  BY <1>1, InHand
<1>3. PICK b \in live[m] : b.owner = t
  BY <1>1 DEF BlocksHeld
<1>4. b.length = allocation[t] /\ block[t] = BlockAddress(m, b.at)
  BY <1>1, <1>2, <1>3 DEF BlocksHeld
<1>5. /\ b.at \in Nat /\ b.length \in Nat /\ b.at + b.length <= Reserve /\ Reserve \in Nat
  <2>1. /\ b \in Blocks /\ ctx[m].active \in Nat /\ ctx[m].active <= Reserve
        /\ b.at + b.length <= ctx[m].active
    BY <1>1, <1>2, <1>3, RecordFields DEF AllSound, Sound
  <2>2. b.at \in Nat /\ b.length \in Nat /\ b.at + b.length \in Nat /\ Reserve \in Nat
    BY <2>1, BlockFields, SizesTyped
  <2>3. QED
    BY <2>1, <2>2
<1>6. UsableBlock(t)
  <2>1. CASE Type(m) = "native"
    BY <2>1 DEF UsableBlock
  <2>2. CASE Type(m) # "native"
    <3>1. size[t] >= b.at + b.length /\ block[t] = b.at
      BY <1>2, <1>3, <1>4, <2>2 DEF BlocksKnown, BlockAddress
    <3>2. size[t] \in Nat
      BY <1>1, <1>5 DEF TypeOK, Threads
    <3>3. QED
      BY <1>4, <1>5, <3>1, <3>2 DEF UsableBlock, Inside
  <2>3. QED
    BY <2>1, <2>2
<1>7. block[t] \in Nat /\ block[t] + allocation[t] <= SizeMax /\ SizeMax \in Nat
  <2>1. /\ Base[m] \in Nat /\ Base[m] + Reserve < HostAddressBit /\ HostAddressBit \in Nat
        /\ SizeMax = 2 * HostAddressBit - 1 /\ Reserve < HostAddressBit
    BY <1>2, AddressesTyped
  <2>2. block[t] = b.at \/ block[t] = Base[m] + b.at
    BY <1>4 DEF BlockAddress
  <2> HIDE DEF m
  <2>3. QED
    BY <1>4, <1>5, <2>1, <2>2
<1>8. ASSUME NEW i \in DOMAIN location[t], location[t][i].copy_payload
      PROVE  block[t] <= SizeMax - location[t][i].payload_offset
  <2> DEFINE l == location[t][i]
  <2>1. l.payload_offset + l.copy_size <= allocation[t]
    BY <1>1, <1>8 DEF LaidOut, Payloads
  <2>2. l \in Resolutions
    BY <1>2, ListFields
  <2> HIDE DEF l
  <2>3. l.payload_offset \in Nat /\ l.copy_size \in Nat
    BY <2>2, ResolutionFields
  <2>4. block[t] <= SizeMax - l.payload_offset
    BY <1>4, <1>5, <1>7, <2>1, <2>3
  <2>5. QED
    BY <2>4 DEF l
<1>9. QED
  BY <1>6, <1>8 DEF Representable

LEMMA RefusedTransferred ==
  ASSUME NEW t \in Movers, TransferStep(t), DataPathInv, LaidOut, BlocksHeld, BlocksKnown,
         BlockRefused, outcome'[t] = "block"
  PROVE  /\ pc'[t] \in {"free", "refused"} \cup Shrinking
         /\ block'[t] \in BadBlocks \cup {0}
<1>1. /\ TypeOK /\ MessagesInHand /\ LocalTypes /\ t \in Threads
      /\ outcome \in [Movers -> Reasons] /\ block \in [Movers -> Sizes]
  BY DEF DataPathInv, TypeOK, LocalTypes, Threads
<1>2. outcome[t] = "block" =>
        /\ pc[t] \in {"free", "refused"} \cup Shrinking
        /\ block[t] \in BadBlocks \cup {0}
  BY DEF BlockRefused
<1>3. CASE ValidateBlock(t)
  <2>1. pc[t] = "validate" /\ outcome[t] # "block" /\ block' = block
    BY <1>2, <1>3 DEF ValidateBlock, Shrinking
  <2>2. pc'[t] = "free" /\ ~(UsableBlock(t) /\ Representable(t))
    BY <1>1, <1>3, <2>1 DEF ValidateBlock, GiveBack, Goto, LocalTypes
  <2>3. block[t] \in BadBlocks
    BY <2>1, <2>2, OwnedUsable
  <2>4. QED
    BY <2>1, <2>2, <2>3
<1>4. CASE FreeTransferred(t)
  BY <1>1, <1>4 DEF FreeTransferred, FreeBlock, Goto, LocalTypes, Shrinking
<1>5. CASE EndTransfer(t)
  BY <1>1, <1>5 DEF EndTransfer
<1>6. CASE \/ BeginTransfer(t) \/ Measure(t) \/ Scan(t) \/ Resolve(t) \/ PlaceLocation(t)
           \/ ReserveText(t) \/ AlignText(t) \/ PackPayload(t) \/ AllocateBlock(t)
           \/ AllocateBadBlock(t) \/ CheckSize(t) \/ RewriteText(t) \/ CopyPayloads(t)
  <2>1. outcome[t] # "block"
    BY <1>2, <1>6
    DEF BeginTransfer, Measure, Scan, Resolve, PlaceLocation, ReserveText, AlignText,
        PackPayload, AllocateBlock, AllocateBadBlock, CheckSize, RewriteText, CopyPayloads,
        Shrinking
  <2>2. outcome'[t] # "block"
    BY <1>1, <1>6, <2>1
    DEF BeginTransfer, Measure, Scan, Resolve, PlaceLocation, ReserveText, AlignText,
        PackPayload, AllocateBlock, AllocateBadBlock, CheckSize, RewriteText, CopyPayloads,
        Refuse, GiveBack, transfer_vars
  <2>3. QED
    BY <2>2
<1>7. QED
  BY <1>3, <1>4, <1>5, <1>6 DEF TransferStep

(* Where WAMR is not in use, no transfer is refused for its block unless   *)
(* the module's allocator has made the address up: a block that has been   *)
(* allocated lies within the size its transfer is told, whatever grows and *)
(* shrinks the memory in between, and its payloads are representable.      *)
THEOREM GoodBlocksAccepted ==
  ASSUME WithoutWamr
  PROVE  Spec => []BlocksRefusedForCause
<1>1. Init => BlockRefused
  BY DEF Init, TransferInit, BlockRefused
<1>2. DataPathInv /\ LaidOut /\ BlocksHeld /\ BlocksKnown /\ BlockRefused /\ [Next]_vars
      => BlockRefused'
  <2> SUFFICES ASSUME DataPathInv, LaidOut, BlocksHeld, BlocksKnown, BlockRefused, [Next]_vars,
                      NEW t \in Movers, outcome'[t] = "block"
               PROVE  /\ pc'[t] \in {"free", "refused"} \cup Shrinking
                      /\ block'[t] \in BadBlocks \cup {0}
    BY DEF BlockRefused
  <2>1. CASE TransferStep(t)
    BY <2>1, RefusedTransferred
  <2>2. CASE /\ outcome'[t] = outcome[t] /\ block'[t] = block[t]
             /\ \/ At(t)' = At(t)
                \/ At(t) \in Shrinking /\ At(t)' \in Shrinking \cup {"refused"}
    <3>1. pc[t] \in {"free", "refused"} \cup Shrinking /\ block[t] \in BadBlocks \cup {0}
      BY <2>2 DEF BlockRefused
    <3>2. At(t)' \in {"free", "refused"} \cup Shrinking
      BY <2>2, <3>1 DEF At, Asking, Shrinking
    <3>3. pc'[t] \in Asking => At(t)' \in {"measure", "resolve", "place", "validate"}
      <4>1. ThreadsPlaced' /\ t \in Threads
        BY BaseStep DEF DataPathInv, Threads
      <4>2. QED
        BY <4>1 DEF ThreadsPlaced, At
    <3>4. pc'[t] = At(t)'
      BY <3>2, <3>3 DEF At, Shrinking
    <3>5. QED
      BY <2>2, <3>1, <3>2, <3>4
  <2>3. QED
    BY <2>1, <2>2, TransfersKept
<1>3. BlockRefused => BlocksRefusedForCause
  BY DEF BlockRefused, BlocksRefusedForCause
<1>4. QED
  BY <1>1, <1>2, <1>3, BaseHolds, LaidOutHolds, HeldHolds, BlocksKnownHold, PTL DEF Spec


-----------------------------------------------------------------------------

(* Sizes that change step by step.                                         *)
Changing(first, c, n, f) == [k \in 0..n |-> IF k = 0 THEN first ELSE f[k - 1] + c[k]]

LEMMA ChangesExist ==
  ASSUME NEW first, NEW c, NEW n \in Nat
  PROVE  \E f : f = Changing(first, c, n, f)
<1> USE DEF Changing
<1> DEFINE Good(j, f) == f = Changing(first, c, j, f)
           Bad == {j \in 0..n : ~ \E f : Good(j, f)}
<1>1. SUFFICES ASSUME Bad # {} PROVE FALSE
  OBVIOUS
<1>2. PICK j \in Bad : \A i \in Bad : i >= j
  <2>1. Bad \subseteq Nat
    OBVIOUS
  <2> HIDE DEF Bad
  <2>2. QED
    BY <1>1, <2>1, LeastElement
<1>3. j \in 0..n /\ ~ \E f : Good(j, f)
  OBVIOUS
<1>4. CASE j = 0
  <2>1. Good(0, [k \in 0..0 |-> first])
    OBVIOUS
  <2>2. QED
    BY <1>3, <1>4, <2>1
<1>5. CASE j # 0
  <2>1. j - 1 \in 0..n /\ ~(j - 1 >= j)
    BY <1>3, <1>5
  <2>2. PICK g : Good(j - 1, g)
    BY <1>2, <2>1
  <2> DEFINE h == [k \in 0..j |-> IF k = j THEN g[j - 1] + c[j] ELSE g[k]]
  <2>3. ASSUME NEW k \in 0..j PROVE h[k] = IF k = 0 THEN first ELSE h[k - 1] + c[k]
    <3>1. k # j => k \in 0..(j - 1)
      BY <1>3, <1>5
    <3>2. k # 0 => k - 1 \in 0..j /\ k - 1 # j
      BY <1>3
    <3>3. \A i \in 0..(j - 1) : g[i] = IF i = 0 THEN first ELSE g[i - 1] + c[i]
      BY <2>2
    <3>4. QED
      BY <1>5, <3>1, <3>2, <3>3
  <2>4. Good(j, h)
    BY <2>3
  <2>5. QED
    BY <1>3, <2>4
<1>6. QED
  BY <1>4, <1>5

LEMMA ChangedSteps ==
  ASSUME NEW first \in Int, NEW c, NEW n \in Nat, \A k \in 1..n : c[k] \in Int
  PROVE  LET r == Changed(first, c, n)
         IN  /\ r[0] = first /\ \A k \in 1..n : r[k] = r[k - 1] + c[k]
             /\ \A k \in 0..n : r[k] \in Int
<1> DEFINE r == Changed(first, c, n)
<1>1. r = [k \in 0..n |-> IF k = 0 THEN first ELSE r[k - 1] + c[k]]
  <2>1. \E f : f = Changing(first, c, n, f)
    BY ChangesExist
  <2>2. r = CHOOSE f : f = Changing(first, c, n, f)
    BY DEF Changed, Changing
  <2> HIDE DEF r
  <2>3. r = Changing(first, c, n, r)
    BY <2>1, <2>2, Zenon
  <2>4. QED
    BY <2>3 DEF Changing
<1> HIDE DEF r
<1>2. r[0] = first /\ \A k \in 1..n : r[k] = r[k - 1] + c[k]
  BY <1>1
<1>3. ASSUME NEW i \in 0..n, r[i] \notin Int PROVE FALSE
  <2> DEFINE Bad == {k \in 0..n : r[k] \notin Int}
  <2>1. Bad \subseteq Nat /\ Bad # {}
    BY <1>3
  <2>2. PICK k \in Bad : \A j \in Bad : j >= k
    BY <2>1, LeastElement
  <2>3. k \in 0..n /\ r[k] \notin Int /\ k # 0
    BY <1>2, <2>2
  <2>4. k - 1 \in 0..n /\ k \in 1..n /\ ~(k - 1 >= k)
    BY <2>3
  <2>5. r[k - 1] \in Int
    BY <2>2, <2>4
  <2>6. QED
    BY <1>2, <2>3, <2>4, <2>5
<1>4. QED
  BY <1>2, <1>3 DEF r

LEMMA ChangedMonotone ==
  ASSUME NEW first \in Int, NEW c, NEW d, NEW n \in Nat,
         \A k \in 1..n : c[k] \in Int /\ d[k] \in Int /\ c[k] <= d[k]
  PROVE  Changed(first, c, n)[n] <= Changed(first, d, n)[n]
<1> DEFINE r == Changed(first, c, n)
           s == Changed(first, d, n)
           Bad == {k \in 0..n : ~(r[k] <= s[k])}
<1>1. /\ r[0] = first /\ \A k \in 1..n : r[k] = r[k - 1] + c[k]
      /\ \A k \in 0..n : r[k] \in Int
  BY ChangedSteps
<1>2. /\ s[0] = first /\ \A k \in 1..n : s[k] = s[k - 1] + d[k]
      /\ \A k \in 0..n : s[k] \in Int
  BY ChangedSteps
<1> HIDE DEF r, s
<1>3. ASSUME Bad # {} PROVE FALSE
  <2>1. Bad \subseteq Nat
    OBVIOUS
  <2>2. PICK k \in Bad : \A j \in Bad : j >= k
    BY <1>3, <2>1, LeastElement
  <2>3. k \in 0..n /\ ~(r[k] <= s[k]) /\ k # 0
    BY <1>1, <1>2, <2>2
  <2>4. k - 1 \in 0..n /\ k \in 1..n /\ ~(k - 1 >= k)
    BY <2>3
  <2>5. r[k - 1] <= s[k - 1]
    BY <2>2, <2>4
  <2>6. QED
    BY <1>1, <1>2, <2>3, <2>4, <2>5
<1>4. n \in 0..n
  OBVIOUS
<1>5. r[n] <= s[n]
  BY <1>3, <1>4
<1>6. QED
  BY <1>5 DEF r, s

(* What is written for an address is not longer than the room for one.     *)
LEMMA AddressFits ==
  ASSUME NEW addr \in Sizes
  PROVE  AddressLen(addr) \in Nat /\ AddressLen(addr) <= MaxAddressLen
<1> DEFINE n == 3 * SizeBytes
<1>1. n \in Nat /\ n > 0 /\ MaxAddressLen = 2 + n
  BY TransferAssumption DEF MaxAddressLen
<1>2. addr \in Nat /\ addr <= SizeMax /\ SizeMax \in Nat
  BY AddressesTyped DEF Sizes
<1>3. ASSUME NEW v \in Nat, v <= SizeMax, NEW radix \in {10, 16}
      PROVE  Digits(v, radix) \in 1..n
  <2> DEFINE K == {k \in 1..n : v < radix ^ k}
  <2>1. v < radix ^ n
    <3>1. SizeMax < radix ^ n
      BY DigitsAssumption
    <3>2. radix ^ n \in Int
      BY <1>1
    <3> DEFINE p == radix ^ n
    <3> HIDE DEF p
    <3>3. QED
      <4>1. SizeMax < p /\ p \in Int
        BY <3>1, <3>2 DEF p
      <4>2. v < p
        BY <1>2, <1>3, <4>1
      <4>3. QED
        BY <4>2 DEF p
  <2>2. n \in K /\ K \subseteq Nat
    BY <1>1, <2>1
  <2>3. Min(K) \in K
    <3> HIDE DEF K
    <3>1. QED
      BY <2>2, LeastChosen
  <2>4. QED
    BY <2>3 DEF Digits
<1> HIDE DEF n
<1>4. CASE addr = 0
  <2>1. HostAddressBit > 0 /\ HostAddressBit \in Nat
    BY <1>2, AddressesTyped
  <2>2. ~HasBit(addr)
    BY <1>4, <2>1 DEF HasBit
  <2>3. AddressLen(addr) = 1
    BY <1>4, <2>2 DEF AddressLen
  <2>4. QED
    BY <1>1, <2>3
<1>5. CASE addr # 0 /\ ~HasBit(addr)
  <2>1. Digits(addr, 16) \in 1..n
    BY <1>2, <1>3
  <2>2. AddressLen(addr) = 2 + Digits(addr, 16)
    BY <1>5 DEF AddressLen
  <2>3. QED
    BY <1>1, <2>1, <2>2
<1>6. CASE HasBit(addr)
  <2>1. HostAddressBit > 0 /\ HostAddressBit \in Nat
    BY <1>2, AddressesTyped
  <2>2. addr > 0
    BY <1>2, <1>6, <2>1 DEF HasBit
  <2>3. SizeMax + 1 - addr \in Nat /\ SizeMax + 1 - addr <= SizeMax
    BY <1>2, <2>2
  <2>4. Digits(SizeMax + 1 - addr, 10) \in 1..n
    BY <1>3, <2>3
  <2>5. AddressLen(addr) = 1 + Digits(SizeMax + 1 - addr, 10)
    BY <1>6, <2>2 DEF AddressLen
  <2>6. QED
    BY <1>1, <2>4, <2>5
<1>7. QED
  BY <1>4, <1>5, <1>6 DEF HasBit


(* The room that has been reserved for a message's text, step by step.     *)
Added(m) == [i \in DOMAIN m.locations |-> IF m.locations[i].form = "numeric"
                                          THEN Reserved(m.locations[i].text) ELSE 0]

LEMMA RoomSteps ==
  ASSUME NEW m \in Messages
  PROVE  /\ Room(m)[0] = m.len + 1
         /\ \A k \in 1..Len(m.locations) :
              Room(m)[k] = Room(m)[k - 1] + (IF m.locations[k].form = "numeric"
                                             THEN Reserved(m.locations[k].text) ELSE 0)
<1> DEFINE n == Len(m.locations)
<1>1. /\ m.len \in Nat /\ n \in Nat /\ DOMAIN m.locations = 1..n
      /\ \A k \in 1..n : m.locations[k].text \in Nat
  <2>1. m.len \in Sizes /\ m.locations \in Seq(Location)
    BY MessageFields
  <2>2. /\ n \in Nat /\ DOMAIN m.locations = 1..n
        /\ \A k \in DOMAIN m.locations : m.locations[k] \in Location
    BY <2>1, ListFields
  <2>3. QED
    BY <2>1, <2>2, LocationFields, AddressesTyped DEF Sizes
<1>2. Room(m) = Changed(m.len + 1, Added(m), n)
  BY DEF Room, Added
<1>3. MaxAddressLen \in Nat
  BY TransferAssumption DEF MaxAddressLen
<1> HIDE DEF n
<1>4. \A k \in 1..n : /\ Added(m)[k] \in Int
                      /\ Added(m)[k] = IF m.locations[k].form = "numeric"
                                       THEN Reserved(m.locations[k].text) ELSE 0
  BY <1>1, <1>3 DEF Added, Reserved
<1>5. /\ Room(m)[0] = m.len + 1
      /\ \A k \in 1..n : Room(m)[k] = Room(m)[k - 1] + Added(m)[k]
  <2>1. m.len + 1 \in Int
    BY <1>1
  <2>2. QED
    BY <1>1, <1>2, <1>4, <2>1, ChangedSteps
<1>6. QED
  BY <1>4, <1>5 DEF n

(* The rewritten text fits into the room.                                  *)
LEMMA TextFits ==
  ASSUME NEW t \in Movers, pc[t] = "rewrite", DataPathInv, RoomMade
  PROVE  TextSize(t) <= capacity[t]
<1> DEFINE n == Scanned(t)
           m == msg[t]
<1>1. TypeOK /\ MessagesInHand /\ At(t) = "rewrite" /\ "rewrite" \in Holding
  BY DEF DataPathInv, At, Asking, Holding
<1>2. /\ m \in Messages /\ m.len \in Nat /\ n \in Nat /\ DOMAIN location[t] = 1..n
      /\ m.locations \in Seq(Location)
      /\ \A i \in 1..n : location[t][i] \in Resolutions /\ m.locations[i] \in Location
  BY <1>1, InHand, AddressesTyped DEF Sizes
<1>3. n = Len(m.locations) /\ capacity[t] = Room(m)[n]
  BY <1>1 DEF MessagesInHand, RoomMade
<1>4. Room(m) = Changed(m.len + 1, Added(m), n)
  BY <1>3 DEF Room, Added
<1>5. DOMAIN m.locations = 1..n
  BY <1>2, <1>3, ListFields
<1>6. ASSUME NEW i \in 1..n
      PROVE  Longer(t)[i] \in Int /\ Added(m)[i] \in Int /\ Longer(t)[i] <= Added(m)[i]
  <2> DEFINE a == location[t][i].dst_addr
             w == m.locations[i].text
  <2>1. a \in Sizes /\ w \in Nat
    BY <1>2, LocationFields, ResolutionFields, AddressesTyped DEF Sizes
  <2>2. /\ AddressLen(a) \in Nat /\ AddressLen(a) <= MaxAddressLen /\ MaxAddressLen \in Nat
    BY <2>1, AddressFits, TransferAssumption DEF MaxAddressLen
  <2>3. /\ Longer(t)[i] = IF m.locations[i].form = "numeric" THEN AddressLen(a) - w ELSE 0
        /\ Added(m)[i] = IF m.locations[i].form = "numeric" THEN Reserved(w) ELSE 0
    BY <1>2, <1>5 DEF Longer, Added, Numeric
  <2>4. Reserved(w) = IF w < MaxAddressLen THEN MaxAddressLen - w ELSE 0
    BY DEF Reserved
  <2> HIDE DEF a, w, m, n
  <2>5. QED
    BY <2>1, <2>2, <2>3, <2>4
<1>7. TextSize(t) = Changed(m.len + 1, Longer(t), n)[n]
  BY DEF TextSize
<1>8. m.len + 1 \in Int
  BY <1>2
<1> HIDE DEF m, n
<1>9. QED
  BY <1>2, <1>3, <1>4, <1>6, <1>7, <1>8, ChangedMonotone


RoomFor(a, m, n, cap) ==
  /\ a \in {"scan", "resolve"} => cap = Room(m)[n]
  /\ a \in {"place", "reserve"} => m.locations[n].form = "numeric" /\ cap = Room(m)[n - 1]
  /\ a = "pack" \/ a \in Holding => cap = Room(m)[n]

LEMMA RoomTransferred ==
  ASSUME NEW t \in Movers, TransferStep(t), DataPathInv,
         RoomFor(At(t), msg[t], Len(location[t]), capacity[t])
  PROVE  RoomFor(At(t)', msg'[t], Len(location'[t]), capacity'[t])
<1> DEFINE Goal == RoomFor(At(t)', msg'[t], Len(location'[t]), capacity'[t])
           s == location[t]
           n == Len(location[t])
           m == msg[t]
<1>1. /\ TypeOK /\ MessagesInHand /\ LocalTypes /\ TransferTypes /\ t \in Threads
      /\ MessageInHand(t)
  BY DEF DataPathInv, TypeOK, LocalTypes, TransferTypes, Threads, MessagesInHand, MessageInHand
<1>2. s \in Seq(Resolutions) /\ n \in Nat /\ n = Scanned(t)
  BY <1>1, ListFields DEF TransferTypes, Scanned
<1>3. pc[t] # "idle" => /\ m \in Messages /\ Dst(t) \in Modules
                        /\ m.locations \in Seq(Location) /\ n <= Len(m.locations)
                        /\ Len(m.locations) \in Nat
  BY <1>1, <1>2, InHand
<1>4. ASSUME At(t)' \in {"measure", "refused", "freed", "idle"} PROVE Goal
  BY <1>4 DEF RoomFor, Holding
<1>5. ASSUME At(t) \in Holding \cup {"pack"}, At(t)' \in Holding \cup {"pack"}, msg' = msg,
             Len(location'[t]) = n, capacity' = capacity
      PROVE  Goal
  BY <1>5 DEF RoomFor, Holding
<1> SUFFICES Goal
  OBVIOUS
<1> HIDE DEF Goal, s, n, m
<1>7. CASE BeginTransfer(t)
  <2>1. PICK k \in Messages : AskThen(t, k.src, "measure")
    BY <1>7 DEF BeginTransfer
  <2>2. k.src \in Modules \cup {Host} /\ "measure" \in Labels \ Asking
    BY MessageFields DEF Labels, Asking
  <2>3. At(t)' = "measure"
    BY <1>1, <2>1, <2>2, AskedFor
  <2>4. QED
    BY <1>4, <2>3
<1>8. CASE Measure(t)
  <2>1. /\ location'[t] = <<>> /\ msg' = msg /\ m \in Messages
        /\ \/ At(t)' = "refused"
           \/ At(t)' = "scan" /\ capacity'[t] = m.len + 1
    BY <1>1, <1>3, <1>8
    DEF Measure, Refuse, Goto, At, Asking, LocalTypes, MessageInHand, TransferTypes, m
  <2>2. Room(m)[0] = m.len + 1
    BY <2>1, RoomSteps
  <2>3. Len(location'[t]) = 0
    BY <2>1
  <2>4. QED
    BY <1>4, <2>1, <2>2, <2>3 DEF RoomFor, Holding, Goal, m
<1>9. CASE Scan(t)
  <2>1. At(t) = "scan" /\ capacity' = capacity /\ msg' = msg /\ pc[t] # "idle"
    BY <1>9 DEF Scan, At, Asking
  <2>2. capacity[t] = Room(m)[n]
    BY <2>1 DEF RoomFor, m, n
  <2>3. /\ n < Len(m.locations) /\ Described(t) = m.locations[n + 1]
        /\ \/ /\ location'[t] = Append(s, Unresolved) /\ At(t)' = "scan"
              /\ Described(t).form # "numeric"
           \/ location' = location /\ At(t)' \in {"refused", "resolve"}
    BY <1>1, <1>2, <1>9, ScanEffect DEF Described, Scanned, m, s
  <2>4. CASE /\ location'[t] = Append(s, Unresolved) /\ At(t)' = "scan"
             /\ Described(t).form # "numeric"
    <3>1. Unresolved \in Resolutions
      BY AddressesTyped DEF Unresolved, Resolutions, Sizes
    <3>2. Len(location'[t]) = n + 1
      BY <1>2, <2>4, <3>1, ListExtended DEF s, n
    <3>3. n + 1 \in 1..Len(m.locations) /\ (n + 1) - 1 = n
      BY <1>2, <1>3, <2>1, <2>3
    <3>4. Room(m)[n + 1] = Room(m)[n] + 0 /\ Room(m)[n] = capacity[t]
      BY <1>3, <2>1, <2>2, <2>3, <2>4, <3>3, RoomSteps
    <3>5. capacity[t] \in Nat
      BY <1>1, AddressesTyped DEF TransferTypes, Sizes
    <3>6. capacity'[t] = Room(m)[n + 1]
      BY <2>1, <3>4, <3>5
    <3>7. QED
      BY <2>1, <2>4, <3>2, <3>6 DEF RoomFor, Holding, Goal, m
  <2>5. CASE location' = location /\ At(t)' \in {"refused", "resolve"}
    BY <1>4, <2>1, <2>2, <2>5 DEF RoomFor, Holding, Goal, m, n
  <2>6. QED
    BY <2>3, <2>4, <2>5
<1>10. CASE Resolve(t)
  <2>1. At(t) = "resolve" /\ capacity' = capacity /\ msg' = msg
    BY <1>10 DEF Resolve, At, Asking
  <2>2. capacity[t] = Room(m)[n]
    BY <2>1 DEF RoomFor, m, n
  <2>3. /\ Described(t) = m.locations[n + 1] /\ Described(t).form = "numeric"
        /\ \/ At(t)' = "refused"
           \/ \E l \in Resolutions : /\ location'[t] = Append(s, l)
                                     /\ At(t)' \in {"reserve", "place"}
    BY <1>1, <1>2, <1>10, ResolveEffect DEF Described, m, s
  <2>4. ASSUME NEW l \in Resolutions, location'[t] = Append(s, l),
               At(t)' \in {"reserve", "place"}
        PROVE  Goal
    <3>1. Len(location'[t]) = n + 1 /\ (n + 1) - 1 = n
      BY <1>2, <2>4, ListExtended DEF s, n
    <3>2. QED
      BY <2>1, <2>2, <2>3, <2>4, <3>1 DEF RoomFor, Holding, Goal, m
  <2>5. QED
    BY <1>4, <2>3, <2>4
<1>11. CASE PlaceLocation(t)
  <2>1. At(t) = "place" /\ capacity' = capacity /\ msg' = msg
    BY <1>11 DEF PlaceLocation, At, Asking
  <2>2. n \in DOMAIN s
        /\ \/ At(t)' = "refused"
           \/ \E p \in Resolutions : location'[t] = [s EXCEPT ![n] = p] /\ At(t)' = "reserve"
    BY <1>1, <1>2, <1>11, PlaceEffect DEF s
  <2>3. ASSUME NEW p \in Resolutions, location'[t] = [s EXCEPT ![n] = p], At(t)' = "reserve"
        PROVE  Goal
    <3>1. Len(location'[t]) = n
      BY <1>2, <2>2, <2>3, ListUpdated DEF s, n
    <3>2. QED
      BY <2>1, <2>3, <3>1 DEF RoomFor, Holding, Goal, m, n
  <2>4. QED
    BY <1>4, <2>2, <2>3
<1>12. CASE ReserveText(t)
  <2>1. /\ At(t) = "reserve" /\ location' = location /\ msg' = msg /\ pc[t] # "idle"
        /\ n > 0
    BY <1>1, <1>2, <1>12 DEF ReserveText, At, Asking, MessageInHand
  <2>2. \/ At(t)' = "refused"
        \/ At(t)' = "scan" /\ capacity'[t] = capacity[t] + Reserved(m.locations[n].text)
    BY <1>1, <1>2, <1>12
    DEF ReserveText, Refuse, Goto, At, Asking, LocalTypes, TransferTypes, m
  <2>3. m.locations[n].form = "numeric" /\ capacity[t] = Room(m)[n - 1]
    BY <2>1 DEF RoomFor, m, n
  <2>4. n \in 1..Len(m.locations)
    BY <1>2, <1>3, <2>1
  <2>5. Room(m)[n] = Room(m)[n - 1] + Reserved(m.locations[n].text)
    BY <1>3, <2>1, <2>3, <2>4, RoomSteps
  <2>6. QED
    BY <1>4, <2>1, <2>2, <2>3, <2>5 DEF RoomFor, Holding, Goal, m, n
<1>13. CASE AlignText(t)
  <2>1. At(t) = "scan" /\ location' = location /\ capacity' = capacity /\ msg' = msg
    BY <1>13 DEF AlignText, At, Asking
  <2>2. At(t)' \in {"refused", "pack"}
    BY <1>1, <1>13 DEF AlignText, Refuse, Goto, At, Asking, LocalTypes
  <2>3. QED
    BY <1>4, <2>1, <2>2 DEF RoomFor, Holding, Goal
<1>14. CASE PackPayload(t)
  <2>1. capacity' = capacity /\ At(t) = "pack" /\ msg' = msg
    BY <1>14 DEF PackPayload, At, Asking
  <2>2. \/ At(t)' = "refused"
        \/ \E i \in Packing(t), p \in Resolutions :
             i \in DOMAIN s /\ location'[t] = [s EXCEPT ![i] = p] /\ At(t)' = "pack"
    BY <1>1, <1>14, PackEffect DEF s
  <2>3. ASSUME NEW i \in DOMAIN s, NEW p \in Resolutions,
               location'[t] = [s EXCEPT ![i] = p], At(t)' = "pack"
        PROVE  Goal
    <3>1. Len(location'[t]) = n
      BY <1>2, <2>3, ListUpdated DEF s, n
    <3>2. QED
      BY <1>5, <2>1, <2>3, <3>1
  <2>4. QED
    BY <1>4, <2>2, <2>3
<1>15. CASE \/ AllocateBlock(t) \/ AllocateBadBlock(t) \/ CheckSize(t)
            \/ RewriteText(t) \/ CopyPayloads(t)
  <2>1. /\ location' = location /\ capacity' = capacity /\ msg' = msg
        /\ At(t) \in Holding \cup {"pack"} /\ pc[t] # "idle"
    BY <1>15
    DEF AllocateBlock, AllocateBadBlock, CheckSize, RewriteText, CopyPayloads, At, Asking,
        Holding, transfer_vars
  <2>2. CASE CheckSize(t)
    <3>1. /\ AskThen(t, Dst(t), "validate") /\ "validate" \in Labels \ Asking
      BY <2>2 DEF CheckSize, AskAfterCall, Labels, Asking
    <3>2. At(t)' = "validate"
      BY <1>1, <1>3, <2>1, <2>2, <3>1, AskedFor
    <3>3. QED
      BY <1>5, <2>1, <3>2 DEF Holding, n
  <2>3. CASE ~CheckSize(t)
    <3>1. At(t)' \in Holding \cup {"refused"}
      BY <1>1, <1>15, <2>3
      DEF AllocateBlock, AllocateBadBlock, RewriteText, CopyPayloads, Refuse, GiveBack, Goto,
          At, Asking, LocalTypes, Holding
    <3>2. QED
      BY <1>4, <1>5, <2>1, <3>1 DEF n
  <2>4. QED
    BY <2>2, <2>3
<1>16. CASE ValidateBlock(t)
  <2>1. capacity' = capacity /\ At(t) = "validate" /\ msg' = msg
    BY <1>16 DEF ValidateBlock, At, Asking
  <2>2. At(t)' \in {"free", "rewrite"} /\ Len(location'[t]) = n
    BY <1>1, <1>16, ValidateEffect DEF n
  <2>3. QED
    BY <1>5, <2>1, <2>2 DEF Holding
<1>17. CASE FreeTransferred(t) \/ EndTransfer(t)
  <2>1. At(t)' \in {"freed", "refused", "idle"}
    BY <1>1, <1>17 DEF FreeTransferred, FreeBlock, EndTransfer, Goto, At, Asking, LocalTypes
  <2>2. QED
    BY <1>4, <2>1
<1>18. QED
  BY <1>7, <1>8, <1>9, <1>10, <1>11, <1>12, <1>13, <1>14, <1>15, <1>16, <1>17
  DEF TransferStep


LEMMA RoomHolds == Spec => []RoomMade
<1>1. Init => RoomMade
  BY DEF Init, MemoryInit, TransferInit, RoomMade, At, Asking, Holding, Threads
<1>2. DataPathInv /\ RoomMade /\ [Next]_vars => RoomMade'
  <2> SUFFICES ASSUME DataPathInv, RoomMade, [Next]_vars PROVE RoomMade'
    OBVIOUS
  <2>1. \A t \in Movers : RoomFor(At(t), msg[t], Len(location[t]), capacity[t])
    BY DEF RoomMade, RoomFor, Scanned
  <2>2. ASSUME NEW t \in Movers
        PROVE  RoomFor(At(t)', msg'[t], Len(location'[t]), capacity'[t])
    <3>1. CASE TransferStep(t)
      BY <2>1, <3>1, RoomTransferred
    <3>2. CASE At(t)' \in Shrinking \cup {"refused"}
      BY <3>2 DEF RoomFor, Shrinking, Holding
    <3>3. CASE /\ At(t)' = At(t) /\ location'[t] = location[t] /\ capacity'[t] = capacity[t]
               /\ msg'[t] = msg[t]
      BY <2>1, <3>3
    <3>4. QED
      BY <3>1, <3>2, <3>3, TransfersKept
  <2>3. QED
    BY <2>2 DEF RoomMade, RoomFor, Scanned
<1>3. QED
  BY <1>1, <1>2, BaseHolds, PTL DEF Spec

(* The rewritten text always fits into what has been reserved for it: no   *)
(* transfer is refused for its text, whatever the addresses become and     *)
(* however the sender has written them.                                    *)
THEOREM TextsFit == Spec => [](\A t \in Movers : outcome[t] # "text")
<1> DEFINE NoneRefused == \A t \in Movers : outcome[t] # "text"
<1>1. Init => NoneRefused
  BY DEF Init, TransferInit
<1>2. DataPathInv /\ RoomMade /\ NoneRefused /\ [Next]_vars => NoneRefused'
  <2> SUFFICES ASSUME DataPathInv, RoomMade, NoneRefused, [Next]_vars, NEW t \in Movers
               PROVE  outcome'[t] # "text"
    OBVIOUS
  <2>1. outcome \in [Movers -> Reasons] /\ outcome[t] # "text"
    BY DEF DataPathInv, TypeOK
  <2>2. CASE RewriteText(t)
    <3>1. TextSize(t) <= capacity[t]
      BY <2>2, TextFits DEF RewriteText
    <3>2. QED
      BY <2>1, <2>2, <3>1 DEF RewriteText
  <2>3. CASE \/ BeginTransfer(t) \/ Measure(t) \/ Scan(t) \/ Resolve(t) \/ PlaceLocation(t)
             \/ ReserveText(t) \/ AlignText(t) \/ PackPayload(t) \/ AllocateBlock(t)
             \/ AllocateBadBlock(t) \/ CheckSize(t) \/ ValidateBlock(t) \/ CopyPayloads(t)
             \/ FreeTransferred(t) \/ EndTransfer(t)
    BY <2>1, <2>3
    DEF BeginTransfer, Measure, Scan, Resolve, PlaceLocation, ReserveText, AlignText,
        PackPayload, AllocateBlock, AllocateBadBlock, CheckSize, ValidateBlock, CopyPayloads,
        FreeTransferred, EndTransfer, Refuse, GiveBack, transfer_vars
  <2>4. CASE outcome'[t] = outcome[t]
    BY <2>1, <2>4
  <2>5. QED
    BY <2>2, <2>3, <2>4, TransfersKept DEF TransferStep
<1>3. QED
  BY <1>1, <1>2, BaseHolds, RoomHolds, PTL DEF Spec

(* Where WAMR is not in use, what a transfer has been promised is kept: it *)
(* is refused neither for a block that was allocated for it nor for want   *)
(* of room for its text.                                                   *)
THEOREM RefusalsCaused ==
  ASSUME WithoutWamr
  PROVE  Spec => []RefusedForCause
<1>1. BlocksRefusedForCause /\ (\A t \in Movers : outcome[t] # "text") => RefusedForCause
  BY DEF RefusedForCause
<1>2. QED
  BY <1>1, GoodBlocksAccepted, TextsFit, PTL

=============================================================================
