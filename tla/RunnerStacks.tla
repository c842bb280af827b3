---------------------------- MODULE RunnerStacks ----------------------------
(***************************************************************************)
(* The arithmetic by which WAHE divides the linear stack of a module       *)
(* between its configured runners, blanks it, and aligns the blocks it     *)
(* allocates for TLS and for the stacks of threads (wahe_core.c,           *)
(* wahe_threads.c, wahe_wamr.c).  A region is a pair of bounds, the upper  *)
(* one excluded; a stack grows downward from its upper bound.              *)
(***************************************************************************)
EXTENDS Integers

Region(lo, hi) == [lo |-> lo, hi |-> hi]

Apart(a, b)  == a.hi <= b.lo \/ b.hi <= a.lo
Inside(a, b) == b.lo <= a.lo /\ a.hi <= b.hi

(* The size of the slice of each of n runners.                             *)
SliceSize(stack_base, n) == stack_base \div n

(* The checks before a stack is divided: the static data is not below the  *)
(* stack, and the slices are equal, nonempty and aligned.                  *)
Divisible(stack_base, data_end, n) ==
    /\ data_end >= stack_base
    /\ stack_base # 0
    /\ stack_base % n = 0
    /\ SliceSize(stack_base, n) >= 16
    /\ SliceSize(stack_base, n) % 16 = 0

(* The slice of runner i, counted from zero.                               *)
SliceTop(stack_base, n, i) == SliceSize(stack_base, n) * (i + 1)
Slice(stack_base, n, i) ==
    Region(SliceTop(stack_base, n, i) - SliceSize(stack_base, n),
           SliceTop(stack_base, n, i))

(* A mutant: blanking that ignores where the data is.                      *)
BlankedFromZero(stack_base, data_end) == Region(0, stack_base)

(* wahe_blank_module_stack: from the end of the data if that is below the  *)
(* stack, else from address zero.                                          *)
BlankedRegion(stack_base, data_end) ==
    Region(IF data_end < stack_base THEN data_end ELSE 0, stack_base)

(* A mutant: no room for the alignment.                                    *)
AllocationUnpadded(size, align) == size

(* A block of size bytes at an aligned address, in an allocation of        *)
(* size + align - 1 bytes.                                                 *)
AllocationSize(size, align) == size + align - 1
AlignUp(addr, align)        == ((addr + align - 1) \div align) * align
AlignedBlock(addr, size, align) ==
    Region(AlignUp(addr, align), AlignUp(addr, align) + size)
=============================================================================
