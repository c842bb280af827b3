---------------------------- MODULE ModuleMemory ----------------------------
(***************************************************************************)
(* The linear memories of modules and the host's view of their size:       *)
(* src/wahelib/wahe/wahe_core.c 320-585, the memory commands in            *)
(* wahe_host_commands.c and wahe_virtual_memory.c.                         *)
(*                                                                         *)
(* A memory is a reservation at a fixed address, of which a prefix is      *)
(* active and a prefix is backed by pages.  Guest code grows it, and its   *)
(* allocator asks the host to shrink it when the tail is free.  Host       *)
(* threads check addresses against a size that the module record caches    *)
(* and that each of them refreshes from the runtime.                       *)
(*                                                                         *)
(* Kinds of memory: "ordinary" and "shared" ones of Wasmtime, "wamr" ones, *)
(* those of modules translated from 32-bit and 64-bit WebAssembly, and the *)
(* heap of "native" modules, of which the host tracks nothing.             *)
(***************************************************************************)
EXTENDS Naturals, FiniteSets, FiniteSetsExt

CONSTANTS
  Modules,
  Builds,        \* the kinds the modules may have: functions on Modules
  Guests,        \* threads in guest code, which allocate and free
  Readers,       \* host threads that want to know the size of a memory
  Movers,        \* host threads that transfer messages (MessageTransfer)
  PageSize, InitialPages, MaxPages,
  GuestBlock,    \* how much a guest allocates at a time
  GuestBlocks,   \* per module: how many blocks guests have at a time, at most
  BlockAlignment,
  StaticData     \* the first bytes of a memory: its data and its senders' messages

Translated == {"translated32", "translated64"}
Kinds      == Translated \cup {"ordinary", "shared", "wamr", "native"}
Threads    == Guests \cup Readers \cup Movers
Reserve    == MaxPages * PageSize

NoThread == "none"
NoModule == "none"

ASSUME MemoryAssumption ==
  /\ Modules # {} /\ NoModule \notin Modules /\ NoThread \notin Threads
  /\ Guests \cap Movers = {} /\ Readers \cap (Guests \cup Movers) = {}
  /\ Builds \subseteq [Modules -> Kinds]
  /\ PageSize \in Nat \ {0}
  /\ InitialPages \in 1..MaxPages
  /\ MaxPages \in Nat
  /\ GuestBlock \in Nat \ {0}
  /\ GuestBlocks \in [Modules -> Nat]
  /\ BlockAlignment \in Nat \ {0} /\ PageSize % BlockAlignment = 0
  /\ StaticData \in 1..(InitialPages * PageSize)

VARIABLES
  ctx,         \* per module: its memory, and the host's record of it
  live,        \* per module: the blocks its allocator has given out
  mutex,       \* per module: holders of the allocator's lock, of runner 0
               \* and of ctx->mutex
  pc, on, ret, \* per thread: where it is, in which module, and after that
  sample,      \* per thread: the size read from the runtime
  size,        \* per thread: the size it has been told
  current      \* per thread: the sizes the memory has had since it asked

memory_vars == <<ctx, live, mutex, pc, on, ret, sample, size, current>>

-----------------------------------------------------------------------------

RoundUp(n) == ((n + PageSize - 1) \div PageSize) * PageSize

InitialSize == InitialPages * PageSize

(* active: the runtime's size, or the variable at memory_size_addr;        *)
(* memory_size: the cached size, the one the host checks against.          *)
Initialized(kind) ==
  [type |-> kind, active |-> InitialSize, backed |-> InitialSize,
   memory_size |-> InitialSize, memory_reclaim_pending |-> FALSE]

(* The first block stands for what the module has in its memory from the   *)
(* beginning, its outgoing messages among it.                              *)
StaticBlock == [at |-> 0, length |-> StaticData, owner |-> NoThread]

MemoryInit ==
  /\ \E kind \in Builds : ctx = [m \in Modules |-> Initialized(kind[m])]
  /\ live = [m \in Modules |-> {StaticBlock}]
  /\ mutex = [m \in Modules |-> [alloc |-> NoThread, runner |-> NoThread,
                                 ctx |-> NoThread]]
  /\ pc = [t \in Threads |-> "idle"]
  /\ on = [t \in Threads |-> NoModule]
  /\ ret = [t \in Threads |-> "idle"]
  /\ sample = [t \in Threads |-> 0]
  /\ size = [t \in Threads |-> 0]
  /\ current = [t \in Threads |-> {}]

Type(m)      == ctx[m].type
Top(m)       == Max({b.at + b.length : b \in live[m]})
Asking       == {"sample", "publish", "sample_again", "publish_again", "read"}

(* The memory of m gets the record c; whoever is asking may be told of it. *)
Becomes(m, c) ==
  /\ ctx' = [ctx EXCEPT ![m] = c]
  /\ current' = [t \in Threads |->
       IF pc[t] \in Asking /\ on[t] = m THEN current[t] \cup {c.active}
                                        ELSE current[t]]

Free(m, lock) == mutex[m][lock] = NoThread

(* Guest code of an ordinary memory executes on runner 0.                  *)
Entered(m) == Type(m) = "ordinary"

-----------------------------------------------------------------------------

(* Mutants: a request is not clamped; the new extent is not committed.     *)
NotClamped(c, end) ==
  LET extent == IF c.type \in Translated THEN end ELSE RoundUp(end)
  IN  [c EXCEPT !.active = extent,
                !.backed = Max({@, RoundUp(extent)}),
                !.memory_size = IF c.type \in Translated THEN extent ELSE @]

NotCommitted(c, end) ==
  LET extent == IF c.type \in Translated THEN Min({end, Reserve}) ELSE RoundUp(end)
  IN  [c EXCEPT !.active = extent,
                !.memory_size = IF c.type \in Translated THEN extent ELSE @]

(* A larger memory, by "Enlarge memory to", which is clamped to the        *)
(* reservation, or by the runtime, which does not know the cached size.    *)
Enlarged(c, end) ==
  LET extent == IF c.type \in Translated THEN Min({end, Reserve}) ELSE RoundUp(end)
  IN  [c EXCEPT !.active = extent,
                !.backed = Max({@, RoundUp(extent)}),
                !.memory_size = IF c.type \in Translated THEN extent ELSE @]

MayGrow(c, end) ==
  c.type \in Translated \cup {"ordinary", "shared", "wamr"}
    /\ (c.type \in Translated \/ RoundUp(end) <= Reserve)

(* The lowest place for a block.                                           *)
Place(m, n) ==
  Min({a \in {k * BlockAlignment : k \in 0..(Reserve \div BlockAlignment)} :
         \A b \in live[m] : a >= b.at + b.length \/ b.at >= a + n})

(* The guest's allocator: take free space, after enlarging the memory if   *)
(* need be; enlarging may fail or be clamped.  at is 0 if there is none.   *)
Malloc(t, m, n, at) ==
  LET end == Place(m, n) + n
  IN  /\ Free(m, "alloc")
      /\ Entered(m) => Free(m, "runner")
      /\ \/ /\ end <= ctx[m].active
            /\ UNCHANGED <<ctx, current>>
            /\ at = Place(m, n)
         \/ /\ end > ctx[m].active
            /\ MayGrow(ctx[m], end)
            /\ Becomes(m, Enlarged(ctx[m], end))
            /\ at = IF end <= Enlarged(ctx[m], end).active THEN Place(m, n) ELSE 0
         \/ /\ end > ctx[m].active
            /\ UNCHANGED <<ctx, current>>
            /\ at = 0
      /\ live' = IF at = 0 THEN live
                 ELSE [live EXCEPT ![m] = @ \cup {[at |-> at, length |-> n, owner |-> t]}]

GuestAllocates(t) ==
  /\ pc[t] = "idle"
  /\ \E m \in Modules : \E at \in {0, Place(m, GuestBlock)} :
       /\ Type(m) # "native"
       /\ Cardinality({b \in live[m] : b.owner \in Guests}) < GuestBlocks[m]
       /\ Malloc(t, m, GuestBlock, at)
  /\ UNCHANGED <<mutex, pc, on, ret, sample, size>>

(* The allocator frees a block and, in its lock, looks at the tail.        *)
FreeBlock(t, m, b, next) ==
  /\ Free(m, "alloc")
  /\ Entered(m) => Free(m, "runner")
  /\ live' = [live EXCEPT ![m] = @ \ {b}]
  /\ mutex' = [mutex EXCEPT ![m].alloc = t,
                            ![m].runner = IF Entered(m) THEN t ELSE @]
  /\ pc' = [pc EXCEPT ![t] = "freed"]
  /\ on' = [on EXCEPT ![t] = m]
  /\ ret' = [ret EXCEPT ![t] = next]

GuestFrees(t) ==
  /\ pc[t] = "idle"
  /\ \E m \in Modules : \E b \in live[m] : b.owner \in Guests /\ FreeBlock(t, m, b, "idle")
  /\ UNCHANGED <<ctx, sample, size, current>>

Return(t) ==
  /\ pc' = [pc EXCEPT ![t] = ret[t]]
  /\ ret' = [ret EXCEPT ![t] = "idle"]
  /\ on' = [on EXCEPT ![t] = NoModule]

LeaveAllocator(t) ==
  /\ mutex' = [mutex EXCEPT ![on[t]].alloc = NoThread,
                            ![on[t]].runner = IF @ = t THEN NoThread ELSE @]
  /\ Return(t)

KeepTail(t) ==
  /\ pc[t] = "freed"
  /\ LeaveAllocator(t)
  /\ UNCHANGED <<ctx, live, sample, size, current>>

-----------------------------------------------------------------------------

(* "Shrink memory to" the end of the last block in use.                    *)

(* wahe_virtual_memory_decommit gives whole pages back; it may fail, after *)
(* discarding their contents.                                              *)
ShrinkTranslated(t) ==
  /\ pc[t] = "freed"
  /\ Type(on[t]) \in Translated
  /\ \/ Becomes(on[t], [ctx[on[t]] EXCEPT !.active = Top(on[t]),
                                          !.memory_size = Top(on[t]),
                                          !.backed = RoundUp(Top(on[t]))])
     \/ UNCHANGED <<ctx, current>>
  /\ LeaveAllocator(t)
  /\ UNCHANGED <<live, sample, size>>

(* The target preserves the declared minimum.                              *)
Target(m) == Max({RoundUp(Top(m)), InitialSize})

(* Ordinary memories give their pages back at once, in their runner; the   *)
(* backing of shared ones is retained until it is reclaimed.               *)
ShrinkWasmtime(t) ==
  /\ pc[t] = "freed"
  /\ Type(on[t]) \in {"ordinary", "shared"}
  /\ \/ /\ Becomes(on[t], [ctx[on[t]] EXCEPT !.active = Target(on[t]),
                             !.backed = IF Entered(on[t]) THEN Target(on[t]) ELSE @])
        /\ pc' = [pc EXCEPT ![t] = IF Entered(on[t]) THEN "shrunk" ELSE "mark"]
     \/ /\ pc' = [pc EXCEPT ![t] = "shrunk"]
        /\ UNCHANGED <<ctx, current>>
  /\ UNCHANGED <<live, mutex, on, ret, sample, size>>

MarkReclaimable(t) ==
  /\ pc[t] = "mark"
  /\ Free(on[t], "ctx")
  /\ ctx' = [ctx EXCEPT ![on[t]].memory_reclaim_pending = TRUE]
  /\ pc' = [pc EXCEPT ![t] = "shrunk"]
  /\ UNCHANGED <<live, mutex, on, ret, sample, size, current>>

(* The cached size is refreshed before the allocator goes on.  While its   *)
(* lock is held the size does not change, so that this is one step.        *)
RefreshShrunk(t) ==
  /\ pc[t] = "shrunk"
  /\ Free(on[t], "ctx")
  /\ ctx' = [ctx EXCEPT ![on[t]].memory_size = ctx[on[t]].active]
  /\ LeaveAllocator(t)
  /\ UNCHANGED <<live, sample, size, current>>

(* Mutant: the pages beyond the first request's target are given back.     *)
ReclaimedTo(c) == InitialSize

(* The runtime recomputes the unused tail.                                 *)
ReclaimExtent(c) == c.active

(* Mutant: a failed reclamation is not retried.                            *)
ForgottenAfter(failed) == FALSE

PendingAfter(failed) == failed

(* A moment at which the host may reclaim: no lock is held and no guest or *)
(* transfer is in the allocator or asks for the size.  The host has to     *)
(* exclude every use of the memory, of which this is a part.               *)
SafePoint(m) ==
  /\ \A lock \in DOMAIN mutex[m] : Free(m, lock)
  /\ \A t \in Guests \cup Movers : on[t] = m => pc[t] = "idle"

Reclaim(m) ==
  /\ Type(m) = "shared"
  /\ ctx[m].memory_reclaim_pending
  /\ SafePoint(m)
  /\ \E failed \in BOOLEAN :
       ctx' = [ctx EXCEPT ![m].backed = IF failed THEN @ ELSE ReclaimExtent(ctx[m]),
                          ![m].memory_reclaim_pending = PendingAfter(failed)]
  /\ UNCHANGED <<live, mutex, pc, on, ret, sample, size, current>>

-----------------------------------------------------------------------------

(* Asking for the size of a memory: wahe_refresh_module_memory_size and    *)
(* wahe_get_module_memory_size.  Nothing is sampled for translated memory. *)
Ask(t, m, next) ==
  /\ on' = [on EXCEPT ![t] = m]
  /\ ret' = [ret EXCEPT ![t] = next]
  /\ current' = [current EXCEPT ![t] = {ctx[m].active}]
  /\ pc' = [pc EXCEPT ![t] =
       IF Type(m) \in Translated THEN "read" ELSE "sample"]

BeginRead(t) ==
  /\ pc[t] = "idle"
  /\ \E m \in Modules : Type(m) \notin Translated \cup {"native"} /\ Ask(t, m, "idle")
  /\ UNCHANGED <<ctx, live, mutex, sample, size>>

(* Mutant: nothing is held while the runtime's size is sampled.            *)
HeldForNothing(m, lock) == FALSE

(* What a thread holds from the sample to its publication: runner 0 of an  *)
(* ordinary memory, ctx->mutex for a shared one, nothing under WAMR.       *)
HeldForSample(m, lock) ==
  (Type(m) = "ordinary" /\ lock = "runner") \/ (Type(m) = "shared" /\ lock = "ctx")

SampleSize(t) ==
  /\ pc[t] \in {"sample", "sample_again"}
  /\ \A lock \in DOMAIN mutex[on[t]] : HeldForSample(on[t], lock) => Free(on[t], lock)
  /\ mutex' = [mutex EXCEPT ![on[t]] = [lock \in DOMAIN @ |->
                 IF HeldForSample(on[t], lock) THEN t ELSE @[lock]]]
  /\ sample' = [sample EXCEPT ![t] = ctx[on[t]].active]
  /\ pc' = [pc EXCEPT ![t] = IF @ = "sample" THEN "publish" ELSE "publish_again"]
  /\ UNCHANGED <<ctx, live, on, ret, size, current>>

(* Under WAMR the size is refreshed once more when it is asked for.        *)
PublishSize(t) ==
  /\ pc[t] \in {"publish", "publish_again"}
  /\ mutex[on[t]].ctx \in {NoThread, t}
  /\ ctx' = [ctx EXCEPT ![on[t]].memory_size = sample[t]]
  /\ mutex' = [mutex EXCEPT ![on[t]] = [lock \in DOMAIN @ |->
                 IF @[lock] = t THEN NoThread ELSE @[lock]]]
  /\ sample' = [sample EXCEPT ![t] = 0]
  /\ pc' = [pc EXCEPT ![t] = IF @ = "publish" /\ Type(on[t]) = "wamr"
                             THEN "sample_again" ELSE "read"]
  /\ UNCHANGED <<live, on, ret, size, current>>

(* The size of a shared memory is taken from the runtime after all.        *)
(* Readers have no further use for it.                                     *)
ReadSize(t) ==
  /\ pc[t] = "read"
  /\ size' = [size EXCEPT ![t] =
       IF t \in Readers THEN 0
       ELSE IF Type(on[t]) = "shared" THEN ctx[on[t]].active ELSE ctx[on[t]].memory_size]
  /\ current' = [current EXCEPT ![t] = {}]
  /\ Return(t)
  /\ UNCHANGED <<ctx, live, mutex, sample>>

=============================================================================
