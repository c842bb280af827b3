--------------------------- MODULE MessageTransfer ---------------------------
(***************************************************************************)
(* The transfer of a message into a module's memory:                       *)
(* wahe_copy_message_between_modules_on_runner and what it calls, in       *)
(* src/wahelib/wahe/wahe_core.c.                                           *)
(*                                                                         *)
(* A message is a text with location descriptors, "location: N bytes at    *)
(* A".  The transfer checks each location against the sender's memory,     *)
(* allocates one block of the destination's memory, and writes into it the *)
(* text with the addresses rewritten to mean the same bytes there.  Bytes  *)
(* the destination cannot reach are copied behind the text.                *)
(*                                                                         *)
(* Addresses are numbers of SizeBytes bytes.  A module's memory is mapped  *)
(* at Base of the host's address space; the top bit of an address tags a   *)
(* host address in memories translated from 64-bit WebAssembly.            *)
(***************************************************************************)
EXTENDS ModuleMemory, Integers, Sequences

CONSTANTS
  SizeBytes,         \* sizeof(size_t)
  PayloadAlignment,
  Base,              \* per module: where its memory, or heap, is mapped
  BadBlocks,         \* what a faulty allocator of a module may return
  Messages           \* what may be transferred: see IsMessage

Host == "host"       \* a source without a module context

HostAddressBit  == 2 ^ (8 * SizeBytes - 1)
SizeMax         == 2 * HostAddressBit - 1
MaxAddressLen   == 2 + SizeBytes * 3

(* A location is well formed, or not a numeric location at all, which is   *)
(* skipped, or malformed in one of the ways that refuse the message.       *)
Forms == {"numeric", "wordy", "oversized", "no separator", "no address", "bad address"}

Location == [form : Forms, text : Nat, copy_size : 0..SizeMax, src_addr : 0..SizeMax]

(* text: the length of the address as the sender has written it.           *)
IsMessage(msg) ==
  /\ msg.src \in Modules \cup {Host}
  /\ msg.dst \in Modules
  /\ msg.ptr \in 0..(HostAddressBit - 1)      \* where the text is
  /\ msg.len \in 0..SizeMax
  /\ msg.terminated \in BOOLEAN               \* within the sender's memory
  /\ msg.locations \in Seq(Location)

ASSUME TransferAssumption ==
  /\ SizeBytes \in Nat \ {0}
  /\ PayloadAlignment \in Nat \ {0}
  /\ Base \in [Modules -> 1..(HostAddressBit - 1 - Reserve)]
  /\ \A m, n \in Modules : m # n => Base[m] + Reserve < Base[n] \/ Base[n] + Reserve < Base[m]
  /\ BadBlocks \subseteq 0..SizeMax
  /\ Host \notin Modules
  /\ \A m \in Messages : IsMessage(m)

VARIABLES
  msg,          \* per mover: the message it transfers
  location,     \* per mover: the locations resolved so far
  capacity,     \* per mover: message_capacity
  allocation,   \* per mover: allocation_size
  block,        \* per mover: the address of the destination's block, or 0
  outcome       \* per mover: what has become of the transfer

transfer_vars == <<msg, location, capacity, allocation, block, outcome>>
vars == <<memory_vars, transfer_vars>>

NoMessage == [src |-> Host, dst |-> NoModule, ptr |-> 0, len |-> 0,
              terminated |-> TRUE, locations |-> <<>>]

TransferInit ==
  /\ msg = [t \in Movers |-> NoMessage]
  /\ location = [t \in Movers |-> <<>>]
  /\ capacity = [t \in Movers |-> 0]
  /\ allocation = [t \in Movers |-> 0]
  /\ block = [t \in Movers |-> 0]
  /\ outcome = [t \in Movers |-> "none"]

Init == MemoryInit /\ TransferInit

-----------------------------------------------------------------------------

Src(t) == msg[t].src
Dst(t) == msg[t].dst

IsNative(m)     == m = Host \/ (m # Host /\ Type(m) = "native")
HostAccess(m)   == Type(m) \in {"native", "translated64"}    \* has_host_mem_access
HasBit(addr)    == addr >= HostAddressBit
Goto(t, label)  == pc' = [pc EXCEPT ![t] = label]
KeepMemory      == UNCHANGED <<ctx, live, mutex, sample, size>>
Stay            == UNCHANGED <<on, ret, current>>

(* Go to label, knowing the size of m's memory if m has one of its own.    *)
AskThen(t, m, label) ==
  IF IsNative(m) THEN Goto(t, label) /\ Stay ELSE Ask(t, m, label)

(* The transfer is given up, for a reason, before or after allocating.     *)
Refuse(t, reason) ==
  /\ outcome' = [outcome EXCEPT ![t] = reason]
  /\ Goto(t, "refused")

-----------------------------------------------------------------------------

BeginTransfer(t) ==
  /\ pc[t] = "idle"
  /\ \E m \in Messages :
       /\ msg' = [msg EXCEPT ![t] = m]
       /\ AskThen(t, m.src, "measure")
  /\ KeepMemory
  /\ UNCHANGED <<location, capacity, allocation, block, outcome>>

InMemory(m, ptr, extent) == Base[m] <= ptr /\ ptr < Base[m] + extent

(* Texts in the sender's memory must end there.  Others are accepted from  *)
(* senders that can mean host addresses, and from the runtime part of a    *)
(* module translated from 32-bit code if they are beyond its reach.        *)
Measurable(t) ==
  \/ IsNative(Src(t))
  \/ InMemory(Src(t), msg[t].ptr, size[t]) /\ msg[t].terminated
  \/ /\ ~InMemory(Src(t), msg[t].ptr, size[t])
     /\ \/ HostAccess(Src(t))
        \/ /\ Type(Src(t)) = "translated32"
           /\ ~InMemory(Src(t), msg[t].ptr, Reserve)

Measure(t) ==
  /\ pc[t] = "measure"
  /\ IF Measurable(t) /\ msg[t].len # SizeMax
     THEN /\ capacity' = [capacity EXCEPT ![t] = msg[t].len + 1]
          /\ Goto(t, "scan")
          /\ UNCHANGED outcome
     ELSE Refuse(t, "message") /\ UNCHANGED capacity
  /\ KeepMemory /\ Stay
  /\ UNCHANGED <<msg, location, allocation, block>>

Scanned(t)  == Len(location[t])
Described(t) == msg[t].locations[Scanned(t) + 1]

(* A location that is skipped keeps its place in the list, to no effect.   *)
Unresolved == [copy_size |-> 0, src_ptr |-> 0, inside |-> FALSE, dst_addr |-> 0,
               copy_payload |-> FALSE, payload_offset |-> 0]

(* The next descriptor is parsed; the list of locations may have to grow.  *)
Scan(t) ==
  /\ pc[t] = "scan"
  /\ Scanned(t) < Len(msg[t].locations)
  /\ \/ /\ Described(t).form = "wordy"
        /\ location' = [location EXCEPT ![t] = Append(@, Unresolved)]
        /\ UNCHANGED <<pc, outcome>> /\ Stay
     \/ /\ Described(t).form \notin {"wordy", "numeric"}
        /\ Refuse(t, "message") /\ Stay
        /\ UNCHANGED location
     \/ /\ Described(t).form = "numeric"
        /\ AskThen(t, Src(t), "resolve")
        /\ UNCHANGED <<location, outcome>>
     \/ /\ Described(t).form = "numeric"
        /\ Refuse(t, "metadata") /\ Stay
        /\ UNCHANGED location
  /\ KeepMemory
  /\ UNCHANGED <<msg, capacity, allocation, block>>

(* wahe_resolve_transfer_source: where the bytes are in the host's address *)
(* space, and whether they are known to be in the sender's memory.         *)
HostRange(addr, n) == ~(addr = 0 /\ n # 0) /\ addr <= SizeMax - n

Inside(n, addr, extent) == addr <= extent /\ n <= extent - addr

Resolved(m, addr, n, extent) ==
  CASE IsNative(m) ->
         [ok |-> HostRange(addr, n), ptr |-> addr, inside |-> FALSE]
    [] ~IsNative(m) /\ Inside(n, addr, extent) ->
         [ok |-> TRUE, ptr |-> Base[m] + addr, inside |-> TRUE]
    [] ~IsNative(m) /\ ~Inside(n, addr, extent) ->
         [ok |-> /\ Type(m) = "translated64" /\ HasBit(addr)
                 /\ HostRange(addr - HostAddressBit, n),
          ptr |-> addr - HostAddressBit, inside |-> FALSE]

Resolve(t) ==
  LET d == Described(t)
      r == Resolved(Src(t), d.src_addr, d.copy_size, size[t])
  IN  /\ pc[t] = "resolve"
      /\ IF r.ok
         THEN /\ location' = [location EXCEPT ![t] = Append(@,
                   [Unresolved EXCEPT !.copy_size = d.copy_size,
                                      !.src_ptr = r.ptr, !.inside = r.inside])]
              /\ IF d.copy_size = 0 THEN Goto(t, "reserve") /\ Stay
                                    ELSE AskThen(t, Dst(t), "place")
              /\ UNCHANGED outcome
         ELSE Refuse(t, "source") /\ Stay /\ UNCHANGED location
      /\ KeepMemory
      /\ UNCHANGED <<msg, capacity, allocation, block>>

(* Mutant: host addresses are passed on as they are.                       *)
Untagged(m, ptr) == ptr

(* A host address, as modules that can use one write it.                   *)
Tagged(m, ptr) == IF Type(m) = "native" THEN ptr ELSE ptr + HostAddressBit

(* wahe_prepare_transfer_location: the same address if the two modules     *)
(* share the memory, a host address for those that can use one, else a     *)
(* copy of the bytes behind the text.                                      *)
Keeps(t, l, src_addr) ==
  Dst(t) = Src(t) /\ l.inside /\ Inside(l.copy_size, src_addr, size[t])

Placed(t, l, src_addr) ==
  IF Keeps(t, l, src_addr) THEN [l EXCEPT !.dst_addr = src_addr]
  ELSE IF HostAccess(Dst(t)) THEN [l EXCEPT !.dst_addr = Tagged(Dst(t), l.src_ptr)]
  ELSE [l EXCEPT !.copy_payload = TRUE]

(* A host address that has the tag already cannot be tagged.               *)
Encodable(t, l, src_addr) ==
  \/ Type(Dst(t)) # "translated64"
  \/ Keeps(t, l, src_addr)
  \/ ~HasBit(l.src_ptr)

PlaceLocation(t) ==
  LET l        == location[t][Scanned(t)]
      src_addr == msg[t].locations[Scanned(t)].src_addr
  IN  /\ pc[t] = "place"
      /\ IF Encodable(t, l, src_addr)
         THEN /\ location' = [location EXCEPT ![t][Scanned(t)] = Placed(t, l, src_addr)]
              /\ Goto(t, "reserve")
              /\ UNCHANGED outcome
         ELSE Refuse(t, "source") /\ UNCHANGED location
      /\ KeepMemory /\ Stay
      /\ UNCHANGED <<msg, capacity, allocation, block>>

(* Mutant: no room is made for longer addresses.                           *)
NotReserved(text) == 0

(* The room an address may need beyond that of the one it replaces.        *)
Reserved(text) == IF text < MaxAddressLen THEN MaxAddressLen - text ELSE 0

ReserveText(t) ==
  LET added == Reserved(msg[t].locations[Scanned(t)].text)
  IN  /\ pc[t] = "reserve"
      /\ IF capacity[t] + added <= SizeMax
         THEN /\ capacity' = [capacity EXCEPT ![t] = @ + added]
              /\ Goto(t, "scan")
              /\ UNCHANGED outcome
         ELSE Refuse(t, "space") /\ UNCHANGED capacity
      /\ KeepMemory /\ Stay
      /\ UNCHANGED <<msg, location, allocation, block>>

-----------------------------------------------------------------------------

(* The layout of the block: the text, and each payload, from a multiple of *)
(* the alignment on, as long as the sizes can be represented.              *)
AlignedUp(n) == ((n + PayloadAlignment - 1) \div PayloadAlignment) * PayloadAlignment

Alignable(n) == n <= SizeMax - (PayloadAlignment - 1)

(* Mutant: sizes that do not fit wrap around.                              *)
FitsUnchecked(offset, n) == TRUE

Fits(offset, n) == n <= SizeMax - offset

(* Mutant: payloads follow each other without alignment.                   *)
PayloadUnaligned(end) == end

PayloadAt(end) == AlignedUp(end)

Packing(t) == {i \in DOMAIN location[t] :
                 location[t][i].copy_payload /\ location[t][i].payload_offset = 0}

AlignText(t) ==
  /\ pc[t] = "scan"
  /\ Scanned(t) = Len(msg[t].locations)
  /\ IF Alignable(capacity[t])
     THEN /\ allocation' = [allocation EXCEPT ![t] = AlignedUp(capacity[t])]
          /\ Goto(t, "pack")
          /\ UNCHANGED outcome
     ELSE Refuse(t, "space") /\ UNCHANGED allocation
  /\ KeepMemory /\ Stay
  /\ UNCHANGED <<msg, location, capacity, block>>

PackPayload(t) ==
  /\ pc[t] = "pack"
  /\ Packing(t) # {}
  /\ LET i      == Min(Packing(t))
         n      == location[t][i].copy_size
         offset == PayloadAt(allocation[t])
     IN  IF Alignable(allocation[t]) /\ Fits(offset, n)
         THEN /\ location' = [location EXCEPT ![t][i].payload_offset = offset]
              /\ allocation' = [allocation EXCEPT ![t] = (offset + n) % (SizeMax + 1)]
              /\ UNCHANGED <<pc, outcome>>
         ELSE Refuse(t, "space") /\ UNCHANGED <<location, allocation>>
  /\ KeepMemory /\ Stay
  /\ UNCHANGED <<msg, capacity, block>>

(* module_malloc of the destination.  A native module's heap is addressed  *)
(* by host addresses.                                                      *)
AllocateBlock(t) ==
  /\ pc[t] = "pack"
  /\ Packing(t) = {}
  /\ \E at \in {0, Place(Dst(t), allocation[t])} :
       /\ Malloc(t, Dst(t), allocation[t], at)
       /\ IF at = 0
          THEN Refuse(t, "malloc") /\ UNCHANGED block
          ELSE /\ block' = [block EXCEPT ![t] = IF Type(Dst(t)) = "native"
                                               THEN Base[Dst(t)] + at ELSE at]
               /\ Goto(t, "allocated")
               /\ UNCHANGED outcome
  /\ UNCHANGED <<mutex, on, ret, sample, size, msg, location, capacity, allocation>>

AllocateBadBlock(t) ==
  /\ pc[t] = "pack"
  /\ Packing(t) = {}
  /\ Type(Dst(t)) # "native"
  /\ \E at \in BadBlocks : block' = [block EXCEPT ![t] = at]
  /\ Goto(t, "allocated")
  /\ KeepMemory /\ Stay
  /\ UNCHANGED <<msg, location, capacity, allocation, outcome>>

-----------------------------------------------------------------------------

(* Mutant: the size known from before the allocation is used.              *)
SizeKnown(t, m, label) == Goto(t, label) /\ Stay

AskAfterCall(t, m, label) == AskThen(t, m, label)

CheckSize(t) ==
  /\ pc[t] = "allocated"
  /\ AskAfterCall(t, Dst(t), "validate")
  /\ KeepMemory
  /\ UNCHANGED transfer_vars

(* Mutant: a block that has been allocated is kept when it cannot be used. *)
NotGivenBack(t, reason) ==
  /\ outcome' = [outcome EXCEPT ![t] = reason]
  /\ Goto(t, "refused")

GiveBack(t, reason) ==
  /\ outcome' = [outcome EXCEPT ![t] = reason]
  /\ Goto(t, "free")

(* Mutant: only the beginning of the block is looked at.                   *)
BeginsUsable(t) == Type(Dst(t)) = "native" \/ block[t] <= size[t]

UsableBlock(t) ==
  Type(Dst(t)) = "native" \/ Inside(allocation[t], block[t], size[t])

Representable(t) ==
  \A i \in DOMAIN location[t] : location[t][i].copy_payload =>
    block[t] <= SizeMax - location[t][i].payload_offset

Pointed(l, base) ==
  IF l.copy_payload THEN [l EXCEPT !.dst_addr = base + l.payload_offset] ELSE l

ValidateBlock(t) ==
  /\ pc[t] = "validate"
  /\ IF UsableBlock(t) /\ Representable(t)
     THEN /\ location' = [location EXCEPT ![t] =
               [i \in DOMAIN @ |-> Pointed(@[i], block[t])]]
          /\ Goto(t, "rewrite")
          /\ UNCHANGED outcome
     ELSE GiveBack(t, "block") /\ UNCHANGED location
  /\ KeepMemory /\ Stay
  /\ UNCHANGED <<msg, capacity, allocation, block>>

(* Three digits are enough for a byte, in both ways to write an address.   *)
ASSUME DigitsAssumption == \A radix \in {10, 16} : SizeMax < radix ^ (3 * SizeBytes)

(* Addresses are written in hexadecimal, and with the top bit set as       *)
(* negative decimal numbers.                                               *)
Digits(n, radix) == Min({k \in 1..(3 * SizeBytes) : n < radix ^ k})

AddressLen(addr) ==
  CASE addr = 0                 -> 1
    [] addr # 0 /\ ~HasBit(addr) -> 2 + Digits(addr, 16)
    [] HasBit(addr)             -> 1 + Digits(SizeMax + 1 - addr, 10)

Numeric(t) == {i \in DOMAIN location[t] : msg[t].locations[i].form = "numeric"}

(* A size after each of n changes, from none of them on.                   *)
Changed(first, change, n) ==
  LET upTo[k \in 0..n] == IF k = 0 THEN first ELSE upTo[k - 1] + change[k]
  IN  upTo

(* The rewritten text and its terminator.                                  *)
Longer(t) ==
  [i \in DOMAIN location[t] |->
     IF i \in Numeric(t)
     THEN AddressLen(location[t][i].dst_addr) - msg[t].locations[i].text ELSE 0]

TextSize(t) == Changed(msg[t].len + 1, Longer(t), Scanned(t))[Scanned(t)]

RewriteText(t) ==
  /\ pc[t] = "rewrite"
  /\ IF TextSize(t) <= capacity[t]
     THEN Goto(t, "copy") /\ UNCHANGED outcome
     ELSE GiveBack(t, "text")
  /\ KeepMemory /\ Stay
  /\ UNCHANGED <<msg, location, capacity, allocation, block>>

CopyPayloads(t) ==
  /\ pc[t] = "copy"
  /\ outcome' = [outcome EXCEPT ![t] = "delivered"]
  /\ Goto(t, "delivered")
  /\ KeepMemory /\ Stay
  /\ UNCHANGED <<msg, location, capacity, allocation, block>>

(* The block is freed by the transfer that cannot use it, or by whoever    *)
(* has ordered the transfer when the message has been processed.           *)
FreeTransferred(t) ==
  /\ pc[t] \in {"free", "delivered"}
  /\ \/ \E b \in live[Dst(t)] :
          b.owner = t /\ FreeBlock(t, Dst(t), b, "refused")
     \/ /\ block[t] \in BadBlocks
        /\ \A b \in live[Dst(t)] : b.owner # t
        /\ Goto(t, "refused")
        /\ UNCHANGED <<live, mutex, on, ret>>
  /\ block' = [block EXCEPT ![t] = 0]
  /\ UNCHANGED <<ctx, sample, size, current>>
  /\ UNCHANGED <<msg, location, capacity, allocation, outcome>>

EndTransfer(t) ==
  /\ pc[t] = "refused"
  /\ Goto(t, "idle")
  /\ msg' = [msg EXCEPT ![t] = NoMessage]
  /\ location' = [location EXCEPT ![t] = <<>>]
  /\ capacity' = [capacity EXCEPT ![t] = 0]
  /\ allocation' = [allocation EXCEPT ![t] = 0]
  /\ outcome' = [outcome EXCEPT ![t] = "none"]
  /\ size' = [size EXCEPT ![t] = 0]
  /\ UNCHANGED <<ctx, live, mutex, sample, block>> /\ Stay

-----------------------------------------------------------------------------

MemoryStep ==
  \/ \E g \in Guests : GuestAllocates(g) \/ GuestFrees(g)
  \/ \E t \in Threads : \/ KeepTail(t) \/ ShrinkTranslated(t) \/ ShrinkWasmtime(t)
                         \/ MarkReclaimable(t) \/ RefreshShrunk(t)
                         \/ SampleSize(t) \/ PublishSize(t) \/ ReadSize(t)
  \/ \E r \in Readers : BeginRead(r)
  \/ \E m \in Modules : Reclaim(m)

TransferStep(t) ==
  \/ BeginTransfer(t) \/ Measure(t) \/ Scan(t) \/ Resolve(t)
  \/ PlaceLocation(t) \/ ReserveText(t) \/ AlignText(t) \/ PackPayload(t)
  \/ AllocateBlock(t) \/ AllocateBadBlock(t) \/ CheckSize(t) \/ ValidateBlock(t)
  \/ RewriteText(t) \/ CopyPayloads(t) \/ FreeTransferred(t) \/ EndTransfer(t)

Next ==
  \/ MemoryStep /\ UNCHANGED transfer_vars
  \/ \E t \in Movers : TransferStep(t)

Spec == Init /\ [][Next]_vars

-----------------------------------------------------------------------------

Sizes == 0..SizeMax

Labels == Asking \cup
  {"idle", "freed", "mark", "shrunk", "measure", "scan", "resolve", "place", "reserve",
   "pack", "allocated", "validate", "rewrite", "copy", "free", "delivered", "refused"}

Reasons == {"none", "message", "metadata", "source", "space", "malloc", "block", "text",
            "delivered"}

Locks == {"alloc", "runner", "ctx"}

Blocks == [at : 0..Reserve, length : 0..Reserve, owner : Threads \cup {NoThread}]

Resolutions == [copy_size : Sizes, src_ptr : Sizes, inside : BOOLEAN, dst_addr : Sizes,
                copy_payload : BOOLEAN, payload_offset : Sizes]

(* Every variable is of its type, sizes being representable.               *)
TypeOK ==
  /\ ctx \in [Modules -> [type : Kinds, active : 0..Reserve, backed : 0..Reserve,
                           memory_size : 0..Reserve, memory_reclaim_pending : BOOLEAN]]
  /\ live \in [Modules -> SUBSET Blocks]
  /\ mutex \in [Modules -> [Locks -> Threads \cup {NoThread}]]
  /\ pc \in [Threads -> Labels] /\ ret \in [Threads -> Labels]
  /\ on \in [Threads -> Modules \cup {NoModule}]
  /\ sample \in [Threads -> 0..Reserve]
  /\ size \in [Threads -> 0..Reserve]
  /\ current \in [Threads -> SUBSET (0..Reserve)]
  /\ msg \in [Movers -> Messages \cup {NoMessage}]
  /\ location \in [Movers -> Seq(Resolutions)]
  /\ capacity \in [Movers -> Sizes]
  /\ allocation \in [Movers -> Sizes]
  /\ block \in [Movers -> Sizes]
  /\ outcome \in [Movers -> Reasons]

(* A size the host is told is one the memory has had since the host asked, *)
(* whoever else refreshes the cached size meanwhile: a stale sample does   *)
(* not overwrite a newer one.                                              *)
SizeIsCurrent ==
  \A t \in Threads : pc[t] = "read" => ctx[on[t]].memory_size \in current[t]

(* What has been allocated stays within the active and backed memory, in   *)
(* the face of shrinking by other threads and of reclamation.              *)
LiveBlocksBacked ==
  \A m \in Modules : \A b \in live[m] :
    b.at + b.length <= ctx[m].active /\ ctx[m].active <= ctx[m].backed

(* No pages stay backed behind the active memory, except of a shared       *)
(* memory whose reclamation is pending.                                    *)
IdlePagesPending ==
  \A m \in Modules : ctx[m].backed > RoundUp(ctx[m].active) =>
    \/ ctx[m].memory_reclaim_pending
    \/ \E t \in Threads : pc[t] = "mark" /\ on[t] = m

(* In a block about to be written, text and payloads are apart from each   *)
(* other, aligned, and within what has been allocated.                     *)
Payloads(t) == {i \in DOMAIN location[t] : location[t][i].copy_payload}

PayloadsSeparate ==
  \A t \in Movers : pc[t] \in {"rewrite", "copy", "delivered"} =>
    \A i \in Payloads(t) :
      LET l == location[t][i]
      IN  /\ l.payload_offset % PayloadAlignment = 0
          /\ l.payload_offset >= capacity[t]
          /\ l.payload_offset + l.copy_size <= allocation[t]
          /\ \A j \in Payloads(t) :
               \/ i = j
               \/ location[t][j].payload_offset >= l.payload_offset + l.copy_size
               \/ l.payload_offset >= location[t][j].payload_offset + location[t][j].copy_size

(* What a module means by an address, as an address of the host.           *)
Meaning(m, addr) ==
  IF IsNative(m) THEN addr
  ELSE IF Type(m) = "translated64" /\ HasBit(addr) THEN addr - HostAddressBit
  ELSE Base[m] + addr

(* The addresses of a delivered message mean the sender's bytes to the     *)
(* receiver, or the copy of just these bytes behind the text.              *)
AddressesMean ==
  \A t \in Movers : pc[t] = "delivered" =>
    \A i \in Numeric(t) :
      LET l    == location[t][i]
          sent == Meaning(Src(t), msg[t].locations[i].src_addr)
      IN  l.copy_size > 0 =>
            IF l.copy_payload
            THEN /\ l.src_ptr = sent
                 /\ Meaning(Dst(t), l.dst_addr) = Base[Dst(t)] + block[t] + l.payload_offset
            ELSE Meaning(Dst(t), l.dst_addr) = sent

(* While a transfer reads a sender's memory and writes the receiver's, the *)
(* bytes it touches are backed, whatever has happened to either memory     *)
(* since they were checked.                                                *)
Backed(m, ptr, n) == Base[m] <= ptr /\ ptr + n <= Base[m] + ctx[m].backed

AccessesBacked ==
  \A t \in Movers : pc[t] \in {"rewrite", "copy"} =>
    /\ Type(Dst(t)) # "native" =>
         Backed(Dst(t), Base[Dst(t)] + block[t], allocation[t])
    /\ \A i \in Payloads(t) : location[t][i].inside =>
         Backed(Src(t), location[t][i].src_ptr, location[t][i].copy_size)

(* A block that the allocator has given out is never taken for an invalid  *)
(* one, and the rewritten text always fits into its room.                  *)
BlocksRefusedForCause ==
  \A t \in Movers : outcome[t] = "block" => block[t] \in BadBlocks \cup {0}

RefusedForCause ==
  /\ BlocksRefusedForCause
  /\ \A t \in Movers : outcome[t] # "text"

(* Whatever becomes of a transfer, the block malloc has returned to it is  *)
(* passed to free.                                                         *)
BlocksReturned ==
  \A t \in Movers : pc[t] \in {"idle", "refused"} =>
    /\ block[t] = 0
    /\ \A m \in Modules : \A b \in live[m] : b.owner # t

-----------------------------------------------------------------------------
(* What makes these invariants inductive.                                  *)

(* A memory keeps its static data, and what is not translated its minimum  *)
(* and whole pages; the cached size of a translated memory is the size.    *)
MemoriesSound ==
  \A m \in Modules :
    /\ StaticBlock \in live[m]
    /\ IF Type(m) \in Translated
       THEN ctx[m].memory_size = ctx[m].active
       ELSE ctx[m].active >= InitialSize /\ ctx[m].active % PageSize = 0

(* The step a thread is at, or comes to as soon as it knows the size.      *)
At(t) == IF pc[t] \in Asking THEN ret[t] ELSE pc[t]

Shrinking == {"freed", "mark", "shrunk"}

(* Where a thread is, and what it comes back to.                           *)
ThreadsPlaced ==
  \A t \in Threads :
    /\ pc[t] \in Shrinking =>
         on[t] \in Modules /\ ret[t] = IF t \in Movers THEN "refused" ELSE "idle"
    /\ pc[t] \in Asking =>
         /\ on[t] \in Modules /\ Type(on[t]) # "native"
         /\ IF t \notin Movers THEN ret[t] = "idle"
            ELSE \/ ret[t] \in {"measure", "resolve"} /\ on[t] = Src(t)
                 \/ ret[t] \in {"place", "validate"} /\ on[t] = Dst(t)
    /\ pc[t] \in Asking \ {"read"} => Type(on[t]) \notin Translated
    /\ pc[t] = "mark" => Type(on[t]) = "shared"
    /\ pc[t] = "shrunk" => Type(on[t]) \in {"ordinary", "shared"}
    /\ t \notin Movers => pc[t] \in Asking \cup Shrinking \cup {"idle"}

Scanning == {"scan", "resolve", "place", "reserve"}
Holding  == {"allocated", "validate", "rewrite", "copy", "free", "delivered"}

(* How far a transfer has come with the locations of its message.          *)
MessagesInHand ==
  \A t \in Movers :
    /\ pc[t] # "idle" => msg[t] \in Messages
    /\ Scanned(t) <= Len(msg[t].locations)
    /\ At(t) \in {"idle", "measure"} => location[t] = <<>>
    /\ At(t) = "resolve" => Scanned(t) < Len(msg[t].locations) /\ Described(t).form = "numeric"
    /\ At(t) \in {"place", "reserve"} => Scanned(t) > 0
    /\ At(t) \in Scanning \cup Holding \cup {"pack"} => capacity[t] > 0
    /\ At(t) = "pack" \/ At(t) \in Holding => Scanned(t) = Len(msg[t].locations)

(* A transfer owns the block it has been given, and no other.              *)
BlockAddress(m, at) == IF Type(m) = "native" THEN Base[m] + at ELSE at

BlocksHeld ==
  \A t \in Movers :
    /\ \A m \in Modules : \A b \in live[m] : b.owner = t =>
         /\ At(t) \in Holding /\ m = Dst(t)
         /\ b.length = allocation[t] /\ block[t] = BlockAddress(m, b.at)
    /\ At(t) \in Holding =>
         \/ block[t] \in BadBlocks /\ Type(Dst(t)) # "native"
         \/ \E b \in live[Dst(t)] : b.owner = t
    /\ At(t) \notin Holding => block[t] = 0

(* The layout while it is made.                                            *)
Packed(t) == {i \in Payloads(t) : location[t][i].payload_offset # 0}

LaidOut ==
  \A t \in Movers :
    /\ At(t) \in Scanning => \A i \in DOMAIN location[t] : location[t][i].payload_offset = 0
    /\ At(t) = "pack" \/ At(t) \in Holding =>
         /\ allocation[t] >= AlignedUp(capacity[t])
         /\ \A i \in Packed(t) :
              LET l == location[t][i]
              IN  /\ l.payload_offset % PayloadAlignment = 0
                  /\ l.payload_offset >= capacity[t]
                  /\ l.payload_offset + l.copy_size <= allocation[t]
                  /\ \A j \in Packed(t) :
                       \/ i = j
                       \/ location[t][j].payload_offset >= l.payload_offset + l.copy_size
                       \/ l.payload_offset >= location[t][j].payload_offset
                                                + location[t][j].copy_size
    /\ At(t) \in Holding => Payloads(t) = Packed(t)

(* The room for the text is what has been reserved for the locations so    *)
(* far, each of which has at least the address that is written for it.     *)
Room(m) ==
  Changed(m.len + 1,
          [i \in DOMAIN m.locations |-> IF m.locations[i].form = "numeric"
                                        THEN Reserved(m.locations[i].text) ELSE 0],
          Len(m.locations))

RoomMade ==
  \A t \in Movers :
    /\ At(t) \in {"scan", "resolve"} => capacity[t] = Room(msg[t])[Scanned(t)]
    /\ At(t) \in {"place", "reserve"} =>
         /\ msg[t].locations[Scanned(t)].form = "numeric"
         /\ capacity[t] = Room(msg[t])[Scanned(t) - 1]
    /\ At(t) = "pack" \/ At(t) \in Holding => capacity[t] = Room(msg[t])[Scanned(t)]

(* What has been found out: from module m, of kind km, to module n, of     *)
(* kind kn, at step a, l being the i-th of k locations and d its           *)
(* description.                                                            *)

Means(m, km, addr) ==
  IF km = "native" THEN addr
  ELSE IF km = "translated64" /\ HasBit(addr) THEN addr - HostAddressBit
  ELSE Base[m] + addr

Known(m, km, n, kn, a, i, k, at, l, d) ==
  /\ l.inside => /\ km # "native"
                 /\ Inside(l.copy_size, d.src_addr, Reserve)
                 /\ l.src_ptr = Base[m] + d.src_addr
  /\ l.copy_payload => d.form = "numeric" /\ kn \notin {"native", "translated64"}
  /\ a = "place" /\ i = k => d.form = "numeric"
  /\ d.form = "numeric" =>
       /\ l.copy_size = d.copy_size
       /\ l.copy_size > 0 =>
            /\ l.src_ptr = Means(m, km, d.src_addr)
            /\ \/ l.copy_payload
               \/ Means(n, kn, l.dst_addr) = Means(m, km, d.src_addr)
               \/ a = "place" /\ i = k
  /\ a \in {"rewrite", "copy", "delivered"} /\ l.copy_payload =>
       l.dst_addr = at + l.payload_offset

AllKnown(m, km, n, kn, a, at, s, ds) ==
  a \in Scanning \cup Holding \cup {"pack"} =>
    \A i \in DOMAIN s : Known(m, km, n, kn, a, i, Len(s), at, s[i], ds[i])

KindOf(m) == IF m = Host THEN "native" ELSE Type(m)

UnderstoodBy(t) ==
  AllKnown(Src(t), KindOf(Src(t)), Dst(t), Type(Dst(t)), At(t), block[t], location[t],
           msg[t].locations)

Understood == \A t \in Movers : UnderstoodBy(t)

(* A thread that asks for a size knows of every size since, and holds the  *)
(* lock between its sample and the publication; what it publishes is       *)
(* therefore known to whoever has published before.                        *)
SamplesHeld ==
  \A t \in Threads : pc[t] \in Asking =>
    /\ ctx[on[t]].active \in current[t]
    /\ pc[t] \in {"publish", "publish_again"} =>
         /\ \A lock \in {"runner", "ctx"} : HeldForSample(on[t], lock) => mutex[on[t]][lock] = t
         /\ sample[t] \in current[t]
         /\ \A u \in Threads : pc[u] = "read" /\ on[u] = on[t] => sample[t] \in current[u]

(* The sizes a transfer may be told of reach beyond the end of its block.  *)
BlocksKnown ==
  \A t \in Movers, m \in Modules : \A b \in live[m] : b.owner = t /\ Type(m) # "native" =>
    /\ pc[t] \in Asking => \A s \in current[t] : s >= b.at + b.length
    /\ pc[t] = "validate" => size[t] >= b.at + b.length

(* A block found invalid is on its way to being freed.                     *)
BlockRefused ==
  \A t \in Movers : outcome[t] = "block" =>
    pc[t] \in {"free", "refused"} \cup Shrinking /\ block[t] \in BadBlocks \cup {0}

(* A block that is written lies within the reservation.                    *)
BlocksInside ==
  \A t \in Movers : At(t) \in {"rewrite", "copy", "delivered"} =>
    Type(Dst(t)) = "native" \/ Inside(allocation[t], block[t], Reserve)

-----------------------------------------------------------------------------
(* What the accesses to memory rely on.                                    *)

(* Senders keep what their messages point to while it is transferred: it   *)
(* is part of what a memory has from the beginning.                        *)
SourcesStatic ==
  \A m \in Messages : \A i \in DOMAIN m.locations :
    LET d == m.locations[i]
    IN  m.src # Host /\ Inside(d.copy_size, d.src_addr, Reserve) =>
          Inside(d.copy_size, d.src_addr, StaticData)

(* The addresses a faulty allocator makes up do not lie in the memory.     *)
BadBlocksOutside == \A at \in BadBlocks : at + PayloadAlignment > Reserve

(* No module runs under WAMR.                                              *)
WithoutWamr == \A kind \in Builds : \A m \in Modules : kind[m] # "wamr"

=============================================================================
