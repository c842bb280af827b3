------------------------ MODULE ThreadRegistryProofs ------------------------
(***************************************************************************)
(* Proofs about ThreadRegistry, for any number of callers, slots and IDs   *)
(* and for each backend.                                                   *)
(***************************************************************************)
EXTENDS ThreadRegistry, TLAPS

(* The ID counter wraps around to 0 and no earlier (size_t arithmetic).    *)
LEMMA NextIdWraps ==
  ASSUME NEW id \in 0..MaxId
  PROVE  NextId(id) = IF id = MaxId THEN 0 ELSE id + 1
  BY RegistryAssumption DEF NextId

(* How the sets the variables range over are related.                      *)
LEMMA Domains ==
  /\ NoRunner \notin Slots /\ 0 \notin Slots
  /\ 0 \notin ThreadIds /\ ThreadIds \subseteq 0..MaxId
  /\ Callers \subseteq Actors /\ ThreadIds \subseteq Actors
  BY RegistryAssumption DEF NoRunner, Slots, ThreadIds, Actors

(* A slot index is a valid registry length, and so is the one after it.    *)
LEMMA SlotBounds ==
  ASSUME NEW s \in Slots
  PROVE  s \in Initial..Capacity /\ s + 1 \in Initial..Capacity
  BY RegistryAssumption DEF Slots

(* An actor that has finished an operation is in a legal state.            *)
LEMMA FinishTypes ==
  ASSUME TypeOK, NEW a \in Actors, NEW next \in PcStates, Finish(a, next)
  PROVE  /\ pc' \in [Actors -> PcStates]
         /\ job' \in [Actors -> {"none", "create", "join", "stop"}]
         /\ slot' \in [Actors -> Slots \cup {NoRunner}]
         /\ tid' \in [Actors -> 0..MaxId]
         /\ got' \in [Actors -> Replies \cup {NoReply}]
<1>1. pc' \in [Actors -> PcStates]
  BY DEF TypeOK, Finish
<1>2. job' \in [Actors -> {"none", "create", "join", "stop"}]
  BY DEF TypeOK, Finish
<1>3. slot' \in [Actors -> Slots \cup {NoRunner}]
  BY DEF TypeOK, Finish
<1>4. tid' \in [Actors -> 0..MaxId]
  BY RegistryAssumption DEF TypeOK, Finish
<1>5. got' \in [Actors -> Replies \cup {NoReply}]
  BY DEF TypeOK, Finish
<1>6. QED
  BY <1>1, <1>2, <1>3, <1>4, <1>5

(* What a finished actor leaves behind.                                    *)
LEMMA FinishEffect ==
  ASSUME TypeOK, NEW a \in Actors, NEW next, Finish(a, next)
  PROVE  /\ pc'[a] = next /\ slot'[a] = NoRunner /\ tid'[a] = 0
         /\ got'[a] = NoReply
         /\ job'[a] = IF next = "idle" THEN "none" ELSE job[a]
         /\ \A b \in Actors \ {a} :
              /\ pc'[b] = pc[b] /\ slot'[b] = slot[b] /\ tid'[b] = tid[b]
              /\ got'[b] = got[b] /\ job'[b] = job[b]
  BY DEF TypeOK, Finish

-----------------------------------------------------------------------------
(* The invariant holds initially.                                          *)

LEMMA InitTypes == Init => TypeOK
<1> SUFFICES ASSUME Init PROVE TypeOK
  OBVIOUS
<1>1. runner \in [Slots -> Runner]
  BY RegistryAssumption DEF Init, FreeRunner, Runner
<1>2. next_thread_id \in 0..MaxId /\ runner_count \in Initial..Capacity
  BY RegistryAssumption DEF Init
<1>3. tid \in [Actors -> 0..MaxId]
  BY RegistryAssumption DEF Init
<1>4. pc \in [Actors -> PcStates] /\ job \in [Actors -> {"none", "create", "join", "stop"}]
  BY DEF Init, PcStates
<1>5. /\ at \in [Actors -> InitialRunners \cup Slots \cup {NoRunner}]
      /\ slot \in [Actors -> Slots \cup {NoRunner}]
      /\ got \in [Actors -> Replies \cup {NoReply}]
  BY DEF Init
<1>6. /\ os_thread \in [ThreadIds -> {"none", "running", "exited"}]
      /\ returned \in [ThreadIds -> Replies \cup {NoReply}]
  BY DEF Init
<1>7. QED
  BY <1>1, <1>2, <1>3, <1>4, <1>5, <1>6 DEF Init, TypeOK

LEMMA InitSlots == Init => SlotInv
<1>1. ASSUME Init PROVE ClaimInv /\ ExclusiveSlots /\ IdInv /\ UniqueIds
  BY <1>1, Domains DEF Init, ClaimInv, ExclusiveSlots, IdInv, UniqueIds, FreeRunner, Owning
<1>2. QED
  BY <1>1, InitTypes DEF SlotInv

-----------------------------------------------------------------------------
(* Each action preserves it.                                               *)

LEMMA ClaimSlotSlots ==
  ASSUME SlotInv, NEW a \in Actors, ClaimSlot(a)
  PROVE  SlotInv'
<1>0. TypeOK /\ ClaimInv /\ ExclusiveSlots /\ IdInv /\ UniqueIds
  BY DEF SlotInv
<1>1. PICK s \in Slots :
        /\ FirstFree(s)
        /\ runner' = [runner EXCEPT ![s] =
             [FreeRunner EXCEPT !.in_use = TRUE, !.creating = TRUE,
                                !.thread_id = next_thread_id]]
        /\ runner_count' = IF s < runner_count THEN runner_count ELSE s + 1
        /\ slot' = [slot EXCEPT ![a] = s]
  BY DEF ClaimSlot
<1>2. next_thread_id \in ThreadIds /\ next_thread_id' \in 0..MaxId
  BY <1>0, RegistryAssumption, NextIdWraps DEF ClaimSlot, TypeOK, ThreadIds
<1>3. \A i \in ThreadIds : Issued(i) => i # next_thread_id /\ Issued(i)'
  BY <1>0, RegistryAssumption, NextIdWraps DEF ClaimSlot, TypeOK, ThreadIds, Issued
<1>4. next_thread_id' = 0 \/ next_thread_id < next_thread_id'
  BY <1>0, <1>2, RegistryAssumption, NextIdWraps DEF ClaimSlot, TypeOK, ThreadIds, Issued
<1>5. /\ ~runner[s].in_use
      /\ \A t \in Slots \ {s} : runner'[t] = runner[t]
      /\ runner'[s] \in Runner
      /\ runner'[s].in_use /\ runner'[s].thread_id = next_thread_id
      /\ runner'[s].creating /\ ~runner'[s].joining
  BY <1>0, <1>1, <1>2, Domains DEF TypeOK, FirstFree, FreeRunner, Runner
<1>6. /\ pc[a] = "idle" /\ pc'[a] = "acquire" /\ job'[a] = "create"
      /\ slot'[a] = s /\ tid'[a] = next_thread_id
      /\ \A b \in Actors \ {a} :
           pc'[b] = pc[b] /\ slot'[b] = slot[b] /\ tid'[b] = tid[b] /\ job'[b] = job[b]
  BY <1>0, <1>1 DEF TypeOK, ClaimSlot, MayCommand
<1>7. TypeOK'
  <2>1. runner' \in [Slots -> Runner] /\ runner_count' \in Initial..Capacity
    BY <1>0, <1>1, <1>5, SlotBounds DEF TypeOK
  <2>2. /\ pc' \in [Actors -> PcStates] /\ tid' \in [Actors -> 0..MaxId]
        /\ slot' \in [Actors -> Slots \cup {NoRunner}]
        /\ job' \in [Actors -> {"none", "create", "join", "stop"}]
    BY <1>0, <1>1, <1>2, Domains DEF TypeOK, ClaimSlot, PcStates
  <2>3. QED
    BY <1>0, <1>2, <2>1, <2>2 DEF TypeOK, ClaimSlot
<1>8. ClaimInv' /\ ExclusiveSlots'
  BY <1>0, <1>1, <1>5, <1>6, Domains DEF ClaimInv, ExclusiveSlots, Owning
<1>9. IdInv' /\ UniqueIds'
  BY <1>0, <1>1, <1>2, <1>3, <1>4, <1>5 DEF IdInv, UniqueIds, Issued
<1>10. QED
  BY <1>7, <1>8, <1>9 DEF SlotInv

LEMMA ClaimFailsSlots ==
  ASSUME SlotInv, NEW a \in Actors, ClaimFails(a)
  PROVE  SlotInv'
<1>0. TypeOK /\ ClaimInv /\ ExclusiveSlots /\ IdInv /\ UniqueIds
  BY DEF SlotInv
<1>2. TypeOK'
  BY <1>0, SlotBounds DEF ClaimFails, TypeOK, registryVars, actorVars
<1>3. UNCHANGED <<runner, slot, tid, job, pc, next_thread_id>>
  BY DEF ClaimFails, registryVars, actorVars
<1>4. ClaimInv' /\ ExclusiveSlots' /\ IdInv' /\ UniqueIds'
  BY <1>0, <1>3 DEF ClaimInv, ExclusiveSlots, IdInv, UniqueIds, Issued
<1>5. QED
  BY <1>2, <1>4 DEF SlotInv

LEMMA AcquireSlots ==
  ASSUME SlotInv, NEW a \in Actors, Acquire(a)
  PROVE  SlotInv'
<1>0. TypeOK /\ ClaimInv /\ ExclusiveSlots /\ IdInv /\ UniqueIds
  BY DEF SlotInv
<1>1. slot[a] \in Slots /\ tid[a] \in ThreadIds /\ runner[slot[a]] \in Runner
  BY <1>0 DEF TypeOK, ClaimInv, IdInv, Owning, Acquire
<1>2. TypeOK'
  BY <1>0, <1>1 DEF Acquire, TypeOK, registryVars, actorVars, StepNames
<1>3. UNCHANGED <<runner, slot, tid, job, pc, next_thread_id>>
  BY DEF Acquire, registryVars, actorVars
<1>4. ClaimInv' /\ ExclusiveSlots' /\ IdInv' /\ UniqueIds'
  BY <1>0, <1>3 DEF ClaimInv, ExclusiveSlots, IdInv, UniqueIds, Issued
<1>5. QED
  BY <1>2, <1>4 DEF SlotInv

LEMMA AcquireFailsSlots ==
  ASSUME SlotInv, NEW a \in Actors, AcquireFails(a)
  PROVE  SlotInv'
<1>0. TypeOK /\ ClaimInv /\ ExclusiveSlots /\ IdInv /\ UniqueIds
  BY DEF SlotInv
<1>1. slot[a] \in Slots /\ tid[a] \in ThreadIds /\ runner[slot[a]] \in Runner
  BY <1>0 DEF TypeOK, ClaimInv, IdInv, Owning, AcquireFails
<1>2. TypeOK'
  BY <1>0, <1>1 DEF AcquireFails, TypeOK, registryVars, actorVars, StepNames, PcStates
<1>3. /\ UNCHANGED <<runner, slot, tid, job, next_thread_id>>
      /\ pc[a] = "acquire" /\ pc'[a] = "release" /\ \A b \in Actors \ {a} : pc'[b] = pc[b]
  BY <1>0 DEF AcquireFails, TypeOK, registryVars
<1>4. ClaimInv' /\ ExclusiveSlots' /\ IdInv' /\ UniqueIds'
  BY <1>0, <1>3 DEF ClaimInv, ExclusiveSlots, IdInv, UniqueIds, Issued, Owning
<1>5. QED
  BY <1>2, <1>4 DEF SlotInv

LEMMA StartThreadSlots ==
  ASSUME SlotInv, NEW a \in Actors, StartThread(a)
  PROVE  SlotInv'
<1>0. TypeOK /\ ClaimInv /\ ExclusiveSlots /\ IdInv /\ UniqueIds
  BY DEF SlotInv
<1>1. slot[a] \in Slots /\ tid[a] \in ThreadIds /\ runner[slot[a]] \in Runner
  BY <1>0 DEF TypeOK, ClaimInv, IdInv, Owning, StartThread
<1>2. TypeOK'
  BY <1>0, <1>1 DEF StartThread, TypeOK, registryVars, actorVars, PcStates
<1>3. /\ UNCHANGED <<runner, slot, tid, job, next_thread_id>>
      /\ pc[a] = "acquire" /\ pc'[a] = "publish" /\ \A b \in Actors \ {a} : pc'[b] = pc[b]
  BY <1>0 DEF StartThread, TypeOK, registryVars
<1>4. ClaimInv' /\ ExclusiveSlots' /\ IdInv' /\ UniqueIds'
  BY <1>0, <1>3 DEF ClaimInv, ExclusiveSlots, IdInv, UniqueIds, Issued, Owning
<1>5. QED
  BY <1>2, <1>4 DEF SlotInv

LEMMA StartFailsSlots ==
  ASSUME SlotInv, NEW a \in Actors, StartFails(a)
  PROVE  SlotInv'
<1>0. TypeOK /\ ClaimInv /\ ExclusiveSlots /\ IdInv /\ UniqueIds
  BY DEF SlotInv
<1>1. slot[a] \in Slots /\ tid[a] \in ThreadIds /\ runner[slot[a]] \in Runner
  BY <1>0 DEF TypeOK, ClaimInv, IdInv, Owning, StartFails
<1>2. TypeOK'
  BY <1>0, <1>1 DEF StartFails, TypeOK, registryVars, actorVars, PcStates
<1>3. /\ UNCHANGED <<runner, slot, tid, job, next_thread_id>>
      /\ pc[a] = "acquire" /\ pc'[a] = "release" /\ \A b \in Actors \ {a} : pc'[b] = pc[b]
  BY <1>0 DEF StartFails, TypeOK, registryVars
<1>4. ClaimInv' /\ ExclusiveSlots' /\ IdInv' /\ UniqueIds'
  BY <1>0, <1>3 DEF ClaimInv, ExclusiveSlots, IdInv, UniqueIds, Issued, Owning
<1>5. QED
  BY <1>2, <1>4 DEF SlotInv

LEMMA FreeResourcesSlots ==
  ASSUME SlotInv, NEW a \in Actors, FreeResources(a)
  PROVE  SlotInv'
<1>0. TypeOK /\ ClaimInv /\ ExclusiveSlots /\ IdInv /\ UniqueIds
  BY DEF SlotInv
<1>1. slot[a] \in Slots /\ tid[a] \in ThreadIds /\ runner[slot[a]] \in Runner
  BY <1>0 DEF TypeOK, ClaimInv, IdInv, Owning, FreeResources
<1>2. TypeOK'
  BY <1>0, <1>1 DEF FreeResources, TypeOK, registryVars, actorVars, PcStates
<1>3. /\ UNCHANGED <<runner, slot, tid, job, next_thread_id>>
      /\ pc[a] = "release" /\ pc'[a] = "clear" /\ \A b \in Actors \ {a} : pc'[b] = pc[b]
  BY <1>0 DEF FreeResources, TypeOK, registryVars
<1>4. ClaimInv' /\ ExclusiveSlots' /\ IdInv' /\ UniqueIds'
  BY <1>0, <1>3 DEF ClaimInv, ExclusiveSlots, IdInv, UniqueIds, Issued, Owning
<1>5. QED
  BY <1>2, <1>4 DEF SlotInv

LEMMA SendStopSlots ==
  ASSUME SlotInv, NEW a \in Actors, SendStop(a)
  PROVE  SlotInv'
<1>0. TypeOK /\ ClaimInv /\ ExclusiveSlots /\ IdInv /\ UniqueIds
  BY DEF SlotInv
<1>2. TypeOK'
  BY <1>0 DEF SendStop, TypeOK, registryVars, actorVars, PcStates
<1>3. /\ UNCHANGED <<runner, slot, tid, job, next_thread_id>>
      /\ pc[a] = "notify" /\ pc'[a] = "scan" /\ \A b \in Actors \ {a} : pc'[b] = pc[b]
  BY <1>0 DEF SendStop, TypeOK, registryVars
<1>4. ClaimInv' /\ ExclusiveSlots' /\ IdInv' /\ UniqueIds'
  BY <1>0, <1>3 DEF ClaimInv, ExclusiveSlots, IdInv, UniqueIds, Issued, Owning
<1>5. QED
  BY <1>2, <1>4 DEF SlotInv

LEMMA PublishThreadSlots ==
  ASSUME SlotInv, NEW a \in Actors, PublishThread(a)
  PROVE  SlotInv'
<1>0. TypeOK /\ ClaimInv /\ ExclusiveSlots /\ IdInv /\ UniqueIds
  BY DEF SlotInv
<1>1. slot[a] \in Slots /\ tid[a] \in ThreadIds /\ runner[slot[a]] \in Runner
  BY <1>0 DEF TypeOK, ClaimInv, IdInv, Owning, PublishThread
<1>2. /\ pc[a] = "publish" /\ runner'[slot[a]] \in Runner
      /\ \A s \in Slots :
           /\ s # slot[a] => runner'[s] = runner[s]
           /\ runner'[s].in_use = runner[s].in_use
           /\ runner'[s].thread_id = runner[s].thread_id
      /\ UNCHANGED next_thread_id
  BY <1>0, <1>1, RegistryAssumption DEF PublishThread, TypeOK, Runner
<1>3. /\ pc'[a] \notin Owning /\ slot'[a] = NoRunner
      /\ \A b \in Actors \ {a} :
           pc'[b] = pc[b] /\ slot'[b] = slot[b] /\ tid'[b] = tid[b] /\ job'[b] = job[b]
      /\ pc'[a] \in {"notify", "scan", "picked"} => job'[a] = "stop"
  BY <1>0, FinishEffect DEF ClaimInv, PublishThread, Owning, TypeOK
<1>4. TypeOK'
  <2>1. runner' \in [Slots -> Runner]
    BY <1>0, <1>1, <1>2 DEF TypeOK, PublishThread
  <2>2. QED
    BY <1>0, <1>1, <2>1, FinishTypes DEF TypeOK, PublishThread, PcStates
<1>5. ClaimInv' /\ ExclusiveSlots'
  BY <1>0, <1>1, <1>2, <1>3, Domains DEF ClaimInv, ExclusiveSlots, Owning
<1>6. IdInv' /\ UniqueIds'
  BY <1>0, <1>2 DEF IdInv, UniqueIds, Issued
<1>7. QED
  BY <1>4, <1>5, <1>6 DEF SlotInv

LEMMA JoinReturnsSlots ==
  ASSUME SlotInv, NEW a \in Actors, JoinReturns(a)
  PROVE  SlotInv'
<1>0. TypeOK /\ ClaimInv /\ ExclusiveSlots /\ IdInv /\ UniqueIds
  BY DEF SlotInv
<1>1. slot[a] \in Slots /\ tid[a] \in ThreadIds /\ runner[slot[a]] \in Runner
  BY <1>0 DEF TypeOK, ClaimInv, IdInv, Owning, JoinReturns
<1>2. /\ pc[a] = "join" /\ runner'[slot[a]] \in Runner
      /\ \A s \in Slots :
           /\ s # slot[a] => runner'[s] = runner[s]
           /\ runner'[s].in_use = runner[s].in_use
           /\ runner'[s].thread_id = runner[s].thread_id
           /\ runner'[s].creating = runner[s].creating
           /\ runner'[s].joining = runner[s].joining
      /\ UNCHANGED next_thread_id
  BY <1>0, <1>1, RegistryAssumption DEF JoinReturns, TypeOK, Runner, Taken
<1>3. /\ UNCHANGED <<slot, tid, job>>
      /\ pc'[a] = "release" /\ \A b \in Actors \ {a} : pc'[b] = pc[b]
  BY <1>0 DEF JoinReturns, TypeOK
<1>4. TypeOK'
  <2>1. runner' \in [Slots -> Runner]
    BY <1>0, <1>1, <1>2 DEF TypeOK, JoinReturns
  <2>2. QED
    BY <1>0, <1>1, <2>1 DEF TypeOK, JoinReturns, PcStates, Runner
<1>5. ClaimInv' /\ ExclusiveSlots'
  BY <1>0, <1>1, <1>2, <1>3, Domains DEF ClaimInv, ExclusiveSlots, Owning
<1>6. IdInv' /\ UniqueIds'
  BY <1>0, <1>2 DEF IdInv, UniqueIds, Issued
<1>7. QED
  BY <1>4, <1>5, <1>6 DEF SlotInv

LEMMA JoinFailsSlots ==
  ASSUME SlotInv, NEW a \in Actors, JoinFails(a)
  PROVE  SlotInv'
<1>0. TypeOK /\ ClaimInv /\ ExclusiveSlots /\ IdInv /\ UniqueIds
  BY DEF SlotInv
<1>1. slot[a] \in Slots /\ tid[a] \in ThreadIds /\ runner[slot[a]] \in Runner
  BY <1>0 DEF TypeOK, ClaimInv, IdInv, Owning, JoinFails
<1>2. /\ pc[a] = "join" /\ runner'[slot[a]] \in Runner
      /\ \A s \in Slots :
           /\ s # slot[a] => runner'[s] = runner[s]
           /\ runner'[s].in_use = runner[s].in_use
           /\ runner'[s].thread_id = runner[s].thread_id
      /\ UNCHANGED next_thread_id
  BY <1>0, <1>1, RegistryAssumption DEF JoinFails, TypeOK, Runner
<1>3. /\ pc'[a] \notin Owning /\ slot'[a] = NoRunner
      /\ \A b \in Actors \ {a} :
           pc'[b] = pc[b] /\ slot'[b] = slot[b] /\ tid'[b] = tid[b] /\ job'[b] = job[b]
      /\ pc'[a] \in {"notify", "scan", "picked"} => job'[a] = "stop"
  BY <1>0, FinishEffect DEF ClaimInv, JoinFails, AfterJob, Owning, TypeOK
<1>4. TypeOK'
  <2>1. runner' \in [Slots -> Runner]
    BY <1>0, <1>1, <1>2 DEF TypeOK, JoinFails
  <2>2. QED
    BY <1>0, <1>1, <2>1, FinishTypes DEF TypeOK, JoinFails, PcStates, AfterJob
<1>5. ClaimInv' /\ ExclusiveSlots'
  BY <1>0, <1>1, <1>2, <1>3, Domains DEF ClaimInv, ExclusiveSlots, Owning
<1>6. IdInv' /\ UniqueIds'
  BY <1>0, <1>2 DEF IdInv, UniqueIds, Issued
<1>7. QED
  BY <1>4, <1>5, <1>6 DEF SlotInv

LEMMA ClearSlotSlots ==
  ASSUME SlotInv, NEW a \in Actors, ClearSlot(a)
  PROVE  SlotInv'
<1>0. TypeOK /\ ClaimInv /\ ExclusiveSlots /\ IdInv /\ UniqueIds
  BY DEF SlotInv
<1>1. slot[a] \in Slots /\ tid[a] \in ThreadIds /\ runner[slot[a]] \in Runner
  BY <1>0 DEF TypeOK, ClaimInv, IdInv, Owning, ClearSlot
<1>2. /\ pc[a] = "clear" /\ runner'[slot[a]] \in Runner
      /\ \A s \in Slots :
           /\ s # slot[a] => runner'[s] = runner[s]
           /\ s = slot[a] => ~runner'[s].in_use
      /\ UNCHANGED next_thread_id
  BY <1>0, <1>1, RegistryAssumption DEF ClearSlot, TypeOK, Runner, FreeRunner
<1>3. /\ pc'[a] \notin Owning /\ slot'[a] = NoRunner
      /\ \A b \in Actors \ {a} :
           pc'[b] = pc[b] /\ slot'[b] = slot[b] /\ tid'[b] = tid[b] /\ job'[b] = job[b]
      /\ pc'[a] \in {"notify", "scan", "picked"} => job'[a] = "stop"
  BY <1>0, FinishEffect DEF ClaimInv, ClearSlot, AfterJob, Owning, TypeOK
<1>4. TypeOK'
  <2>1. runner' \in [Slots -> Runner]
    BY <1>0, <1>1, <1>2 DEF TypeOK, ClearSlot
  <2>2. QED
    BY <1>0, <1>1, <2>1, FinishTypes DEF TypeOK, ClearSlot, PcStates, AfterJob
<1>5. ClaimInv' /\ ExclusiveSlots'
  BY <1>0, <1>1, <1>2, <1>3, Domains DEF ClaimInv, ExclusiveSlots, Owning
<1>6. IdInv' /\ UniqueIds'
  BY <1>0, <1>2 DEF IdInv, UniqueIds, Issued
<1>7. QED
  BY <1>4, <1>5, <1>6 DEF SlotInv

LEMMA DestroyHostSlots ==
  ASSUME SlotInv, NEW a \in Actors, DestroyHost(a)
  PROVE  SlotInv'
<1>0. TypeOK /\ ClaimInv /\ ExclusiveSlots /\ IdInv /\ UniqueIds
  BY DEF SlotInv
<1>1. pc[a] = "destroy" /\ UNCHANGED <<runner, next_thread_id>>
  BY DEF DestroyHost, registryVars
<1>2. TypeOK'
  BY <1>0, FinishTypes DEF TypeOK, DestroyHost, PcStates, AfterJob, registryVars
<1>3. /\ pc'[a] \notin Owning /\ slot'[a] = NoRunner
      /\ \A b \in Actors \ {a} :
           pc'[b] = pc[b] /\ slot'[b] = slot[b] /\ tid'[b] = tid[b] /\ job'[b] = job[b]
      /\ pc'[a] \in {"notify", "scan", "picked"} => job'[a] = "stop"
  BY <1>0, FinishEffect DEF ClaimInv, DestroyHost, AfterJob, Owning, TypeOK
<1>4. ClaimInv' /\ ExclusiveSlots' /\ IdInv' /\ UniqueIds'
  BY <1>0, <1>1, <1>3, Domains DEF ClaimInv, ExclusiveSlots, IdInv, UniqueIds, Issued, Owning
<1>5. QED
  BY <1>2, <1>4 DEF SlotInv

LEMMA MissPickedSlots ==
  ASSUME SlotInv, NEW a \in Actors, MissPicked(a)
  PROVE  SlotInv'
<1>0. TypeOK /\ ClaimInv /\ ExclusiveSlots /\ IdInv /\ UniqueIds
  BY DEF SlotInv
<1>1. UNCHANGED <<runner, next_thread_id>>
  BY DEF MissPicked, registryVars
<1>2. TypeOK'
  BY <1>0, FinishTypes DEF TypeOK, MissPicked, PcStates, registryVars
<1>3. /\ pc'[a] \notin Owning /\ slot'[a] = NoRunner
      /\ \A b \in Actors \ {a} :
           pc'[b] = pc[b] /\ slot'[b] = slot[b] /\ tid'[b] = tid[b] /\ job'[b] = job[b]
      /\ pc'[a] \in {"notify", "scan", "picked"} => job'[a] = "stop"
  BY <1>0, FinishEffect DEF ClaimInv, MissPicked, Owning, TypeOK
<1>4. ClaimInv' /\ ExclusiveSlots' /\ IdInv' /\ UniqueIds'
  BY <1>0, <1>1, <1>3, Domains DEF ClaimInv, ExclusiveSlots, IdInv, UniqueIds, Issued, Owning
<1>5. QED
  BY <1>2, <1>4 DEF SlotInv

LEMMA EndShutdownSlots ==
  ASSUME SlotInv, NEW a \in Actors, EndShutdown(a)
  PROVE  SlotInv'
<1>0. TypeOK /\ ClaimInv /\ ExclusiveSlots /\ IdInv /\ UniqueIds
  BY DEF SlotInv
<1>1. UNCHANGED <<runner, next_thread_id>>
  BY DEF EndShutdown, registryVars
<1>2. TypeOK'
  BY <1>0, FinishTypes DEF TypeOK, EndShutdown, PcStates, registryVars
<1>3. /\ pc'[a] \notin Owning /\ slot'[a] = NoRunner
      /\ \A b \in Actors \ {a} :
           pc'[b] = pc[b] /\ slot'[b] = slot[b] /\ tid'[b] = tid[b] /\ job'[b] = job[b]
      /\ pc'[a] \in {"notify", "scan", "picked"} => job'[a] = "stop"
  BY <1>0, FinishEffect DEF ClaimInv, EndShutdown, Owning, TypeOK
<1>4. ClaimInv' /\ ExclusiveSlots' /\ IdInv' /\ UniqueIds'
  BY <1>0, <1>1, <1>3, Domains DEF ClaimInv, ExclusiveSlots, IdInv, UniqueIds, Issued, Owning
<1>5. QED
  BY <1>2, <1>4 DEF SlotInv

(* Claiming a thread for a join, by guest code or by a shutdown.           *)
LEMMA ClaimSlots ==
  ASSUME SlotInv, NEW a \in Actors, NEW s \in Slots, NEW id,
         pc[a] \notin Owning, Joinable(a, s, id), Claim(a, s),
         job'[a] \in {"join", "stop"}, \A b \in Actors \ {a} : job'[b] = job[b],
         UNCHANGED next_thread_id
  PROVE  /\ ClaimInv' /\ ExclusiveSlots' /\ IdInv' /\ UniqueIds'
         /\ runner' \in [Slots -> Runner]
         /\ slot' \in [Actors -> Slots \cup {NoRunner}]
         /\ tid' \in [Actors -> 0..MaxId]
         /\ pc' \in [Actors -> PcStates]
<1>0. TypeOK /\ ClaimInv /\ ExclusiveSlots /\ IdInv /\ UniqueIds
  BY DEF SlotInv
<1>1. runner[s] \in Runner /\ runner[s].thread_id \in ThreadIds
  BY <1>0 DEF TypeOK, IdInv, Joinable
<1>2. /\ runner'[s] \in Runner
      /\ runner'[s].joining /\ ~runner[s].joining
      /\ ~runner[s].creating /\ runner[s].in_use
      /\ \A t \in Slots :
           /\ t # s => runner'[t] = runner[t]
           /\ runner'[t].in_use = runner[t].in_use
           /\ runner'[t].thread_id = runner[t].thread_id
           /\ runner'[t].creating = runner[t].creating
  BY <1>0, <1>1 DEF Claim, Joinable, TypeOK, Runner
<1>3. /\ slot'[a] = s /\ pc'[a] = "join" /\ tid'[a] = runner[s].thread_id
      /\ \A b \in Actors \ {a} :
           slot'[b] = slot[b] /\ pc'[b] = pc[b] /\ tid'[b] = tid[b]
  BY <1>0 DEF Claim, TypeOK
<1>4. /\ runner' \in [Slots -> Runner]
      /\ slot' \in [Actors -> Slots \cup {NoRunner}]
      /\ tid' \in [Actors -> 0..MaxId]
      /\ pc' \in [Actors -> PcStates]
  BY <1>0, <1>1, <1>2, Domains DEF Claim, TypeOK, PcStates
<1>5. ClaimInv' /\ ExclusiveSlots'
  BY <1>0, <1>1, <1>2, <1>3, Domains DEF ClaimInv, ExclusiveSlots, Owning
<1>6. IdInv' /\ UniqueIds'
  BY <1>0, <1>2 DEF IdInv, UniqueIds, Issued
<1>7. QED
  BY <1>4, <1>5, <1>6

LEMMA ClaimJoinSlots ==
  ASSUME SlotInv, NEW a \in Actors, ClaimJoin(a)
  PROVE  SlotInv'
<1>0. TypeOK /\ ClaimInv /\ ExclusiveSlots /\ IdInv /\ UniqueIds
  BY DEF SlotInv
<1>1. PICK s \in Slots, id \in ThreadIds : Joinable(a, s, id) /\ Claim(a, s)
  BY DEF ClaimJoin
<1>2. /\ pc[a] \notin Owning /\ job'[a] = "join"
      /\ \A b \in Actors \ {a} : job'[b] = job[b]
      /\ UNCHANGED next_thread_id
  BY <1>0 DEF ClaimJoin, MayCommand, Owning, TypeOK
<1>3. QED
  BY <1>0, <1>1, <1>2, ClaimSlots DEF SlotInv, TypeOK, ClaimJoin

LEMMA JoinPickedSlots ==
  ASSUME SlotInv, NEW a \in Actors, JoinPicked(a)
  PROVE  SlotInv'
<1>0. /\ TypeOK /\ ClaimInv /\ ExclusiveSlots /\ IdInv /\ UniqueIds
  BY DEF SlotInv
<1>1. PICK s \in Slots : Joinable(a, s, tid[a]) /\ Claim(a, s)
  BY DEF JoinPicked
<1>2. /\ pc[a] \notin Owning /\ job'[a] = "stop"
      /\ \A b \in Actors \ {a} : job'[b] = job[b]
      /\ UNCHANGED next_thread_id
  BY <1>0 DEF JoinPicked, ClaimInv, Owning, TypeOK
<1>3. QED
  BY <1>0, <1>1, <1>2, ClaimSlots DEF SlotInv, TypeOK, JoinPicked

LEMMA BeginShutdownSlots ==
  ASSUME SlotInv, NEW a \in Actors, BeginShutdown(a)
  PROVE  SlotInv'
<1>0. TypeOK /\ ClaimInv /\ ExclusiveSlots /\ IdInv /\ UniqueIds
  BY DEF SlotInv
<1>1. TypeOK'
  BY <1>0 DEF TypeOK, BeginShutdown, PcStates
<1>2. /\ UNCHANGED <<runner, next_thread_id, slot, tid>>
      /\ pc[a] \notin Owning /\ pc'[a] \in {"notify", "scan"} /\ job'[a] = "stop"
      /\ \A b \in Actors \ {a} : pc'[b] = pc[b] /\ job'[b] = job[b]
  BY <1>0 DEF BeginShutdown, Owning, TypeOK
<1>3. ClaimInv' /\ ExclusiveSlots' /\ IdInv' /\ UniqueIds'
  BY <1>0, <1>2 DEF ClaimInv, ExclusiveSlots, IdInv, UniqueIds, Issued, Owning
<1>4. QED
  BY <1>1, <1>3 DEF SlotInv

LEMMA PickThreadSlots ==
  ASSUME SlotInv, NEW a \in Actors, PickThread(a)
  PROVE  SlotInv'
<1>0. TypeOK /\ ClaimInv /\ ExclusiveSlots /\ IdInv /\ UniqueIds
  BY DEF SlotInv
<1>1. PICK s \in Slots : Unclaimed(s) /\ tid' = [tid EXCEPT ![a] = runner[s].thread_id]
  BY DEF PickThread
<1>2. TypeOK'
  BY <1>0, <1>1, Domains DEF TypeOK, PickThread, PcStates, IdInv, Unclaimed, registryVars
<1>3. /\ UNCHANGED <<runner, next_thread_id, slot, job>>
      /\ pc[a] = "scan" /\ pc'[a] = "picked"
      /\ \A b \in Actors \ {a} : pc'[b] = pc[b] /\ tid'[b] = tid[b]
  BY <1>0, <1>1 DEF PickThread, TypeOK, registryVars
<1>4. ClaimInv' /\ ExclusiveSlots' /\ IdInv' /\ UniqueIds'
  BY <1>0, <1>3 DEF ClaimInv, ExclusiveSlots, IdInv, UniqueIds, Issued, Owning
<1>5. QED
  BY <1>2, <1>4 DEF SlotInv

(* Workers returning, and actors entering and leaving the module.          *)
LEMMA WorkerReturnSlots ==
  ASSUME SlotInv, NEW i \in ThreadIds, WorkerReturn(i)
  PROVE  SlotInv'
<1>0. TypeOK /\ ClaimInv /\ ExclusiveSlots /\ IdInv /\ UniqueIds
  BY DEF SlotInv
<1>1. PICK r \in Replies \cup {NoReply} :
        /\ returned' = [returned EXCEPT ![i] = r]
        /\ runner' = [runner EXCEPT ![at[i]].thread_reply = r]
  BY DEF WorkerReturn
<1>2. /\ runner' \in [Slots -> Runner]
      /\ \A s \in Slots :
           /\ runner'[s].in_use = runner[s].in_use
           /\ runner'[s].thread_id = runner[s].thread_id
           /\ runner'[s].creating = runner[s].creating
           /\ runner'[s].joining = runner[s].joining
      /\ UNCHANGED <<next_thread_id, slot, tid, job, pc>>
  BY <1>0, <1>1 DEF WorkerReturn, TypeOK, Runner, actorVars
<1>3. TypeOK'
  BY <1>0, <1>1, <1>2 DEF TypeOK, WorkerReturn, actorVars
<1>4. ClaimInv' /\ ExclusiveSlots' /\ IdInv' /\ UniqueIds'
  BY <1>0, <1>2 DEF ClaimInv, ExclusiveSlots, IdInv, UniqueIds, Issued
<1>5. QED
  BY <1>3, <1>4 DEF SlotInv

LEMMA MoveSlots ==
  ASSUME SlotInv,
         \/ \E c \in Callers : EnterModule(c) \/ LeaveModule(c)
         \/ \E i \in ThreadIds : ReenterModule(i) \/ ReturnFromReentry(i)
  PROVE  SlotInv'
<1>0. TypeOK /\ ClaimInv /\ ExclusiveSlots /\ IdInv /\ UniqueIds
  BY DEF SlotInv
<1>1. UNCHANGED <<registryVars, actorVars, heap, os_thread, returned, stop_requested, closed>>
  BY DEF EnterModule, LeaveModule, ReenterModule, ReturnFromReentry
<1>2. at' \in [Actors -> InitialRunners \cup Slots \cup {NoRunner}]
  BY <1>0, RegistryAssumption DEF TypeOK, EnterModule, LeaveModule, ReenterModule,
     ReturnFromReentry, InitialRunners
<1>3. TypeOK'
  BY <1>0, <1>1, <1>2 DEF TypeOK, registryVars, actorVars
<1>4. ClaimInv' /\ ExclusiveSlots' /\ IdInv' /\ UniqueIds'
  BY <1>0, <1>1 DEF ClaimInv, ExclusiveSlots, IdInv, UniqueIds, Issued, registryVars, actorVars
<1>5. QED
  BY <1>3, <1>4 DEF SlotInv

LEMMA StutterSlots == SlotInv /\ UNCHANGED vars => SlotInv'
  BY DEF SlotInv, TypeOK, ClaimInv, ExclusiveSlots, IdInv, UniqueIds, Issued, vars

LEMMA NextSlots == SlotInv /\ [Next]_vars => SlotInv'
<1> SUFFICES ASSUME SlotInv, Next PROVE SlotInv'
  BY StutterSlots
<1>1. CASE \E a \in Actors : ClaimSlot(a) \/ ClaimFails(a) \/ CreateStep(a)
  BY <1>1, ClaimSlotSlots, ClaimFailsSlots, AcquireSlots, AcquireFailsSlots,
     StartThreadSlots, StartFailsSlots, PublishThreadSlots DEF CreateStep
<1>2. CASE \E a \in Actors : ClaimJoin(a) \/ JoinReturns(a) \/ JoinFails(a) \/ DeleteStep(a)
  BY <1>2, ClaimJoinSlots, JoinReturnsSlots, JoinFailsSlots, FreeResourcesSlots,
     ClearSlotSlots, DestroyHostSlots DEF DeleteStep
<1>3. CASE \E c \in Callers : BeginShutdown(c) \/ ShutdownStep(c)
  BY <1>3, Domains, BeginShutdownSlots, SendStopSlots, PickThreadSlots,
     JoinPickedSlots, MissPickedSlots, EndShutdownSlots DEF ShutdownStep
<1>4. CASE \E i \in ThreadIds : WorkerReturn(i)
  BY <1>4, WorkerReturnSlots
<1>5. CASE \/ \E c \in Callers : EnterModule(c) \/ LeaveModule(c)
           \/ \E i \in ThreadIds : ReenterModule(i) \/ ReturnFromReentry(i)
  BY <1>5, MoveSlots
<1>6. QED
  BY <1>1, <1>2, <1>3, <1>4, <1>5 DEF Next

-----------------------------------------------------------------------------

(* Who works on which slot, in every reachable state.                      *)
THEOREM SlotsInvariant == Spec => []SlotInv
<1>1. Init => SlotInv
  BY InitSlots
<1>2. SlotInv /\ [Next]_vars => SlotInv'
  BY NextSlots
<1>3. QED
  BY <1>1, <1>2, PTL DEF Spec

(* Type correctness: in particular the ID counter stays within a size_t.   *)
THEOREM TypesInvariant == Spec => []TypeOK
<1>1. SlotInv => TypeOK
  BY DEF SlotInv
<1>2. QED
  BY <1>1, SlotsInvariant, PTL

(* No two creations, joins or shutdowns work on one slot at a time.        *)
THEOREM SlotsExclusive == Spec => []ExclusiveSlots
<1>1. SlotInv => ExclusiveSlots
  BY DEF SlotInv
<1>2. QED
  BY <1>1, SlotsInvariant, PTL

(* No two registered threads share an ID, whatever was created and failed. *)
THEOREM IdsUnique == Spec => []UniqueIds
<1>1. SlotInv => UniqueIds
  BY DEF SlotInv
<1>2. QED
  BY <1>1, SlotsInvariant, PTL

=============================================================================
