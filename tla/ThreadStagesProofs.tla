------------------------- MODULE ThreadStagesProofs -------------------------
(***************************************************************************)
(* What the registry of threads guarantees about runners in use, about     *)
(* resources, replies and shutdowns, proved for any number of callers,     *)
(* slots and IDs, every backend and every set of faults: IndInv is         *)
(* inductive.  SlotInv, its first part, is proved in ThreadRegistryProofs. *)
(* The last part proves that the registry implements ThreadLifecycle.      *)
(***************************************************************************)
EXTENDS ThreadRegistryProofs, FiniteSetTheorems

(* An actor between operations, or in the loop of a shutdown.              *)
Resting == {"idle", "notify", "scan", "picked"}

(* The locals of every other actor stay as they are.                       *)
OthersKeep(a) ==
  \A b \in Actors \ {a} :
    /\ pc'[b] = pc[b] /\ slot'[b] = slot[b] /\ tid'[b] = tid[b]
    /\ got'[b] = got[b] /\ job'[b] = job[b]

(* Whoever works on a slot works on a thread nobody else works on.         *)
LEMMA Owner ==
  ASSUME IndInv, NEW a \in Actors, pc[a] \in Owning
  PROVE  /\ slot[a] \in Slots /\ tid[a] \in ThreadIds /\ Issued(tid[a])
         /\ runner[slot[a]].in_use /\ runner[slot[a]].thread_id = tid[a]
         /\ runner[slot[a]] \in Runner
         /\ \A s \in Slots \ {slot[a]} :
              runner[s].in_use => runner[s].thread_id # tid[a]
         /\ \A b \in Actors \ {a} : pc[b] \in Owning =>
              slot[b] # slot[a] /\ tid[b] # tid[a]
         /\ \A b \in Actors : pc[b] = "destroy" => tid[b] # tid[a]
<1>0. TypeOK /\ ClaimInv /\ ExclusiveSlots /\ IdInv /\ UniqueIds /\ StageInv
  BY DEF IndInv, SlotInv
<1>1. /\ slot[a] \in Slots /\ tid[a] \in ThreadIds /\ Issued(tid[a])
      /\ runner[slot[a]].in_use /\ runner[slot[a]].thread_id = tid[a]
      /\ runner[slot[a]] \in Runner
  BY <1>0 DEF TypeOK, ClaimInv, IdInv
<1>2. \A s \in Slots \ {slot[a]} :
        runner[s].in_use => runner[s].thread_id # tid[a]
  BY <1>0, <1>1 DEF UniqueIds
<1>3. \A b \in Actors \ {a} : pc[b] \in Owning =>
        slot[b] # slot[a] /\ tid[b] # tid[a]
  BY <1>0, <1>1, <1>2 DEF ClaimInv, ExclusiveSlots
<1>4. \A b \in Actors : pc[b] = "destroy" => tid[b] # tid[a]
  BY <1>0, <1>1 DEF StageInv, Registered
<1>5. QED
  BY <1>1, <1>2, <1>3, <1>4

-----------------------------------------------------------------------------
(* The invariant holds initially.                                          *)

LEMMA InitStages == Init => IndInv
<1> SUFFICES ASSUME Init PROVE IndInv
  OBVIOUS
<1>1. SlotInv
  BY InitSlots
<1>2. StageInv /\ FreshInv /\ PlaceInv /\ WorkerRunnerIntact
  BY Domains DEF Init, StageInv, FreshInv, PlaceInv, WorkerRunnerIntact,
     FreeRunner, Deleting
<1>3. HeapInv /\ NoLeak
  BY Domains DEF Init, HeapInv, NoLeak, Acquired
<1>4. WaitingReply /\ ReplyHandedOver /\ StoppingInv /\ ShutdownIsFinal
  BY Domains DEF Init, WaitingReply, ReplyHandedOver, StoppingInv,
     ShutdownIsFinal, FreeRunner
<1>5. QED
  BY <1>1, <1>2, <1>3, <1>4 DEF IndInv

-----------------------------------------------------------------------------
(* Each action preserves it.                                               *)

(* A step that leaves the registry, the OS threads and the resources alone *)
(* and keeps its actor outside creations, joins and deletions.             *)
LEMMA QuietStages ==
  ASSUME IndInv, NEW a \in Actors, OthersKeep(a),
         pc[a] \in Resting, pc'[a] \in Resting,
         UNCHANGED <<runner, heap, os_thread, returned, next_thread_id>>
  PROVE  /\ StageInv' /\ FreshInv' /\ HeapInv' /\ NoLeak'
         /\ WorkerRunnerIntact' /\ WaitingReply' /\ ReplyHandedOver'
<1>0. /\ StageInv /\ FreshInv /\ HeapInv /\ NoLeak /\ WorkerRunnerIntact
      /\ WaitingReply /\ ReplyHandedOver
  BY DEF IndInv
<1>1. StageInv' /\ FreshInv' /\ WorkerRunnerIntact'
  BY <1>0 DEF StageInv, FreshInv, WorkerRunnerIntact, OthersKeep, Resting,
     Deleting, Issued, Registered
<1>2. HeapInv'
  BY <1>0 DEF HeapInv, OthersKeep, Resting
<1>3. NoLeak'
  BY <1>0 DEF NoLeak, Acquired, OthersKeep, Resting
<1>4. WaitingReply' /\ ReplyHandedOver'
  BY <1>0 DEF WaitingReply, ReplyHandedOver, OthersKeep, Resting, Deleting
<1>5. QED
  BY <1>1, <1>2, <1>3, <1>4

LEMMA MoveStages ==
  ASSUME IndInv,
         \/ \E c \in Callers : EnterModule(c) \/ LeaveModule(c)
         \/ \E i \in ThreadIds : ReenterModule(i) \/ ReturnFromReentry(i)
  PROVE  IndInv'
<1>0. TypeOK /\ PlaceInv /\ StoppingInv /\ ShutdownIsFinal
  BY DEF IndInv, SlotInv
<1>1. UNCHANGED <<registryVars, actorVars, heap, os_thread, returned, stop_requested, closed>>
  BY DEF EnterModule, LeaveModule, ReenterModule, ReturnFromReentry
<1>2. \E a \in Actors : pc[a] \in Resting
  BY Domains DEF EnterModule, LeaveModule, ReenterModule, ReturnFromReentry, Resting
<1>3. /\ StageInv' /\ FreshInv' /\ HeapInv' /\ NoLeak'
      /\ WorkerRunnerIntact' /\ WaitingReply' /\ ReplyHandedOver'
  BY <1>1, <1>2, QuietStages DEF OthersKeep, registryVars, actorVars
<1>4. PlaceInv'
  <2>1. CASE \E c \in Callers : EnterModule(c) \/ LeaveModule(c)
    <3>1. PICK c \in Callers : EnterModule(c) \/ LeaveModule(c)
      BY <2>1
    <3>2. c \notin ThreadIds
      BY RegistryAssumption DEF ThreadIds
    <3>3. \A i \in ThreadIds : at'[i] = at[i]
      BY <1>0, <3>1, <3>2, Domains DEF TypeOK, EnterModule, LeaveModule
    <3>4. QED
      BY <1>0, <1>1, <3>3 DEF PlaceInv, registryVars
  <2>2. CASE \E i \in ThreadIds : ReenterModule(i) \/ ReturnFromReentry(i)
    <3>1. PICK i \in ThreadIds : ReenterModule(i) \/ ReturnFromReentry(i)
      BY <2>2
    <3>2. \A j \in ThreadIds \ {i} : at'[j] = at[j]
      BY <1>0, <3>1, Domains DEF TypeOK, ReenterModule, ReturnFromReentry
    <3>3. at'[i] \in Slots => runner[at'[i]].in_use /\ runner[at'[i]].thread_id = i
      BY <1>0, <3>1, Domains DEF TypeOK, ReenterModule, ReturnFromReentry
    <3>4. QED
      BY <1>0, <1>1, <3>2, <3>3 DEF PlaceInv, registryVars
  <2>3. QED
    BY <2>1, <2>2
<1>5. StoppingInv' /\ ShutdownIsFinal'
  BY <1>0, <1>1 DEF StoppingInv, ShutdownIsFinal, registryVars, actorVars
<1>6. SlotInv'
  BY MoveSlots DEF IndInv
<1>7. QED
  BY <1>3, <1>4, <1>5, <1>6 DEF IndInv

LEMMA ClaimFailsStages ==
  ASSUME IndInv, NEW a \in Actors, ClaimFails(a)
  PROVE  IndInv'
<1>0. PlaceInv /\ StoppingInv /\ ShutdownIsFinal
  BY DEF IndInv
<1>1. UNCHANGED <<actorVars, runner, next_thread_id, threads_stopping, heap,
                  os_thread, returned, at, closed>>
  BY DEF ClaimFails
<1>2. /\ StageInv' /\ FreshInv' /\ HeapInv' /\ NoLeak'
      /\ WorkerRunnerIntact' /\ WaitingReply' /\ ReplyHandedOver'
  BY <1>1, QuietStages DEF OthersKeep, actorVars, ClaimFails, MayCommand, Resting
<1>3. PlaceInv' /\ StoppingInv' /\ ShutdownIsFinal'
  BY <1>0, <1>1 DEF PlaceInv, StoppingInv, ShutdownIsFinal, actorVars
<1>4. SlotInv'
  BY ClaimFailsSlots DEF IndInv
<1>5. QED
  BY <1>2, <1>3, <1>4 DEF IndInv

(* The loop of a shutdown.                                                 *)
LEMMA ShutdownStages ==
  ASSUME IndInv, NEW c \in Actors,
         \/ BeginShutdown(c) \/ SendStop(c) \/ PickThread(c)
         \/ MissPicked(c) \/ EndShutdown(c)
  PROVE  IndInv'
<1>0. /\ TypeOK /\ ClaimInv /\ PlaceInv /\ StoppingInv /\ ShutdownIsFinal
      /\ WorkerRunnerIntact
  BY DEF IndInv, SlotInv
<1>1. /\ UNCHANGED <<runner, next_thread_id, heap, os_thread, returned, at>>
      /\ threads_stopping => threads_stopping'
  BY DEF BeginShutdown, SendStop, PickThread, MissPicked, EndShutdown, registryVars
<1>2. /\ pc[c] \in Resting /\ pc'[c] \in Resting /\ OthersKeep(c)
      /\ job'[c] = "stop" => (job[c] = "stop" \/ threads_stopping')
  <2>1. CASE BeginShutdown(c)
    BY <1>0, <2>1 DEF BeginShutdown, OthersKeep, Resting, TypeOK
  <2>2. CASE SendStop(c)
    BY <1>0, <2>2 DEF SendStop, OthersKeep, Resting, TypeOK
  <2>3. CASE PickThread(c)
    BY <1>0, <2>3 DEF PickThread, OthersKeep, Resting, TypeOK
  <2>4. CASE MissPicked(c)
    BY <1>0, <2>4, FinishEffect DEF MissPicked, OthersKeep, Resting
  <2>5. CASE EndShutdown(c)
    BY <1>0, <2>5, FinishEffect DEF EndShutdown, OthersKeep, Resting
  <2>6. QED
    BY <2>1, <2>2, <2>3, <2>4, <2>5
<1>3. /\ StageInv' /\ FreshInv' /\ HeapInv' /\ NoLeak'
      /\ WorkerRunnerIntact' /\ WaitingReply' /\ ReplyHandedOver'
  BY <1>1, <1>2, QuietStages
<1>4. PlaceInv'
  BY <1>0, <1>1 DEF PlaceInv
<1>5. closed' => closed \/ /\ Remaining = {} /\ job[c] = "stop"
  BY <1>0 DEF BeginShutdown, SendStop, PickThread, MissPicked, EndShutdown, ClaimInv
<1>6. StoppingInv'
  BY <1>0, <1>1, <1>2, <1>5 DEF StoppingInv, OthersKeep
<1>7. ShutdownIsFinal'
  BY <1>0, <1>1, <1>5 DEF ShutdownIsFinal, Remaining, WorkerRunnerIntact
<1>8. SlotInv'
  BY BeginShutdownSlots, SendStopSlots, PickThreadSlots, MissPickedSlots,
     EndShutdownSlots DEF IndInv
<1>9. QED
  BY <1>3, <1>4, <1>6, <1>7, <1>8 DEF IndInv

LEMMA ClaimSlotStages ==
  ASSUME IndInv, NEW a \in Actors, ClaimSlot(a)
  PROVE  IndInv'
<1>0. /\ TypeOK /\ ClaimInv /\ ExclusiveSlots /\ IdInv /\ UniqueIds
      /\ StageInv /\ FreshInv /\ PlaceInv /\ HeapInv /\ NoLeak
      /\ WorkerRunnerIntact /\ WaitingReply /\ ReplyHandedOver
      /\ StoppingInv /\ ShutdownIsFinal
  BY DEF IndInv, SlotInv
<1>1. PICK s \in Slots :
        /\ FirstFree(s)
        /\ runner' = [runner EXCEPT ![s] =
             [FreeRunner EXCEPT !.in_use = TRUE, !.creating = TRUE,
                                !.thread_id = next_thread_id]]
        /\ slot' = [slot EXCEPT ![a] = s]
  BY DEF ClaimSlot
<1>2. /\ next_thread_id \in ThreadIds /\ ~Issued(next_thread_id)
      /\ \A i \in ThreadIds : Issued(i) => i # next_thread_id /\ Issued(i)'
  BY <1>0, RegistryAssumption, NextIdWraps DEF ClaimSlot, TypeOK, ThreadIds, Issued
<1>3. /\ ~runner[s].in_use
      /\ \A t \in Slots \ {s} : runner'[t] = runner[t]
      /\ runner'[s].in_use /\ runner'[s].thread_id = next_thread_id
      /\ runner'[s].creating
  BY <1>0, <1>1 DEF TypeOK, FirstFree, FreeRunner
<1>4. /\ pc[a] = "idle" /\ pc'[a] = "acquire" /\ job'[a] = "create"
      /\ slot'[a] = s /\ tid'[a] = next_thread_id /\ OthersKeep(a)
  BY <1>0, <1>1 DEF TypeOK, ClaimSlot, MayCommand, OthersKeep
<1>5. /\ ~threads_stopping
      /\ UNCHANGED <<threads_stopping, heap, os_thread, returned, at, closed>>
  BY DEF ClaimSlot
<1>6. FreshInv'
  BY <1>0, <1>2, <1>5 DEF FreshInv
<1>7. StageInv'
  <2>1. \A t \in Slots : runner'[t].in_use /\ ~runner'[t].creating =>
          os_thread'[runner'[t].thread_id] # "none"
    BY <1>0, <1>3, <1>5 DEF StageInv
  <2>2. os_thread[tid'[a]] = "none"
    BY <1>0, <1>2, <1>4 DEF FreshInv
  <2>3. \A i \in ThreadIds : Issued(i) /\ ~Registered(i) => ~Registered(i)'
    BY <1>2, <1>3 DEF Registered
  <2>4. QED
    BY <1>0, <1>2, <1>4, <1>5, <2>1, <2>2, <2>3 DEF StageInv, OthersKeep, Deleting
<1>8. PlaceInv' /\ WorkerRunnerIntact'
  BY <1>0, <1>3, <1>5 DEF PlaceInv, WorkerRunnerIntact
<1>9. HeapInv' /\ NoLeak'
  BY <1>0, <1>3, <1>4, <1>5 DEF HeapInv, NoLeak, Acquired, OthersKeep
<1>10. WaitingReply' /\ ReplyHandedOver'
  <2>1. os_thread[next_thread_id] = "none"
    BY <1>0, <1>2 DEF FreshInv
  <2>2. WaitingReply'
    BY <1>0, <1>3, <1>4, <1>5, <2>1 DEF WaitingReply, OthersKeep, Deleting
  <2>3. \A b \in Actors : pc[b] \in Owning => slot[b] \in Slots \ {s}
    BY <1>0, <1>3 DEF ClaimInv
  <2>4. ReplyHandedOver'
    BY <1>0, <1>3, <1>4, <1>5, <2>3 DEF ReplyHandedOver, OthersKeep, Owning
  <2>5. QED
    BY <2>2, <2>4
<1>11. StoppingInv' /\ ShutdownIsFinal'
  BY <1>0, <1>4, <1>5 DEF StoppingInv, ShutdownIsFinal, OthersKeep
<1>12. QED
  BY <1>6, <1>7, <1>8, <1>9, <1>10, <1>11, ClaimSlotSlots DEF IndInv

(* Acquiring a resource, whether the creation goes on or not.              *)
LEMMA AcquireStages ==
  ASSUME IndInv, NEW a \in Actors, Acquire(a) \/ AcquireFails(a)
  PROVE  IndInv'
<1>0. /\ TypeOK /\ ClaimInv /\ ExclusiveSlots /\ IdInv /\ UniqueIds
      /\ StageInv /\ FreshInv /\ PlaceInv /\ HeapInv /\ NoLeak
      /\ WorkerRunnerIntact /\ WaitingReply /\ ReplyHandedOver
      /\ StoppingInv /\ ShutdownIsFinal
  BY DEF IndInv, SlotInv
<1>1. /\ pc[a] = "acquire" /\ pc'[a] \in {"acquire", "release"} /\ OthersKeep(a)
      /\ tid'[a] = tid[a] /\ slot'[a] = slot[a] /\ job'[a] = job[a]
      /\ UNCHANGED <<registryVars, os_thread, returned, at, closed>>
  BY <1>0 DEF Acquire, AcquireFails, TypeOK, OthersKeep, actorVars
<1>2. PICK x \in StepNames :
        /\ NextStep(a, x)
        /\ heap' = heap \/ heap' = heap \cup {<<tid[a], x>>}
  BY DEF Acquire, AcquireFails
<1>3. /\ slot[a] \in Slots /\ tid[a] \in ThreadIds
      /\ runner[slot[a]].in_use /\ runner[slot[a]].thread_id = tid[a]
      /\ \A b \in Actors \ {a} : pc[b] \in Owning => tid[b] # tid[a]
      /\ \A b \in Actors : pc[b] = "destroy" => tid[b] # tid[a]
  BY <1>1, Owner DEF Owning
<1>4. job[a] = "create" /\ os_thread[tid[a]] = "none"
  BY <1>0, <1>1 DEF ClaimInv, StageInv
<1>5. StageInv' /\ FreshInv'
  BY <1>0, <1>1, <1>4 DEF StageInv, FreshInv, OthersKeep, Deleting, Issued,
     Registered, registryVars
<1>6. PlaceInv' /\ StoppingInv' /\ ShutdownIsFinal'
  BY <1>0, <1>1 DEF PlaceInv, StoppingInv, ShutdownIsFinal, OthersKeep, registryVars
<1>7. HeapInv'
  <2>1. \A h \in heap' : \E k \in DOMAIN Steps : h[2] = Steps[k]
    BY <1>0, <1>2 DEF HeapInv, NextStep
  <2>2. \A b \in Actors \ {a} : pc[b] \in {"clear", "destroy"} => tid[b] # tid[a]
    BY <1>3 DEF Owning
  <2>3. \A b \in Actors : pc'[b] \in {"clear", "destroy"} =>
          \A y \in FreedBeforeClear : <<tid'[b], y>> \notin heap'
    BY <1>0, <1>1, <1>2, <2>2 DEF HeapInv, OthersKeep
  <2>4. QED
    BY <2>1, <2>3 DEF HeapInv
<1>8. NoLeak'
  <2>1. \A i \in ThreadIds \ {tid[a]} : Acquired(i)' = Acquired(i)
    BY <1>2 DEF Acquired
  <2>2. QED
    BY <1>0, <1>1, <1>3, <2>1 DEF NoLeak, OthersKeep, registryVars
<1>9. WorkerRunnerIntact'
  BY <1>0, <1>1, <1>2 DEF WorkerRunnerIntact, registryVars
<1>10. WaitingReply' /\ ReplyHandedOver'
  BY <1>0, <1>1, <1>4 DEF WaitingReply, ReplyHandedOver, OthersKeep, Deleting, registryVars
<1>11. QED
  BY <1>5, <1>6, <1>7, <1>8, <1>9, <1>10, AcquireSlots, AcquireFailsSlots DEF IndInv

LEMMA StartThreadStages ==
  ASSUME IndInv, NEW a \in Actors, StartThread(a)
  PROVE  IndInv'
<1>0. /\ TypeOK /\ ClaimInv /\ ExclusiveSlots /\ IdInv /\ UniqueIds
      /\ StageInv /\ FreshInv /\ PlaceInv /\ HeapInv /\ NoLeak
      /\ WorkerRunnerIntact /\ WaitingReply /\ ReplyHandedOver
      /\ StoppingInv /\ ShutdownIsFinal
  BY DEF IndInv, SlotInv
<1>1. /\ pc[a] = "acquire" /\ pc'[a] = "publish" /\ OthersKeep(a)
      /\ tid'[a] = tid[a] /\ slot'[a] = slot[a] /\ job'[a] = job[a]
      /\ UNCHANGED <<registryVars, heap, returned, closed>>
  BY <1>0 DEF StartThread, TypeOK, OthersKeep
<1>2. /\ slot[a] \in Slots /\ tid[a] \in ThreadIds /\ Issued(tid[a])
      /\ runner[slot[a]].in_use /\ runner[slot[a]].thread_id = tid[a]
      /\ \A s \in Slots \ {slot[a]} :
           runner[s].in_use => runner[s].thread_id # tid[a]
      /\ \A b \in Actors \ {a} : pc[b] \in Owning => tid[b] # tid[a]
      /\ \A b \in Actors : pc[b] = "destroy" => tid[b] # tid[a]
  BY <1>1, Owner DEF Owning
<1>3. /\ os_thread'[tid[a]] = "running" /\ at'[tid[a]] = slot[a]
      /\ \A i \in ThreadIds \ {tid[a]} :
           os_thread'[i] = os_thread[i] /\ at'[i] = at[i]
  BY <1>0, <1>2, Domains DEF StartThread, TypeOK
<1>4. runner[slot[a]].creating
  BY <1>0, <1>1 DEF ClaimInv, Owning
<1>5. StageInv'
  <2>1. \A s \in Slots : runner'[s].in_use /\ ~runner'[s].creating =>
          os_thread'[runner'[s].thread_id] # "none"
    BY <1>0, <1>1, <1>2, <1>3 DEF StageInv, IdInv, registryVars
  <2>2. \A b \in Actors \ {a} :
          /\ pc[b] \in Owning \cup {"destroy"} => tid[b] # tid[a]
          /\ pc[b] \in Owning \cup {"destroy"} => tid[b] \in ThreadIds
    BY <1>2, Owner, <1>0 DEF StageInv
  <2>3. QED
    BY <1>0, <1>1, <1>3, <2>1, <2>2
       DEF StageInv, OthersKeep, Owning, Deleting, Issued, Registered, registryVars
<1>6. FreshInv' /\ PlaceInv'
  BY <1>0, <1>1, <1>2, <1>3 DEF FreshInv, PlaceInv, Issued, registryVars
<1>7. HeapInv' /\ NoLeak'
  BY <1>0, <1>1 DEF HeapInv, NoLeak, Acquired, OthersKeep, registryVars
<1>8. WorkerRunnerIntact'
  BY <1>0, <1>1, <1>2, <1>3 DEF WorkerRunnerIntact, StartThread, AllAcquired, registryVars
<1>9. WaitingReply'
  BY <1>0, <1>1, <1>3 DEF WaitingReply, IdInv, OthersKeep, Deleting, registryVars
<1>10. ReplyHandedOver'
  <2>1. \A b \in Actors \ {a} : pc[b] \in {"release", "clear"} =>
          tid[b] \in ThreadIds \ {tid[a]}
    BY <1>2, Owner DEF Owning
  <2>2. QED
    BY <1>0, <1>1, <1>3, <2>1 DEF ReplyHandedOver, OthersKeep, registryVars
<1>11. StoppingInv' /\ ShutdownIsFinal'
  BY <1>0, <1>1, <1>2 DEF StoppingInv, ShutdownIsFinal, OthersKeep, registryVars
<1>12. QED
  BY <1>5, <1>6, <1>7, <1>8, <1>9, <1>10, <1>11, StartThreadSlots DEF IndInv

LEMMA StartFailsStages ==
  ASSUME IndInv, NEW a \in Actors, StartFails(a)
  PROVE  IndInv'
<1>0. /\ TypeOK /\ ClaimInv /\ ExclusiveSlots /\ IdInv /\ UniqueIds
      /\ StageInv /\ FreshInv /\ PlaceInv /\ HeapInv /\ NoLeak
      /\ WorkerRunnerIntact /\ WaitingReply /\ ReplyHandedOver
      /\ StoppingInv /\ ShutdownIsFinal
  BY DEF IndInv, SlotInv
<1>1. /\ pc[a] = "acquire" /\ pc'[a] = "release" /\ OthersKeep(a)
      /\ tid'[a] = tid[a] /\ slot'[a] = slot[a] /\ job'[a] = job[a]
      /\ UNCHANGED <<registryVars, heap, os_thread, returned, at, closed>>
  BY <1>0 DEF StartFails, TypeOK, OthersKeep
<1>2. job[a] = "create" /\ os_thread[tid[a]] = "none"
  BY <1>0, <1>1 DEF ClaimInv, StageInv
<1>3. StageInv' /\ FreshInv'
  BY <1>0, <1>1, <1>2 DEF StageInv, FreshInv, OthersKeep, Deleting, Issued,
     Registered, registryVars
<1>4. PlaceInv' /\ StoppingInv' /\ ShutdownIsFinal' /\ WorkerRunnerIntact'
  BY <1>0, <1>1 DEF PlaceInv, StoppingInv, ShutdownIsFinal, WorkerRunnerIntact,
     OthersKeep, registryVars
<1>5. HeapInv' /\ NoLeak'
  BY <1>0, <1>1 DEF HeapInv, NoLeak, Acquired, OthersKeep, registryVars
<1>6. WaitingReply' /\ ReplyHandedOver'
  BY <1>0, <1>1, <1>2 DEF WaitingReply, ReplyHandedOver, OthersKeep, Deleting, registryVars
<1>7. QED
  BY <1>3, <1>4, <1>5, <1>6, StartFailsSlots DEF IndInv

(* A creation that publishes its thread, and a join that gives up: the     *)
(* runner keeps its thread and its reply, the actor lets go of the slot.   *)
LEMMA LetGoStages ==
  ASSUME IndInv, SlotInv', NEW a \in Actors, OthersKeep(a),
         pc[a] \in {"publish", "join"}, pc'[a] \in Resting,
         job'[a] = "stop" => job[a] = "stop",
         \A s \in Slots :
           /\ s # slot[a] => runner'[s] = runner[s]
           /\ runner'[s].in_use = runner[s].in_use
           /\ runner'[s].thread_id = runner[s].thread_id
           /\ runner'[s].thread_reply = runner[s].thread_reply,
         runner[slot[a]].creating => pc[a] = "publish",
         UNCHANGED <<next_thread_id, threads_stopping, heap, os_thread,
                     returned, at, closed>>
  PROVE  IndInv'
<1>0. /\ TypeOK /\ ClaimInv /\ ExclusiveSlots /\ IdInv /\ UniqueIds
      /\ StageInv /\ FreshInv /\ PlaceInv /\ HeapInv /\ NoLeak
      /\ WorkerRunnerIntact /\ WaitingReply /\ ReplyHandedOver
      /\ StoppingInv /\ ShutdownIsFinal
  BY DEF IndInv, SlotInv
<1>1. /\ slot[a] \in Slots /\ runner[slot[a]].in_use
      /\ runner[slot[a]].thread_id = tid[a]
      /\ \A b \in Actors \ {a} : pc[b] \in Owning => slot[b] # slot[a]
  BY Owner DEF Owning
<1>2. StageInv' /\ FreshInv'
  <2>1. \A s \in Slots : runner'[s].in_use /\ ~runner'[s].creating =>
          os_thread[runner[s].thread_id] # "none"
    BY <1>0, <1>1 DEF StageInv
  <2>2. \A i \in ThreadIds : Registered(i)' = Registered(i) /\ Issued(i)' = Issued(i)
    BY DEF Registered, Issued
  <2>3. QED
    BY <1>0, <2>1, <2>2 DEF StageInv, FreshInv, OthersKeep, Deleting, Resting
<1>3. PlaceInv' /\ WorkerRunnerIntact' /\ StoppingInv' /\ ShutdownIsFinal'
  BY <1>0 DEF PlaceInv, WorkerRunnerIntact, StoppingInv, ShutdownIsFinal, OthersKeep
<1>4. HeapInv' /\ NoLeak'
  <2>1. HeapInv'
    BY <1>0 DEF HeapInv, OthersKeep, Resting
  <2>2. \A i \in ThreadIds : Acquired(i)' = Acquired(i)
    BY DEF Acquired
  <2>3. NoLeak'
    BY <1>0, <2>2 DEF NoLeak, OthersKeep
  <2>4. QED
    BY <2>1, <2>3
<1>5. WaitingReply'
  BY <1>0 DEF WaitingReply, OthersKeep, Deleting
<1>6. ReplyHandedOver'
  BY <1>0, <1>1 DEF ReplyHandedOver, ClaimInv, OthersKeep, Owning, Resting
<1>7. QED
  BY <1>2, <1>3, <1>4, <1>5, <1>6 DEF IndInv

LEMMA PublishThreadStages ==
  ASSUME IndInv, NEW a \in Actors, PublishThread(a)
  PROVE  IndInv'
<1>0. TypeOK
  BY DEF IndInv, SlotInv
<1>1. /\ pc[a] = "publish" /\ slot[a] \in Slots /\ runner[slot[a]] \in Runner
      /\ UNCHANGED <<next_thread_id, threads_stopping, heap, os_thread,
                     returned, at, closed>>
  BY Owner DEF PublishThread, Owning
<1>2. \A s \in Slots :
        /\ s # slot[a] => runner'[s] = runner[s]
        /\ runner'[s].in_use = runner[s].in_use
        /\ runner'[s].thread_id = runner[s].thread_id
        /\ runner'[s].thread_reply = runner[s].thread_reply
  BY <1>0, <1>1 DEF PublishThread, TypeOK, Runner
<1>3. OthersKeep(a) /\ pc'[a] = "idle" /\ job'[a] = "none"
  BY <1>0, FinishEffect DEF PublishThread, OthersKeep
<1>4. SlotInv'
  BY PublishThreadSlots DEF IndInv
<1>5. QED
  BY <1>1, <1>2, <1>3, <1>4, LetGoStages DEF Resting

LEMMA JoinFailsStages ==
  ASSUME IndInv, NEW a \in Actors, JoinFails(a)
  PROVE  IndInv'
<1>0. TypeOK /\ ClaimInv
  BY DEF IndInv, SlotInv
<1>1. /\ pc[a] = "join" /\ slot[a] \in Slots /\ runner[slot[a]] \in Runner
      /\ UNCHANGED <<next_thread_id, threads_stopping, heap, os_thread,
                     returned, at, closed>>
  BY Owner DEF JoinFails, Owning
<1>2. \A s \in Slots :
        /\ s # slot[a] => runner'[s] = runner[s]
        /\ runner'[s].in_use = runner[s].in_use
        /\ runner'[s].thread_id = runner[s].thread_id
        /\ runner'[s].thread_reply = runner[s].thread_reply
  BY <1>0, <1>1 DEF JoinFails, TypeOK, Runner
<1>3. ~runner[slot[a]].creating
  BY <1>0, <1>1 DEF ClaimInv, Owning
<1>4. /\ OthersKeep(a) /\ pc'[a] \in Resting
      /\ job'[a] = "stop" => job[a] = "stop"
  BY <1>0, FinishEffect DEF JoinFails, AfterJob, OthersKeep, Resting
<1>5. SlotInv'
  BY JoinFailsSlots DEF IndInv
<1>6. QED
  BY <1>1, <1>2, <1>3, <1>4, <1>5, LetGoStages

(* Claiming a thread for a join, by guest code or by a shutdown.           *)
LEMMA ClaimStages ==
  ASSUME IndInv, SlotInv', NEW a \in Actors, NEW s \in Slots, NEW id,
         pc[a] \in Resting, Joinable(a, s, id), Claim(a, s),
         job'[a] = "stop" => job[a] = "stop",
         \A b \in Actors \ {a} : job'[b] = job[b],
         UNCHANGED <<next_thread_id, threads_stopping, heap, os_thread,
                     returned, at, got, closed>>
  PROVE  IndInv'
<1>0. /\ TypeOK /\ ClaimInv /\ ExclusiveSlots /\ IdInv /\ UniqueIds
      /\ StageInv /\ FreshInv /\ PlaceInv /\ HeapInv /\ NoLeak
      /\ WorkerRunnerIntact /\ WaitingReply /\ ReplyHandedOver
      /\ StoppingInv /\ ShutdownIsFinal
  BY DEF IndInv, SlotInv
<1>1. /\ \A t \in Slots :
           /\ runner'[t].in_use = runner[t].in_use
           /\ runner'[t].thread_id = runner[t].thread_id
           /\ runner'[t].creating = runner[t].creating
           /\ runner'[t].thread_reply = runner[t].thread_reply
      /\ slot'[a] = s /\ pc'[a] = "join" /\ OthersKeep(a)
  BY <1>0 DEF Claim, TypeOK, Runner, OthersKeep
<1>2. StageInv' /\ FreshInv'
  <2>1. \A i \in ThreadIds : Registered(i)' = Registered(i) /\ Issued(i)' = Issued(i)
    BY <1>1 DEF Registered, Issued
  <2>2. QED
    BY <1>0, <1>1, <2>1 DEF StageInv, FreshInv, OthersKeep, Deleting
<1>3. PlaceInv' /\ WorkerRunnerIntact' /\ StoppingInv' /\ ShutdownIsFinal'
  BY <1>0, <1>1 DEF PlaceInv, WorkerRunnerIntact, StoppingInv, ShutdownIsFinal, OthersKeep
<1>4. HeapInv' /\ NoLeak'
  BY <1>0, <1>1 DEF HeapInv, NoLeak, Acquired, OthersKeep, Resting
<1>5. WaitingReply'
  BY <1>0, <1>1 DEF WaitingReply, OthersKeep, Deleting, Resting
<1>6. ReplyHandedOver'
  BY <1>0, <1>1 DEF ReplyHandedOver, ClaimInv, OthersKeep, Owning
<1>7. QED
  BY <1>2, <1>3, <1>4, <1>5, <1>6 DEF IndInv

LEMMA ClaimJoinStages ==
  ASSUME IndInv, NEW a \in Actors, ClaimJoin(a)
  PROVE  IndInv'
<1>0. TypeOK
  BY DEF IndInv, SlotInv
<1>1. PICK s \in Slots, id \in ThreadIds : Joinable(a, s, id) /\ Claim(a, s)
  BY DEF ClaimJoin
<1>2. /\ pc[a] \in Resting /\ job'[a] = "join"
      /\ \A b \in Actors \ {a} : job'[b] = job[b]
      /\ UNCHANGED <<next_thread_id, threads_stopping, heap, os_thread,
                     returned, at, got, closed>>
  BY <1>0 DEF ClaimJoin, MayCommand, Resting, TypeOK
<1>3. SlotInv'
  BY ClaimJoinSlots DEF IndInv
<1>4. QED
  BY <1>1, <1>2, <1>3, ClaimStages

LEMMA JoinPickedStages ==
  ASSUME IndInv, NEW a \in Actors, JoinPicked(a)
  PROVE  IndInv'
<1>1. PICK s \in Slots : Joinable(a, s, tid[a]) /\ Claim(a, s)
  BY DEF JoinPicked
<1>2. /\ pc[a] \in Resting
      /\ UNCHANGED <<next_thread_id, threads_stopping, heap, os_thread,
                     returned, at, job, got, closed>>
  BY DEF JoinPicked, Resting
<1>3. SlotInv'
  BY JoinPickedSlots DEF IndInv
<1>4. QED
  BY <1>1, <1>2, <1>3, ClaimStages

LEMMA JoinReturnsStages ==
  ASSUME IndInv, NEW a \in Actors, JoinReturns(a)
  PROVE  IndInv'
<1>0. /\ TypeOK /\ ClaimInv /\ ExclusiveSlots /\ IdInv /\ UniqueIds
      /\ StageInv /\ FreshInv /\ PlaceInv /\ HeapInv /\ NoLeak
      /\ WorkerRunnerIntact /\ WaitingReply /\ ReplyHandedOver
      /\ StoppingInv /\ ShutdownIsFinal
  BY DEF IndInv, SlotInv
<1>1. /\ pc[a] = "join" /\ pc'[a] = "release"
      /\ slot'[a] = slot[a] /\ tid'[a] = tid[a] /\ job'[a] = job[a]
      /\ got'[a] = runner[slot[a]].thread_reply /\ OthersKeep(a)
      /\ os_thread[tid[a]] = "exited"
      /\ UNCHANGED <<next_thread_id, threads_stopping, heap, os_thread,
                     returned, at, closed>>
  BY <1>0 DEF JoinReturns, TypeOK, OthersKeep
<1>2. /\ slot[a] \in Slots /\ runner[slot[a]].in_use
      /\ runner[slot[a]].thread_id = tid[a] /\ runner[slot[a]] \in Runner
      /\ \A b \in Actors \ {a} : pc[b] \in Owning => slot[b] # slot[a]
  BY <1>1, Owner DEF Owning
<1>3. /\ \A s \in Slots :
           /\ s # slot[a] => runner'[s] = runner[s]
           /\ runner'[s].in_use = runner[s].in_use
           /\ runner'[s].thread_id = runner[s].thread_id
           /\ runner'[s].creating = runner[s].creating
      /\ runner'[slot[a]].thread_reply = NoReply
  BY <1>0, <1>2 DEF JoinReturns, Taken, TypeOK, Runner
<1>4. StageInv' /\ FreshInv'
  <2>1. \A i \in ThreadIds : Registered(i)' = Registered(i) /\ Issued(i)' = Issued(i)
    BY <1>1, <1>3 DEF Registered, Issued
  <2>2. QED
    BY <1>0, <1>1, <1>3, <2>1 DEF StageInv, FreshInv, OthersKeep, Deleting
<1>5. PlaceInv' /\ WorkerRunnerIntact' /\ StoppingInv' /\ ShutdownIsFinal'
  BY <1>0, <1>1, <1>3 DEF PlaceInv, WorkerRunnerIntact, StoppingInv,
     ShutdownIsFinal, OthersKeep
<1>6. HeapInv' /\ NoLeak'
  BY <1>0, <1>1, <1>3 DEF HeapInv, NoLeak, Acquired, OthersKeep
<1>7. WaitingReply'
  BY <1>0, <1>1, <1>3 DEF WaitingReply, OthersKeep, Deleting
<1>8. ReplyHandedOver'
  <2>1. runner[slot[a]].thread_reply = returned[tid[a]]
    BY <1>0, <1>1, <1>2 DEF WaitingReply, Owning, Deleting
  <2>2. QED
    BY <1>0, <1>1, <1>2, <1>3, <2>1 DEF ReplyHandedOver, ClaimInv, OthersKeep, Owning
<1>9. QED
  BY <1>4, <1>5, <1>6, <1>7, <1>8, JoinReturnsSlots DEF IndInv

LEMMA FreeResourcesStages ==
  ASSUME IndInv, NEW a \in Actors, FreeResources(a)
  PROVE  IndInv'
<1>0. /\ TypeOK /\ ClaimInv /\ ExclusiveSlots /\ IdInv /\ UniqueIds
      /\ StageInv /\ FreshInv /\ PlaceInv /\ HeapInv /\ NoLeak
      /\ WorkerRunnerIntact /\ WaitingReply /\ ReplyHandedOver
      /\ StoppingInv /\ ShutdownIsFinal
  BY DEF IndInv, SlotInv
<1>1. /\ pc[a] = "release" /\ pc'[a] = "clear" /\ OthersKeep(a)
      /\ slot'[a] = slot[a] /\ tid'[a] = tid[a] /\ job'[a] = job[a]
      /\ got'[a] = got[a]
      /\ heap' = heap \ ({tid[a]} \X FreedBeforeClear)
      /\ UNCHANGED <<registryVars, os_thread, returned, at, closed>>
  BY <1>0 DEF FreeResources, TypeOK, OthersKeep
<1>2. os_thread[tid[a]] # "running"
  BY <1>0, <1>1 DEF StageInv, Deleting
<1>3. StageInv' /\ FreshInv'
  BY <1>0, <1>1 DEF StageInv, FreshInv, OthersKeep, Deleting, Issued,
     Registered, registryVars
<1>4. PlaceInv' /\ StoppingInv' /\ ShutdownIsFinal'
  BY <1>0, <1>1 DEF PlaceInv, StoppingInv, ShutdownIsFinal, OthersKeep, registryVars
<1>5. WorkerRunnerIntact'
  BY <1>0, <1>1, <1>2 DEF WorkerRunnerIntact, registryVars
<1>6. HeapInv'
  BY <1>0, <1>1 DEF HeapInv, OthersKeep
<1>7. NoLeak'
  <2>1. \A i \in ThreadIds : Acquired(i)' \subseteq Acquired(i)
    BY <1>1 DEF Acquired
  <2>2. QED
    BY <1>0, <1>1, <2>1 DEF NoLeak, OthersKeep, registryVars
<1>8. WaitingReply' /\ ReplyHandedOver'
  BY <1>0, <1>1 DEF WaitingReply, ReplyHandedOver, OthersKeep, Deleting, registryVars
<1>9. QED
  BY <1>3, <1>4, <1>5, <1>6, <1>7, <1>8, FreeResourcesSlots DEF IndInv

(* What a backend's runner is made of is released with the slot or after.  *)
LEMMA StepsReleased ==
  ASSUME NEW k \in DOMAIN Steps
  PROVE  /\ Steps[k] \in FreedBeforeClear \cup DestroyedLast
         /\ Backend = "translated" => Steps[k] \in FreedBeforeClear
<1>1. CASE Backend = "wasmtime"
  BY <1>1 DEF Steps, WasmtimeSteps, FreedBeforeClear, DestroyedLast
<1>2. CASE Backend = "wamr"
  BY <1>2 DEF Steps, WamrSteps, FreedBeforeClear, DestroyedLast
<1>3. CASE Backend = "translated"
  BY <1>3 DEF Steps, TranslatedSteps, FreedBeforeClear, DestroyedLast
<1>4. QED
  BY <1>1, <1>2, <1>3, RegistryAssumption

LEMMA ClearSlotStages ==
  ASSUME IndInv, NEW a \in Actors, ClearSlot(a)
  PROVE  IndInv'
<1>0. /\ TypeOK /\ ClaimInv /\ ExclusiveSlots /\ IdInv /\ UniqueIds
      /\ StageInv /\ FreshInv /\ PlaceInv /\ HeapInv /\ NoLeak
      /\ WorkerRunnerIntact /\ WaitingReply /\ ReplyHandedOver
      /\ StoppingInv /\ ShutdownIsFinal
  BY DEF IndInv, SlotInv
<1>1. /\ pc[a] = "clear"
      /\ runner' = [runner EXCEPT ![slot[a]] = FreeRunner]
      /\ UNCHANGED <<next_thread_id, threads_stopping, heap, os_thread,
                     returned, at, closed>>
  BY DEF ClearSlot
<1>2. /\ slot[a] \in Slots /\ tid[a] \in ThreadIds /\ Issued(tid[a])
      /\ runner[slot[a]].thread_id = tid[a]
      /\ \A s \in Slots \ {slot[a]} :
           runner[s].in_use => runner[s].thread_id # tid[a]
      /\ \A b \in Actors \ {a} : pc[b] \in Owning => slot[b] # slot[a]
  BY <1>1, Owner DEF Owning
<1>3. /\ OthersKeep(a) /\ slot'[a] = NoRunner
      /\ job'[a] = "stop" => job[a] = "stop"
      /\ \/ Backend = "translated" /\ pc'[a] \in Resting
         \/ pc'[a] = "destroy" /\ tid'[a] = tid[a]
  BY <1>0, FinishEffect DEF ClearSlot, AfterJob, OthersKeep, Resting, TypeOK
<1>4. /\ \A s \in Slots \ {slot[a]} : runner'[s] = runner[s]
      /\ ~runner'[slot[a]].in_use
  BY <1>0, <1>1, <1>2 DEF TypeOK, FreeRunner
<1>5. os_thread[tid[a]] # "running"
  BY <1>0, <1>1 DEF StageInv, Deleting
<1>6. /\ \A i \in ThreadIds : i = tid[a] => ~Registered(i)'
      /\ \A i \in ThreadIds \ {tid[a]} : Registered(i)' = Registered(i)
      /\ \A i \in ThreadIds : Issued(i)' = Issued(i)
  <2>1. \A i \in ThreadIds : i = tid[a] => ~Registered(i)'
    BY <1>1, <1>2, <1>4 DEF Registered
  <2>2. \A i \in ThreadIds \ {tid[a]} : Registered(i)' = Registered(i)
    BY <1>2, <1>4 DEF Registered
  <2>3. \A i \in ThreadIds : Issued(i)' = Issued(i)
    BY <1>1 DEF Issued
  <2>4. QED
    BY <2>1, <2>2, <2>3
<1>7. StageInv' /\ FreshInv'
  <2>1. \A s \in Slots : runner'[s].in_use /\ ~runner'[s].creating =>
          os_thread'[runner'[s].thread_id] # "none"
    BY <1>0, <1>1, <1>4 DEF StageInv
  <2>2. FreshInv'
    BY <1>0, <1>1, <1>6 DEF FreshInv
  <2>3. \A i \in ThreadIds : ~Registered(i) /\ Issued(i) => ~Registered(i)' /\ Issued(i)'
    BY <1>6
  <2>4. \A b \in Actors : pc'[b] = "destroy" =>
          /\ tid'[b] \in ThreadIds /\ os_thread[tid'[b]] # "running"
          /\ ~Registered(tid[b])' /\ Issued(tid[b])'
    BY <1>0, <1>2, <1>3, <1>5, <1>6, <2>3 DEF StageInv, OthersKeep, Resting
  <2>5. \A b \in Actors :
          /\ pc'[b] = "acquire" => os_thread'[tid'[b]] = "none"
          /\ pc'[b] = "publish" => os_thread'[tid'[b]] # "none"
          /\ pc'[b] \in Deleting => os_thread'[tid'[b]] # "running"
    BY <1>0, <1>1, <1>3 DEF StageInv, OthersKeep, Deleting, Resting
  <2>6. QED
    BY <1>1, <2>1, <2>2, <2>4, <2>5 DEF StageInv
<1>8. PlaceInv' /\ WorkerRunnerIntact'
  BY <1>0, <1>1, <1>2, <1>4, <1>5 DEF PlaceInv, WorkerRunnerIntact
<1>9. HeapInv'
  BY <1>0, <1>1, <1>3 DEF HeapInv, OthersKeep, Resting
<1>10. NoLeak'
  <2>1. \A i \in ThreadIds : Acquired(i)' = Acquired(i)
    BY <1>1 DEF Acquired
  <2>2. Acquired(tid[a]) # {} => pc'[a] = "destroy" /\ tid'[a] = tid[a]
    BY <1>0, <1>1, <1>3, StepsReleased DEF HeapInv, Acquired
  <2>3. \A i \in ThreadIds \ {tid[a]} : Acquired(i) # {} =>
          \/ Registered(i)'
          \/ \E b \in Actors \ {a} : pc[b] = "destroy" /\ tid[b] = i
    BY <1>0, <1>1, <1>6 DEF NoLeak, Registered
  <2>4. QED
    BY <1>3, <2>1, <2>2, <2>3 DEF NoLeak, Registered, OthersKeep
<1>11. WaitingReply'
  BY <1>0, <1>1, <1>3, <1>4 DEF WaitingReply, OthersKeep, Deleting
<1>12. ReplyHandedOver'
  BY <1>0, <1>1, <1>2, <1>3, <1>4 DEF ReplyHandedOver, ClaimInv, OthersKeep,
     Owning, Resting
<1>13. StoppingInv' /\ ShutdownIsFinal'
  BY <1>0, <1>1, <1>3, <1>4 DEF StoppingInv, ShutdownIsFinal, OthersKeep
<1>14. QED
  BY <1>7, <1>8, <1>9, <1>10, <1>11, <1>12, <1>13, ClearSlotSlots DEF IndInv

LEMMA DestroyHostStages ==
  ASSUME IndInv, NEW a \in Actors, DestroyHost(a)
  PROVE  IndInv'
<1>0. /\ TypeOK /\ ClaimInv /\ ExclusiveSlots /\ IdInv /\ UniqueIds
      /\ StageInv /\ FreshInv /\ PlaceInv /\ HeapInv /\ NoLeak
      /\ WorkerRunnerIntact /\ WaitingReply /\ ReplyHandedOver
      /\ StoppingInv /\ ShutdownIsFinal
  BY DEF IndInv, SlotInv
<1>1. /\ pc[a] = "destroy" /\ heap' = heap \ ({tid[a]} \X DestroyedLast)
      /\ UNCHANGED <<registryVars, os_thread, returned, at, closed>>
  BY DEF DestroyHost
<1>2. /\ OthersKeep(a) /\ pc'[a] \in Resting
      /\ job'[a] = "stop" => job[a] = "stop"
  BY <1>0, FinishEffect DEF DestroyHost, AfterJob, OthersKeep, Resting
<1>3. os_thread[tid[a]] # "running"
  BY <1>0, <1>1 DEF StageInv
<1>4. StageInv' /\ FreshInv'
  BY <1>0, <1>1, <1>2 DEF StageInv, FreshInv, OthersKeep, Deleting, Resting,
     Issued, Registered, registryVars
<1>5. PlaceInv' /\ StoppingInv' /\ ShutdownIsFinal'
  BY <1>0, <1>1, <1>2 DEF PlaceInv, StoppingInv, ShutdownIsFinal, OthersKeep, registryVars
<1>6. WorkerRunnerIntact'
  BY <1>0, <1>1, <1>3 DEF WorkerRunnerIntact, registryVars
<1>7. HeapInv'
  BY <1>0, <1>1, <1>2 DEF HeapInv, OthersKeep, Resting
<1>8. NoLeak'
  <2>1. \A i \in ThreadIds : i = tid[a] => Acquired(i)' = {}
    <3>1. \A x \in StepNames : <<tid[a], x>> \in heap => x \in DestroyedLast
      BY <1>0, <1>1, StepsReleased DEF HeapInv
    <3>2. QED
      BY <1>1, <3>1 DEF Acquired
  <2>2. \A i \in ThreadIds : Acquired(i)' \subseteq Acquired(i)
    BY <1>1 DEF Acquired
  <2>3. \A i \in ThreadIds \ {tid[a]} : Acquired(i) # {} =>
          \/ Registered(i)'
          \/ \E b \in Actors \ {a} : pc[b] = "destroy" /\ tid[b] = i
    BY <1>0, <1>1 DEF NoLeak, Registered, registryVars
  <2>4. QED
    BY <1>2, <2>1, <2>2, <2>3 DEF NoLeak, Registered, OthersKeep
<1>9. WaitingReply' /\ ReplyHandedOver'
  BY <1>0, <1>1, <1>2 DEF WaitingReply, ReplyHandedOver, OthersKeep, Deleting,
     Resting, registryVars
<1>10. QED
  BY <1>4, <1>5, <1>6, <1>7, <1>8, <1>9, DestroyHostSlots DEF IndInv

LEMMA WorkerReturnStages ==
  ASSUME IndInv, NEW i \in ThreadIds, WorkerReturn(i)
  PROVE  IndInv'
<1>0. /\ TypeOK /\ ClaimInv /\ ExclusiveSlots /\ IdInv /\ UniqueIds
      /\ StageInv /\ FreshInv /\ PlaceInv /\ HeapInv /\ NoLeak
      /\ WorkerRunnerIntact /\ WaitingReply /\ ReplyHandedOver
      /\ StoppingInv /\ ShutdownIsFinal
  BY DEF IndInv, SlotInv
<1>1. PICK r \in Replies \cup {NoReply} :
        /\ returned' = [returned EXCEPT ![i] = r]
        /\ runner' = [runner EXCEPT ![at[i]].thread_reply = r]
  BY DEF WorkerReturn
<1>2. /\ os_thread[i] = "running" /\ at[i] \in Slots
      /\ runner[at[i]].in_use /\ runner[at[i]].thread_id = i
      /\ UNCHANGED <<actorVars, next_thread_id, threads_stopping, heap, closed>>
  BY <1>0 DEF WorkerReturn, PlaceInv
<1>3. /\ \A s \in Slots :
           /\ s # at[i] => runner'[s] = runner[s]
           /\ runner'[s].in_use = runner[s].in_use
           /\ runner'[s].thread_id = runner[s].thread_id
           /\ runner'[s].creating = runner[s].creating
      /\ runner'[at[i]].thread_reply = r
  BY <1>0, <1>1, <1>2 DEF TypeOK, Runner
<1>4. /\ os_thread'[i] = "exited" /\ at'[i] = NoRunner /\ returned'[i] = r
      /\ \A j \in ThreadIds \ {i} :
           os_thread'[j] = os_thread[j] /\ at'[j] = at[j] /\ returned'[j] = returned[j]
  BY <1>0, <1>1, Domains DEF WorkerReturn, TypeOK
<1>5. StageInv' /\ FreshInv'
  <2>1. \A j \in ThreadIds : Registered(j)' = Registered(j) /\ Issued(j)' = Issued(j)
    BY <1>2, <1>3 DEF Registered, Issued
  <2>2. \A b \in Actors : pc[b] \in Owning \cup {"destroy"} => tid[b] \in ThreadIds
    BY <1>0, Owner DEF StageInv
  <2>3. FreshInv'
    BY <1>0, <1>2, <1>4, <2>1 DEF FreshInv
  <2>4. \A s \in Slots : runner'[s].in_use /\ ~runner'[s].creating =>
          os_thread'[runner'[s].thread_id] # "none"
    BY <1>0, <1>3, <1>4 DEF StageInv, IdInv
  <2>5. QED
    BY <1>0, <1>2, <1>4, <2>1, <2>2, <2>3, <2>4
       DEF StageInv, Owning, Deleting, actorVars
<1>6. PlaceInv' /\ WorkerRunnerIntact'
  <2>1. PlaceInv'
    BY <1>0, <1>3, <1>4 DEF PlaceInv
  <2>2. WorkerRunnerIntact'
    BY <1>0, <1>2, <1>3, <1>4 DEF WorkerRunnerIntact
  <2>3. QED
    BY <2>1, <2>2
<1>7. HeapInv' /\ NoLeak'
  BY <1>0, <1>2, <1>3 DEF HeapInv, NoLeak, Acquired, actorVars
<1>8. WaitingReply'
  BY <1>0, <1>2, <1>3, <1>4 DEF WaitingReply, UniqueIds, IdInv, Deleting, actorVars
<1>9. ReplyHandedOver'
  <2>1. \A b \in Actors : pc[b] \in {"release", "clear"} =>
          tid[b] \in ThreadIds \ {i} /\ slot[b] \in Slots \ {at[i]}
    BY <1>0, <1>2, Owner DEF StageInv, Owning, Deleting
  <2>2. QED
    BY <1>0, <1>2, <1>3, <1>4, <2>1 DEF ReplyHandedOver, actorVars
<1>10. StoppingInv' /\ ShutdownIsFinal'
  BY <1>0, <1>2, <1>3, <1>4 DEF StoppingInv, ShutdownIsFinal, actorVars
<1>11. QED
  BY <1>5, <1>6, <1>7, <1>8, <1>9, <1>10, WorkerReturnSlots DEF IndInv

LEMMA StutterStages == IndInv /\ UNCHANGED vars => IndInv'
<1> SUFFICES ASSUME IndInv, UNCHANGED vars PROVE IndInv'
  OBVIOUS
<1>1. SlotInv'
  BY StutterSlots DEF IndInv
<1>2. StageInv' /\ FreshInv' /\ PlaceInv' /\ HeapInv' /\ NoLeak' /\ WorkerRunnerIntact'
  BY DEF IndInv, vars, StageInv, FreshInv, PlaceInv, HeapInv, NoLeak, Acquired,
     WorkerRunnerIntact, Issued, Registered
<1>3. WaitingReply' /\ ReplyHandedOver' /\ StoppingInv' /\ ShutdownIsFinal'
  BY DEF IndInv, vars, WaitingReply, ReplyHandedOver, StoppingInv, ShutdownIsFinal
<1>4. QED
  BY <1>1, <1>2, <1>3 DEF IndInv

LEMMA NextStages == IndInv /\ [Next]_vars => IndInv'
<1> SUFFICES ASSUME IndInv, Next PROVE IndInv'
  BY StutterStages
<1>1. CASE \E a \in Actors : ClaimSlot(a) \/ ClaimFails(a) \/ CreateStep(a)
  BY <1>1, ClaimSlotStages, ClaimFailsStages, AcquireStages, StartThreadStages,
     StartFailsStages, PublishThreadStages DEF CreateStep
<1>2. CASE \E a \in Actors : ClaimJoin(a) \/ JoinReturns(a) \/ JoinFails(a) \/ DeleteStep(a)
  BY <1>2, ClaimJoinStages, JoinReturnsStages, JoinFailsStages,
     FreeResourcesStages, ClearSlotStages, DestroyHostStages DEF DeleteStep
<1>3. CASE \E c \in Callers : BeginShutdown(c) \/ ShutdownStep(c)
  BY <1>3, Domains, ShutdownStages, JoinPickedStages DEF ShutdownStep
<1>4. CASE \E i \in ThreadIds : WorkerReturn(i)
  BY <1>4, WorkerReturnStages
<1>5. CASE \/ \E c \in Callers : EnterModule(c) \/ LeaveModule(c)
           \/ \E i \in ThreadIds : ReenterModule(i) \/ ReturnFromReentry(i)
  BY <1>5, MoveStages
<1>6. QED
  BY <1>1, <1>2, <1>3, <1>4, <1>5 DEF Next

-----------------------------------------------------------------------------

(* Every operation of the registry is at a stage that agrees with the      *)
(* registry, the OS threads and the resources, in every reachable state.   *)
THEOREM StagesInvariant == Spec => []IndInv
<1>1. Init => IndInv
  BY InitStages
<1>2. IndInv /\ [Next]_vars => IndInv'
  BY NextStages
<1>3. QED
  BY <1>1, <1>2, PTL DEF Spec

(* No join, failed creation or shutdown takes the runner of a running      *)
(* worker away, or anything the runner is made of.                         *)
THEOREM RunnersIntact == Spec => []WorkerRunnerIntact
<1>1. IndInv => WorkerRunnerIntact
  BY DEF IndInv
<1>2. QED
  BY <1>1, StagesInvariant, PTL

(* A join that gets through has the reply of the thread it has joined.     *)
THEOREM RepliesHandedOver == Spec => []ReplyHandedOver
<1>1. IndInv => ReplyHandedOver
  BY DEF IndInv
<1>2. QED
  BY <1>1, StagesInvariant, PTL

(* No resource outlives its thread's registration and deletion.            *)
THEOREM NothingLeaks == Spec => []NoLeak
<1>1. IndInv => NoLeak
  BY DEF IndInv
<1>2. QED
  BY <1>1, StagesInvariant, PTL

(* A module whose threads have been shut down has no thread ever after.    *)
THEOREM ShutdownsFinal == Spec => []ShutdownIsFinal
<1>1. IndInv => ShutdownIsFinal
  BY DEF IndInv
<1>2. QED
  BY <1>1, StagesInvariant, PTL

-----------------------------------------------------------------------------
(* The refinement: ThreadRegistry implements ThreadLifecycle.  Each step   *)
(* of the registry is a step in the life of one thread, a step of the      *)
(* module as a whole, or invisible.                                        *)

(* The lives of the threads, as the refinement mapping reads them off.     *)
Lives == [i \in ThreadIds |-> LifeOf(i)]

(* A thread that is alive is registered, and the other way round.          *)
LEMMA AliveIsRegistered ==
  ASSUME IndInv, NEW i \in ThreadIds
  PROVE  LifeOf(i) \in Lifecycle!Alive <=> Registered(i)
<1>1. /\ os_thread[i] \in {"none", "running", "exited"}
      /\ os_thread[i] = "running" => Registered(i)
      /\ Registered(i) \in BOOLEAN /\ Issued(i) \in BOOLEAN
  BY DEF IndInv, SlotInv, TypeOK, WorkerRunnerIntact, Registered, Issued
<1>2. CASE os_thread[i] = "running"
  BY <1>1, <1>2 DEF LifeOf, Lifecycle!Alive
<1>3. CASE os_thread[i] = "exited"
  BY <1>1, <1>3 DEF LifeOf, Lifecycle!Alive
<1>4. CASE os_thread[i] = "none"
  BY <1>1, <1>4 DEF LifeOf, Lifecycle!Alive
<1>5. QED
  BY <1>1, <1>2, <1>3, <1>4

(* Only an ID that was never issued is unborn.                             *)
LEMMA IssuedIsBorn ==
  ASSUME IndInv, NEW i \in ThreadIds, Issued(i)
  PROVE  LifeOf(i) # "unborn"
<1>1. /\ os_thread[i] \in {"none", "running", "exited"}
      /\ Registered(i) \in BOOLEAN
  BY DEF IndInv, SlotInv, TypeOK, Registered
<1>2. QED
  BY <1>1 DEF LifeOf

(* A thread's life shows in the OS, the registry and the ID counter only.  *)
LEMMA LifeFrame ==
  ASSUME NEW i \in ThreadIds, os_thread'[i] = os_thread[i],
         Registered(i)' = Registered(i), Issued(i)' = Issued(i)
  PROVE  LifeOf(i)' = LifeOf(i)
  BY DEF LifeOf

(* A free slot leaves room for one more thread.                            *)
LEMMA RoomForOne ==
  ASSUME IndInv, NEW s \in Slots, ~runner[s].in_use
  PROVE  Cardinality({j \in ThreadIds : LifeOf(j) \in Lifecycle!Alive})
           < Capacity - Initial
<1> DEFINE A == {j \in ThreadIds : LifeOf(j) \in Lifecycle!Alive}
           at_slot == [i \in A |-> CHOOSE t \in Slots :
                         runner[t].in_use /\ runner[t].thread_id = i]
<1>1. \A i \in A : at_slot[i] \in Slots \ {s} /\ runner[at_slot[i]].thread_id = i
  BY AliveIsRegistered DEF Registered
<1>2. at_slot \in Injection(A, Slots \ {s})
  BY <1>1 DEF Injection, IsInjective
<1>3. IsFiniteSet(Slots) /\ Cardinality(Slots) = Capacity - Initial
  BY FS_Interval, RegistryAssumption DEF Slots
<1>4. /\ IsFiniteSet(Slots \ {s})
      /\ Cardinality(Slots \ {s}) = Capacity - Initial - 1
  BY <1>3, FS_RemoveElement
<1>5. Cardinality(A) <= Cardinality(Slots \ {s}) /\ IsFiniteSet(A)
  BY <1>2, <1>4, FS_Injection
<1>6. Cardinality(A) \in Nat
  BY <1>5, FS_CardinalityType
<1>7. QED
  BY <1>4, <1>5, <1>6, RegistryAssumption

-----------------------------------------------------------------------------
(* The steps that show.                                                    *)

(* Claiming a slot issues the next ID.                                     *)
LEMMA ClaimIssues ==
  ASSUME IndInv, NEW a \in Actors, ClaimSlot(a)
  PROVE  Lifecycle!Issue(next_thread_id)
<1>0. TypeOK /\ FreshInv /\ IdInv
  BY DEF IndInv, SlotInv
<1>1. PICK s \in Slots :
        /\ FirstFree(s)
        /\ runner' = [runner EXCEPT ![s] =
             [FreeRunner EXCEPT !.in_use = TRUE, !.creating = TRUE,
                                !.thread_id = next_thread_id]]
  BY DEF ClaimSlot
<1>2. /\ next_thread_id \in ThreadIds /\ ~Issued(next_thread_id)
      /\ \A j \in ThreadIds : j < next_thread_id => Issued(j)
      /\ \A j \in ThreadIds \ {next_thread_id} : Issued(j)' = Issued(j)
  BY <1>0, RegistryAssumption, NextIdWraps DEF ClaimSlot, TypeOK, ThreadIds, Issued
<1>3. /\ ~runner[s].in_use
      /\ \A t \in Slots \ {s} : runner'[t] = runner[t]
      /\ runner'[s].in_use /\ runner'[s].thread_id = next_thread_id
  BY <1>0, <1>1 DEF TypeOK, FirstFree, FreeRunner
<1>4. /\ \A j \in ThreadIds \ {next_thread_id} : Registered(j)' = Registered(j)
      /\ \A j \in ThreadIds : j = next_thread_id => Registered(j)' /\ ~Registered(j)
      /\ UNCHANGED <<os_thread, threads_stopping, closed>>
  BY <1>0, <1>2, <1>3 DEF Registered, IdInv, ClaimSlot
<1>5. \A j \in ThreadIds \ {next_thread_id} : LifeOf(j)' = LifeOf(j)
  BY <1>2, <1>4, LifeFrame
<1>6. /\ LifeOf(next_thread_id) = "unborn"
      /\ \A j \in ThreadIds : j = next_thread_id => LifeOf(j)' = "creating"
  BY <1>0, <1>2, <1>4 DEF LifeOf, FreshInv
<1>7. Lives' = [Lives EXCEPT ![next_thread_id] = "creating"]
  BY <1>2, <1>5, <1>6 DEF Lives
<1>8. \A j \in ThreadIds : j < next_thread_id => LifeOf(j) # "unborn"
  BY <1>2, IssuedIsBorn
<1>9. Lives[next_thread_id] = "unborn" /\ \A j \in ThreadIds : Lives[j] = LifeOf(j)
  BY <1>2, <1>6 DEF Lives
<1>10. Cardinality({j \in ThreadIds : Lives[j] \in Lifecycle!Alive})
          < Capacity - Initial
  <2>1. {j \in ThreadIds : Lives[j] \in Lifecycle!Alive}
          = {j \in ThreadIds : LifeOf(j) \in Lifecycle!Alive}
    BY <1>9
  <2>2. QED
    BY <1>3, <2>1, RoomForOne
<1>11. ~threads_stopping
  BY DEF ClaimSlot
<1>12. Lifecycle!Cardinality({j \in ThreadIds : Lives[j] \in Lifecycle!Alive})
         = Cardinality({j \in ThreadIds : Lives[j] \in Lifecycle!Alive})
  BY DEF Lifecycle!Cardinality, Cardinality
<1>13. QED
  BY <1>4, <1>7, <1>8, <1>9, <1>10, <1>11, <1>12
     DEF Lifecycle!Issue, Lifecycle!Move, Lives

(* A thread's life moves on: what is left to show of such a step.          *)
LEMMA LifeMoves ==
  ASSUME NEW i \in ThreadIds, NEW to,
         \A j \in ThreadIds \ {i} : LifeOf(j)' = LifeOf(j),
         \A j \in ThreadIds : j = i => LifeOf(j)' = to,
         UNCHANGED <<threads_stopping, closed>>
  PROVE  Lifecycle!Move(i, LifeOf(i), to)
<1>1. Lives' = [Lives EXCEPT ![i] = to]
  BY DEF Lives
<1>2. QED
  BY <1>1 DEF Lives, Lifecycle!Move

LEMMA StartStarts ==
  ASSUME IndInv, NEW a \in Actors, StartThread(a)
  PROVE  Lifecycle!Start(tid[a])
<1>0. TypeOK /\ StageInv
  BY DEF IndInv, SlotInv
<1>1. /\ pc[a] = "acquire"
      /\ UNCHANGED <<runner, next_thread_id, threads_stopping, closed>>
  BY DEF StartThread, registryVars
<1>2. /\ tid[a] \in ThreadIds /\ os_thread[tid[a]] = "none"
      /\ Registered(tid[a])
  BY <1>0, <1>1, Owner DEF StageInv, Owning, Registered
<1>3. os_thread' = [os_thread EXCEPT ![tid[a]] = "running"]
  BY DEF StartThread
<1>4. \A j \in ThreadIds : Registered(j)' = Registered(j) /\ Issued(j)' = Issued(j)
  BY <1>1 DEF Registered, Issued
<1>5. \A j \in ThreadIds \ {tid[a]} : LifeOf(j)' = LifeOf(j)
  BY <1>0, <1>3, <1>4, LifeFrame DEF TypeOK
<1>6. \A j \in ThreadIds : j = tid[a] => LifeOf(j)' = "live"
  BY <1>0, <1>3 DEF TypeOK, LifeOf
<1>7. LifeOf(tid[a]) = "creating"
  BY <1>2 DEF LifeOf
<1>8. Lifecycle!Move(tid[a], "creating", "live")
  BY <1>1, <1>2, <1>5, <1>6, <1>7, LifeMoves
<1>9. QED
  BY <1>8 DEF Lifecycle!Start

LEMMA ReturnEnds ==
  ASSUME IndInv, NEW i \in ThreadIds, WorkerReturn(i)
  PROVE  Lifecycle!End(i)
<1>0. TypeOK /\ PlaceInv
  BY DEF IndInv, SlotInv
<1>1. /\ os_thread[i] = "running" /\ at[i] \in Slots
      /\ os_thread' = [os_thread EXCEPT ![i] = "exited"]
      /\ UNCHANGED <<next_thread_id, threads_stopping, closed>>
  BY DEF WorkerReturn
<1>2. \A s \in Slots : /\ runner'[s].in_use = runner[s].in_use
                       /\ runner'[s].thread_id = runner[s].thread_id
  BY <1>0 DEF WorkerReturn, TypeOK, Runner
<1>3. \A j \in ThreadIds : Registered(j)' = Registered(j) /\ Issued(j)' = Issued(j)
  BY <1>1, <1>2 DEF Registered, Issued
<1>4. Registered(i)
  BY <1>0, <1>1 DEF PlaceInv, Registered
<1>5. \A j \in ThreadIds \ {i} : LifeOf(j)' = LifeOf(j)
  BY <1>0, <1>1, <1>3, LifeFrame DEF TypeOK
<1>6. LifeOf(i) = "live" /\ \A j \in ThreadIds : j = i => LifeOf(j)' = "finished"
  BY <1>0, <1>1, <1>3, <1>4 DEF TypeOK, LifeOf
<1>7. Lifecycle!Move(i, "live", "finished")
  BY <1>1, <1>5, <1>6, LifeMoves
<1>8. QED
  BY <1>7 DEF Lifecycle!End

(* Giving a slot back ends a join, or a creation that has failed.          *)
LEMMA ClearEnds ==
  ASSUME IndInv, NEW a \in Actors, ClearSlot(a)
  PROVE  Lifecycle!Join(tid[a]) \/ Lifecycle!Abandon(tid[a])
<1>0. TypeOK /\ StageInv
  BY DEF IndInv, SlotInv
<1>1. /\ pc[a] = "clear" /\ runner' = [runner EXCEPT ![slot[a]] = FreeRunner]
      /\ UNCHANGED <<next_thread_id, threads_stopping, os_thread, closed>>
  BY DEF ClearSlot
<1>2. /\ slot[a] \in Slots /\ tid[a] \in ThreadIds /\ Issued(tid[a])
      /\ runner[slot[a]].in_use /\ runner[slot[a]].thread_id = tid[a]
      /\ \A s \in Slots \ {slot[a]} :
           runner[s].in_use => runner[s].thread_id # tid[a]
  BY <1>1, Owner DEF Owning
<1>3. /\ \A s \in Slots \ {slot[a]} : runner'[s] = runner[s]
      /\ ~runner'[slot[a]].in_use
  BY <1>0, <1>1, <1>2 DEF TypeOK, FreeRunner
<1>4. os_thread[tid[a]] \in {"none", "exited"}
  BY <1>0, <1>1, <1>2 DEF StageInv, Deleting, TypeOK
<1>5. /\ Registered(tid[a])
      /\ \A j \in ThreadIds : Issued(j)' = Issued(j)
  BY <1>1, <1>2 DEF Registered, Issued
<1>6. \A j \in ThreadIds : j = tid[a] => ~Registered(j)'
  BY <1>2, <1>3 DEF Registered
<1>7. \A j \in ThreadIds \ {tid[a]} : Registered(j)' = Registered(j)
  BY <1>2, <1>3 DEF Registered
<1>8. \A j \in ThreadIds \ {tid[a]} : LifeOf(j)' = LifeOf(j)
  BY <1>1, <1>5, <1>7, LifeFrame
<1>9. CASE os_thread[tid[a]] = "exited"
  <2>1. /\ LifeOf(tid[a]) = "finished"
        /\ \A j \in ThreadIds : j = tid[a] => LifeOf(j)' = "joined"
    BY <1>1, <1>5, <1>6, <1>9 DEF LifeOf
  <2>2. Lifecycle!Move(tid[a], "finished", "joined")
    BY <1>1, <1>2, <1>8, <2>1, LifeMoves
  <2>3. QED
    BY <2>2 DEF Lifecycle!Join
<1>10. CASE os_thread[tid[a]] = "none"
  <2>1. /\ LifeOf(tid[a]) = "creating"
        /\ \A j \in ThreadIds : j = tid[a] => LifeOf(j)' = "failed"
    BY <1>1, <1>2, <1>5, <1>6, <1>10 DEF LifeOf
  <2>2. Lifecycle!Move(tid[a], "creating", "failed")
    BY <1>1, <1>2, <1>8, <2>1, LifeMoves
  <2>3. QED
    BY <2>2 DEF Lifecycle!Abandon
<1>11. QED
  BY <1>4, <1>9, <1>10

(* A step that keeps every thread registered as it was.                    *)
LEMMA LivesKept ==
  ASSUME \A s \in Slots : /\ runner'[s].in_use = runner[s].in_use
                          /\ runner'[s].thread_id = runner[s].thread_id,
         UNCHANGED <<os_thread, next_thread_id>>
  PROVE  Lives' = Lives
<1>1. \A j \in ThreadIds : Registered(j)' = Registered(j) /\ Issued(j)' = Issued(j)
  BY DEF Registered, Issued
<1>2. \A j \in ThreadIds : LifeOf(j)' = LifeOf(j)
  BY <1>1, LifeFrame
<1>3. QED
  BY <1>2 DEF Lives

LEMMA BeginCloses ==
  ASSUME NEW c \in Actors, BeginShutdown(c)
  PROVE  Lifecycle!Close
<1>1. /\ UNCHANGED <<runner, os_thread, next_thread_id, closed>>
      /\ threads_stopping'
  BY DEF BeginShutdown
<1>2. Lives' = Lives
  BY <1>1, LivesKept
<1>3. QED
  BY <1>1, <1>2 DEF Lifecycle!Close, Lives

LEMMA EndSettles ==
  ASSUME IndInv, NEW c \in Actors, EndShutdown(c)
  PROVE  Lifecycle!Settle
<1>1. /\ UNCHANGED <<runner, os_thread, next_thread_id, threads_stopping>>
      /\ closed' = TRUE /\ Remaining = {} /\ pc[c] = "scan"
  BY DEF EndShutdown, registryVars
<1>2. threads_stopping
  BY <1>1 DEF IndInv, SlotInv, ClaimInv, StoppingInv
<1>3. \A i \in ThreadIds : ~Registered(i)
  BY <1>1 DEF Remaining, Registered
<1>4. \A i \in ThreadIds : Lives[i] \notin Lifecycle!Alive
  BY <1>3, AliveIsRegistered DEF Lives
<1>5. Lives' = Lives
  BY <1>1, LivesKept
<1>6. QED
  BY <1>1, <1>2, <1>4, <1>5 DEF Lifecycle!Settle, Lives

-----------------------------------------------------------------------------
(* The steps that do not show.                                             *)

LEMMA HiddenSteps ==
  ASSUME IndInv, NEW a \in Actors,
         \/ ClaimFails(a) \/ Acquire(a) \/ AcquireFails(a) \/ StartFails(a)
         \/ PublishThread(a) \/ ClaimJoin(a) \/ JoinReturns(a) \/ JoinFails(a)
         \/ FreeResources(a) \/ DestroyHost(a)
         \/ SendStop(a) \/ PickThread(a) \/ JoinPicked(a) \/ MissPicked(a)
         \/ EnterModule(a) \/ LeaveModule(a) \/ ReenterModule(a)
         \/ ReturnFromReentry(a)
  PROVE  UNCHANGED Lifecycle!vars
<1>0. TypeOK
  BY DEF IndInv, SlotInv
<1>1. UNCHANGED <<os_thread, next_thread_id, threads_stopping, closed>>
  BY DEF ClaimFails, Acquire, AcquireFails, StartFails, PublishThread,
     ClaimJoin, JoinReturns, JoinFails, FreeResources, DestroyHost, SendStop,
     PickThread, JoinPicked, MissPicked, EnterModule, LeaveModule,
     ReenterModule, ReturnFromReentry, registryVars
<1>2. \A s \in Slots : /\ runner'[s].in_use = runner[s].in_use
                       /\ runner'[s].thread_id = runner[s].thread_id
  <2>1. CASE PublishThread(a)
    BY <1>0, <2>1 DEF PublishThread, TypeOK, Runner
  <2>2. CASE JoinReturns(a)
    BY <1>0, <2>2 DEF JoinReturns, Taken, TypeOK, Runner
  <2>3. CASE JoinFails(a)
    BY <1>0, <2>3 DEF JoinFails, TypeOK, Runner
  <2>4. CASE ClaimJoin(a) \/ JoinPicked(a)
    BY <1>0, <2>4 DEF ClaimJoin, JoinPicked, Claim, TypeOK, Runner
  <2>5. CASE \/ ClaimFails(a) \/ Acquire(a) \/ AcquireFails(a) \/ StartFails(a)
             \/ FreeResources(a) \/ DestroyHost(a)
             \/ SendStop(a) \/ PickThread(a) \/ MissPicked(a)
             \/ EnterModule(a) \/ LeaveModule(a) \/ ReenterModule(a)
             \/ ReturnFromReentry(a)
    BY <2>5 DEF ClaimFails, Acquire, AcquireFails, StartFails, FreeResources,
       DestroyHost, SendStop, PickThread, MissPicked, EnterModule,
       LeaveModule, ReenterModule, ReturnFromReentry, registryVars
  <2>6. QED
    BY <2>1, <2>2, <2>3, <2>4, <2>5
<1>3. Lives' = Lives
  BY <1>1, <1>2, LivesKept
<1>4. QED
  BY <1>1, <1>3 DEF Lifecycle!vars, Lives

-----------------------------------------------------------------------------

LEMMA InitLives == Init => Lifecycle!Init
<1> SUFFICES ASSUME Init PROVE Lifecycle!Init
  OBVIOUS
<1>1. \A i \in ThreadIds : /\ os_thread[i] = "none" /\ ~Registered(i)
                           /\ ~Issued(i)
  BY RegistryAssumption DEF Init, Registered, Issued, FreeRunner, ThreadIds
<1>2. \A i \in ThreadIds : LifeOf(i) = "unborn"
  BY <1>1 DEF LifeOf
<1>3. QED
  BY <1>2 DEF Init, Lifecycle!Init

LEMMA NextLives == IndInv /\ [Next]_vars => [Lifecycle!Next]_Lifecycle!vars
<1> SUFFICES ASSUME IndInv, [Next]_vars
             PROVE  Lifecycle!Next \/ UNCHANGED Lifecycle!vars
  OBVIOUS
<1>1. CASE \E a \in Actors : ClaimSlot(a)
  <2>1. next_thread_id \in ThreadIds
    BY <1>1 DEF ClaimSlot, IndInv, SlotInv, TypeOK, ThreadIds
  <2>2. QED
    BY <1>1, <2>1, ClaimIssues DEF Lifecycle!Next
<1>2. CASE \E a \in Actors : StartThread(a)
  <2>1. PICK a \in Actors : StartThread(a)
    BY <1>2
  <2>2. tid[a] \in ThreadIds
    BY <2>1, Owner DEF StartThread, Owning
  <2>3. QED
    BY <2>1, <2>2, StartStarts DEF Lifecycle!Next
<1>3. CASE \E a \in Actors : ClearSlot(a)
  <2>1. PICK a \in Actors : ClearSlot(a)
    BY <1>3
  <2>2. tid[a] \in ThreadIds
    BY <2>1, Owner DEF ClearSlot, Owning
  <2>3. QED
    BY <2>1, <2>2, ClearEnds DEF Lifecycle!Next
<1>4. CASE \E i \in ThreadIds : WorkerReturn(i)
  BY <1>4, ReturnEnds DEF Lifecycle!Next
<1>5. CASE \E c \in Callers : BeginShutdown(c) \/ EndShutdown(c)
  BY <1>5, Domains, BeginCloses, EndSettles DEF Lifecycle!Next
<1>6. CASE UNCHANGED vars
  <2>1. Lives' = Lives
    BY <1>6, LivesKept DEF vars
  <2>2. QED
    BY <1>6, <2>1 DEF vars, Lifecycle!vars, Lives
<1>7. CASE \/ \E a \in Actors :
                \/ ClaimFails(a) \/ Acquire(a) \/ AcquireFails(a) \/ StartFails(a)
                \/ PublishThread(a) \/ ClaimJoin(a) \/ JoinReturns(a)
                \/ JoinFails(a) \/ FreeResources(a) \/ DestroyHost(a)
           \/ \E c \in Callers :
                \/ SendStop(c) \/ PickThread(c) \/ JoinPicked(c) \/ MissPicked(c)
                \/ EnterModule(c) \/ LeaveModule(c)
           \/ \E i \in ThreadIds : ReenterModule(i) \/ ReturnFromReentry(i)
  BY <1>7, Domains, HiddenSteps
<1>8. QED
  BY <1>1, <1>2, <1>3, <1>4, <1>5, <1>6, <1>7
     DEF Next, CreateStep, DeleteStep, ShutdownStep

(* The registry of threads keeps what ThreadLifecycle promises: an ID is   *)
(* issued once and in order, names one thread through one life and is      *)
(* joined at most once, and a registry that was shut down stays empty.     *)
THEOREM LifecycleImplemented == Spec => ImplementsLifecycle
<1>1. Init => Lifecycle!Init
  BY InitLives
<1>2. IndInv /\ [Next]_vars => [Lifecycle!Next]_Lifecycle!vars
  BY NextLives
<1>3. QED
  BY <1>1, <1>2, StagesInvariant, PTL DEF Spec, ImplementsLifecycle, Lifecycle!Spec

==============================================================================
