--------------------------- MODULE ThreadRegistry ---------------------------
(***************************************************************************)
(* The registry of dynamically created threads of one WAHE module          *)
(* (src/wahelib/wahe/wahe_threads.c).  Guest code asks the host to create  *)
(* a thread and to join one by its public ID; the host can shut all of     *)
(* them down.  Each thread executes on a runner of its own, kept in a slot *)
(* of the registry from the moment it is claimed until it is joined or its *)
(* creation fails.                                                         *)
(*                                                                         *)
(* The module's mutex protects the registry.  No critical section of the   *)
(* code contains a wait or another acquisition, so each one is one action. *)
(* What the code does between two of them is an action of its own, since   *)
(* other threads run there.                                                *)
(*                                                                         *)
(* The three backends share this protocol.  They differ in the resources a *)
(* runner is made of and in what is released before and after its slot is  *)
(* given back; Backend selects one.                                        *)
(***************************************************************************)
EXTENDS Integers, FiniteSets, Sequences

CONSTANTS
  Backend,       \* "wasmtime", "wamr" or "translated"
  Callers,       \* host threads that run chains and call the library
  Home,          \* the configured runner each caller's chains use
  Initial,       \* number of configured runners, 0 .. Initial-1
  Capacity,      \* the slots of the dynamic runners are Initial .. Capacity-1
  MaxId,         \* the largest thread ID a size_t represents
  Replies,       \* what a worker's thread entry can return
  NoReply,       \* a NULL reply
  Commanders,    \* the workers whose guest code creates and joins threads
  Reentrant,     \* the workers that call another module which calls back
  Faults         \* the host services that may fail

FaultKinds == {"host_alloc", "acquire", "os_create", "os_join"}

ASSUME RegistryAssumption ==
  /\ Backend \in {"wasmtime", "wamr", "translated"}
  /\ Initial \in Nat \ {0}
  /\ Capacity \in Nat /\ Capacity > Initial
  /\ MaxId \in Nat \ {0}
  /\ Home \in [Callers -> 0..(Initial - 1)]
  /\ Callers \cap Nat = {}
  /\ NoReply \notin Replies
  /\ Commanders \subseteq 1..MaxId
  /\ Reentrant \subseteq 1..MaxId
  /\ Faults \subseteq FaultKinds

-----------------------------------------------------------------------------

InitialRunners == 0..(Initial - 1)
Slots          == Initial..(Capacity - 1)
NoRunner       == -1
ThreadIds      == 1..MaxId
Actors         == Callers \cup ThreadIds  \* a worker is named by its thread ID

(* The resources of a runner, in the order its creation acquires them.     *)
WasmtimeSteps   == <<"stack", "store", "tls", "input">>
WamrSteps       == <<"child", "tls", "input">>
TranslatedSteps == <<"instance", "stack", "tls", "input">>

Steps == CASE Backend = "wasmtime"   -> WasmtimeSteps
           [] Backend = "wamr"       -> WamrSteps
           [] Backend = "translated" -> TranslatedSteps

StepNames == {"stack", "store", "child", "instance", "tls", "input"}

(* Mutant: the TLS block is forgotten.                                     *)
FreedWithoutTls == {"stack", "input", "instance"}

(* A deleted runner gives its slot back after these are released; its      *)
(* store or child instance, where it has one, is destroyed afterwards.     *)
FreedBeforeClear == {"stack", "tls", "input", "instance"}
DestroyedLast    == {"store", "child"}

VARIABLES
  threads_stopping,  \* shutdown has begun
  next_thread_id,    \* the ID of the next thread, 0 once they are used up
  runner_count,      \* runners below this index can be looked up
  runner,            \* the registry: a runner record per slot
  heap,              \* the live resources, each with the thread it serves
  os_thread,         \* the operating system's view of each worker
  returned,          \* what each worker's thread entry returned
  at,                \* the runner each actor is executing guest code on
  pc,                \* where each actor is in the operation it performs
  job,               \* that operation
  slot,              \* the slot it works on
  tid,               \* the thread ID it works on
  got,               \* the reply a join has taken over from the runner
  stop_requested,    \* the module has been sent "Stop threads"
  closed             \* a shutdown has returned

registryVars == <<threads_stopping, next_thread_id, runner_count, runner>>
actorVars    == <<pc, job, slot, tid, got>>
vars == <<threads_stopping, next_thread_id, runner_count, runner, heap,
          os_thread, returned, at, pc, job, slot, tid, got,
          stop_requested, closed>>

FreeRunner == [in_use |-> FALSE, thread_id |-> 0, creating |-> FALSE,
               joining |-> FALSE, handle |-> FALSE, thread_reply |-> NoReply]

Init ==
  /\ threads_stopping = FALSE
  /\ next_thread_id = 1
  /\ runner_count = Initial
  /\ runner = [s \in Slots |-> FreeRunner]
  /\ heap = {}
  /\ os_thread = [i \in ThreadIds |-> "none"]
  /\ returned = [i \in ThreadIds |-> NoReply]
  /\ at = [a \in Actors |-> NoRunner]
  /\ pc = [a \in Actors |-> "idle"]
  /\ job = [a \in Actors |-> "none"]
  /\ slot = [a \in Actors |-> NoRunner]
  /\ tid = [a \in Actors |-> 0]
  /\ got = [a \in Actors |-> NoReply]
  /\ stop_requested = FALSE
  /\ closed = FALSE

-----------------------------------------------------------------------------
(* Runner mutexes: an actor executing on a runner holds its mutex.         *)

Held(r, a) == \E b \in Actors \ {a} : at[b] = r

(* The runner an actor's calls into the module use: the one it is on, or   *)
(* runner 0 for a host thread outside the module.                          *)
ActiveRunner(a) == IF at[a] = NoRunner THEN 0 ELSE at[a]

(* Mutant: the mutex does not let its own holder in again.                 *)
CanCallOnce(a) == \A b \in Actors : at[b] # ActiveRunner(a)

CanCallModule(a) == ~Held(ActiveRunner(a), a)

(* A chain enters the module on its caller's configured runner...          *)
EnterModule(c) ==
  /\ pc[c] = "idle"
  /\ at[c] = NoRunner
  /\ ~Held(Home[c], c)
  /\ at' = [at EXCEPT ![c] = Home[c]]
  /\ UNCHANGED <<registryVars, heap, os_thread, returned, actorVars,
                 stop_requested, closed>>

(* ...and leaves it when the call returns.                                 *)
LeaveModule(c) ==
  /\ pc[c] = "idle"
  /\ at[c] \in InitialRunners
  /\ at' = [at EXCEPT ![c] = NoRunner]
  /\ UNCHANGED <<registryVars, heap, os_thread, returned, actorVars,
                 stop_requested, closed>>

(* A worker calls another module, which calls back into this one.  The     *)
(* thread's current runner is then the other module's, so that the call    *)
(* goes to runner 0 and not to the worker's own.                           *)
ReenterModule(i) ==
  /\ i \in Reentrant
  /\ os_thread[i] = "running"
  /\ pc[i] = "idle"
  /\ at[i] \in Slots
  /\ ~Held(0, i)
  /\ at' = [at EXCEPT ![i] = 0]
  /\ UNCHANGED <<registryVars, heap, os_thread, returned, actorVars,
                 stop_requested, closed>>

ReturnFromReentry(i) ==
  /\ os_thread[i] = "running"
  /\ pc[i] = "idle"
  /\ at[i] = 0
  /\ \E s \in Slots :
       /\ runner[s].in_use /\ runner[s].thread_id = i
       /\ at' = [at EXCEPT ![i] = s]
  /\ UNCHANGED <<registryVars, heap, os_thread, returned, actorVars,
                 stop_requested, closed>>

(* Guest code issues the thread commands.                                  *)
MayCommand(a) ==
  /\ pc[a] = "idle"
  /\ at[a] # NoRunner
  /\ a \in Callers \cup Commanders

-----------------------------------------------------------------------------
(* "Create thread with": claim a slot, acquire what the runner needs,      *)
(* start the OS thread, publish the ID.                                    *)

FirstFree(s) ==
  /\ ~runner[s].in_use
  /\ \A t \in Slots : t < s => runner[t].in_use

(* Mutants: the counter grows past its width, or wraps around over 0.      *)
NextIdUnbounded(id) == id + 1
NextIdSkippingZero(id) == IF id = MaxId THEN 1 ELSE id + 1

(* A size_t that wraps to 0, which the next creation takes for exhaustion. *)
NextId(id) == (id + 1) % (MaxId + 1)

ClaimSlot(a) ==
  /\ MayCommand(a)
  /\ ~threads_stopping
  /\ next_thread_id # 0
  /\ \E s \in Slots :
       /\ FirstFree(s)
       /\ runner' = [runner EXCEPT ![s] =
            [FreeRunner EXCEPT !.in_use = TRUE, !.creating = TRUE,
                               !.thread_id = next_thread_id]]
       /\ runner_count' = IF s < runner_count THEN runner_count ELSE s + 1
       /\ slot' = [slot EXCEPT ![a] = s]
  /\ tid' = [tid EXCEPT ![a] = next_thread_id]
  /\ next_thread_id' = NextId(next_thread_id)
  /\ pc' = [pc EXCEPT ![a] = "acquire"]
  /\ job' = [job EXCEPT ![a] = "create"]
  /\ UNCHANGED <<threads_stopping, heap, os_thread, returned, at, got,
                 stop_requested, closed>>

(* The growable registries can gain an empty slot and then have no memory  *)
(* for the runner object that goes into it.                                *)
ClaimFails(a) ==
  /\ MayCommand(a)
  /\ "host_alloc" \in Faults
  /\ Backend # "translated"
  /\ ~threads_stopping
  /\ next_thread_id # 0
  /\ runner_count \in Slots
  /\ FirstFree(runner_count)
  /\ runner_count' = runner_count + 1
  /\ UNCHANGED <<threads_stopping, next_thread_id, runner, heap, os_thread,
                 returned, at, actorVars, stop_requested, closed>>

Acquired(i) == {x \in StepNames : <<i, x>> \in heap}

(* Mutant: the copy of the entry message is not waited for.                *)
AllAcquiredButInput(a) ==
  \A k \in DOMAIN Steps : k < Len(Steps) => <<tid[a], Steps[k]>> \in heap

AllAcquired(a) == \A k \in DOMAIN Steps : <<tid[a], Steps[k]>> \in heap

NextStep(a, x) ==
  \E k \in DOMAIN Steps :
    /\ Steps[k] = x
    /\ <<tid[a], x>> \notin heap
    /\ \A j \in 1..(k - 1) : <<tid[a], Steps[j]>> \in heap

(* What the module's own allocator provides takes a call into the module.  *)
InReach(a, x) == x \in {"stack", "tls", "input"} => CanCallModule(a)

Acquire(a) ==
  /\ pc[a] = "acquire"
  /\ \E x \in StepNames :
       /\ NextStep(a, x) /\ InReach(a, x)
       /\ heap' = heap \cup {<<tid[a], x>>}
  /\ UNCHANGED <<registryVars, os_thread, returned, at, actorVars,
                 stop_requested, closed>>

(* Acquiring a resource fails, before it is allocated or after: a stack    *)
(* outside the memory, an instance without the entry point, a TLS block    *)
(* whose initialiser traps.                                                *)
AcquireFails(a) ==
  /\ pc[a] = "acquire"
  /\ "acquire" \in Faults
  /\ \E x \in StepNames :
       /\ NextStep(a, x) /\ InReach(a, x)
       /\ \/ heap' = heap
          \/ x # "input" /\ heap' = heap \cup {<<tid[a], x>>}
  /\ pc' = [pc EXCEPT ![a] = "release"]
  /\ UNCHANGED <<registryVars, os_thread, returned, at, job, slot, tid, got,
                 stop_requested, closed>>

(* The worker runs, and may even return, before its creator publishes it.  *)
StartThread(a) ==
  /\ pc[a] = "acquire"
  /\ AllAcquired(a)
  /\ os_thread' = [os_thread EXCEPT ![tid[a]] = "running"]
  /\ at' = [at EXCEPT ![tid[a]] = slot[a]]
  /\ pc' = [pc EXCEPT ![a] = "publish"]
  /\ UNCHANGED <<registryVars, heap, returned, job, slot, tid, got,
                 stop_requested, closed>>

StartFails(a) ==
  /\ pc[a] = "acquire"
  /\ "os_create" \in Faults
  /\ AllAcquired(a)
  /\ pc' = [pc EXCEPT ![a] = "release"]
  /\ UNCHANGED <<registryVars, heap, os_thread, returned, at, job, slot, tid,
                 got, stop_requested, closed>>

Finish(a, next) ==
  /\ pc' = [pc EXCEPT ![a] = next]
  /\ slot' = [slot EXCEPT ![a] = NoRunner]
  /\ tid' = [tid EXCEPT ![a] = 0]
  /\ got' = [got EXCEPT ![a] = NoReply]
  /\ job' = [job EXCEPT ![a] = IF next = "idle" THEN "none" ELSE @]

PublishThread(a) ==
  /\ pc[a] = "publish"
  /\ runner' = [runner EXCEPT ![slot[a]].handle = TRUE,
                              ![slot[a]].creating = FALSE]
  /\ Finish(a, "idle")
  /\ UNCHANGED <<threads_stopping, next_thread_id, runner_count, heap,
                 os_thread, returned, at, stop_requested, closed>>

-----------------------------------------------------------------------------
(* A worker returns from its thread entry; its reply is copied into the    *)
(* runner and the OS thread ends.                                          *)

WorkerReturn(i) ==
  /\ os_thread[i] = "running"
  /\ pc[i] = "idle"
  /\ at[i] \in Slots
  /\ \E r \in Replies \cup {NoReply} :
       /\ returned' = [returned EXCEPT ![i] = r]
       /\ runner' = [runner EXCEPT ![at[i]].thread_reply = r]
  /\ os_thread' = [os_thread EXCEPT ![i] = "exited"]
  /\ at' = [at EXCEPT ![i] = NoRunner]
  /\ UNCHANGED <<threads_stopping, next_thread_id, runner_count, heap,
                 actorVars, stop_requested, closed>>

-----------------------------------------------------------------------------
(* "Join thread ID": claim the thread, wait for it, take its reply, delete *)
(* its runner.                                                             *)

(* Mutant: a thread that is being joined can be joined once more.          *)
JoinableTwice(a, s, id) ==
  /\ runner[s].in_use
  /\ runner[s].thread_id = id
  /\ ~runner[s].creating
  /\ at[a] # s

(* The slot a join of this ID by this actor claims.  A thread is told from *)
(* the one it would join by the runner it is executing on.                 *)
Joinable(a, s, id) ==
  /\ runner[s].in_use
  /\ runner[s].thread_id = id
  /\ ~runner[s].creating
  /\ ~runner[s].joining
  /\ at[a] # s

Claim(a, s) ==
  /\ runner' = [runner EXCEPT ![s].joining = TRUE]
  /\ slot' = [slot EXCEPT ![a] = s]
  /\ tid' = [tid EXCEPT ![a] = runner[s].thread_id]
  /\ pc' = [pc EXCEPT ![a] = "join"]

ClaimJoin(a) ==
  /\ MayCommand(a)
  /\ \E s \in Slots, id \in ThreadIds : Joinable(a, s, id) /\ Claim(a, s)
  /\ job' = [job EXCEPT ![a] = "join"]
  /\ UNCHANGED <<threads_stopping, next_thread_id, runner_count, heap,
                 os_thread, returned, at, got, stop_requested, closed>>

(* Mutant: the runner keeps the reply it has handed over.                  *)
TakenWithoutReset(r) == [r EXCEPT !.handle = FALSE]

(* A runner whose OS thread has been joined and whose reply has been taken. *)
Taken(r) == [r EXCEPT !.handle = FALSE, !.thread_reply = NoReply]

JoinReturns(a) ==
  /\ pc[a] = "join"
  /\ os_thread[tid[a]] = "exited"
  /\ got' = [got EXCEPT ![a] = runner[slot[a]].thread_reply]
  /\ runner' = [runner EXCEPT ![slot[a]] = Taken(@)]
  /\ pc' = [pc EXCEPT ![a] = "release"]
  /\ UNCHANGED <<threads_stopping, next_thread_id, runner_count, heap,
                 os_thread, returned, at, job, slot, tid, stop_requested,
                 closed>>

(* Mutant: a shutdown ends with the first thread it joins.                 *)
AfterJobIdle(a) == "idle"

(* A join made by a shutdown returns to its loop.                          *)
AfterJob(a) == IF job[a] = "stop" THEN "scan" ELSE "idle"

JoinFails(a) ==
  /\ pc[a] = "join"
  /\ "os_join" \in Faults
  /\ runner' = [runner EXCEPT ![slot[a]].joining = FALSE]
  /\ Finish(a, AfterJob(a))
  /\ UNCHANGED <<threads_stopping, next_thread_id, runner_count, heap,
                 os_thread, returned, at, stop_requested, closed>>

-----------------------------------------------------------------------------
(* Deleting a runner, after a join or a creation that failed.              *)

FreeResources(a) ==
  /\ pc[a] = "release"
  /\ CanCallModule(a)
  /\ heap' = heap \ ({tid[a]} \X FreedBeforeClear)
  /\ pc' = [pc EXCEPT ![a] = "clear"]
  /\ UNCHANGED <<registryVars, os_thread, returned, at, job, slot, tid, got,
                 stop_requested, closed>>

ClearSlot(a) ==
  /\ pc[a] = "clear"
  /\ runner' = [runner EXCEPT ![slot[a]] = FreeRunner]
  /\ IF Backend = "translated"
     THEN Finish(a, AfterJob(a))
     ELSE /\ pc' = [pc EXCEPT ![a] = "destroy"]
          /\ slot' = [slot EXCEPT ![a] = NoRunner]
          /\ UNCHANGED <<job, tid, got>>
  /\ UNCHANGED <<threads_stopping, next_thread_id, runner_count, heap,
                 os_thread, returned, at, stop_requested, closed>>

DestroyHost(a) ==
  /\ pc[a] = "destroy"
  /\ heap' = heap \ ({tid[a]} \X DestroyedLast)
  /\ Finish(a, AfterJob(a))
  /\ UNCHANGED <<registryVars, os_thread, returned, at, stop_requested,
                 closed>>

-----------------------------------------------------------------------------
(* wahe_module_join_threads: refuse new threads, ask the running ones to   *)
(* stop, join each of them.                                                *)

BeginShutdown(c) ==
  /\ pc[c] = "idle"
  /\ at[c] = NoRunner
  /\ threads_stopping' = TRUE
  /\ pc' = [pc EXCEPT ![c] = IF \E s \in Slots : runner[s].in_use
                             THEN "notify" ELSE "scan"]
  /\ job' = [job EXCEPT ![c] = "stop"]
  /\ UNCHANGED <<next_thread_id, runner_count, runner, heap, os_thread,
                 returned, at, slot, tid, got, stop_requested, closed>>

SendStop(c) ==
  /\ pc[c] = "notify"
  /\ CanCallModule(c)
  /\ stop_requested' = TRUE
  /\ pc' = [pc EXCEPT ![c] = "scan"]
  /\ UNCHANGED <<registryVars, heap, os_thread, returned, at, job, slot, tid,
                 got, closed>>

Unclaimed(s) == runner[s].in_use /\ ~runner[s].creating /\ ~runner[s].joining

(* The thread of the last unclaimed slot is joined next...                 *)
PickThread(c) ==
  /\ pc[c] = "scan"
  /\ \E s \in Slots :
       /\ Unclaimed(s)
       /\ \A t \in Slots : Unclaimed(t) => t <= s
       /\ tid' = [tid EXCEPT ![c] = runner[s].thread_id]
  /\ pc' = [pc EXCEPT ![c] = "picked"]
  /\ UNCHANGED <<registryVars, heap, os_thread, returned, at, job, slot, got,
                 stop_requested, closed>>

JoinPicked(c) ==
  /\ pc[c] = "picked"
  /\ \E s \in Slots : Joinable(c, s, tid[c]) /\ Claim(c, s)
  /\ UNCHANGED <<threads_stopping, next_thread_id, runner_count, heap,
                 os_thread, returned, at, job, got, stop_requested, closed>>

(* ...unless another join has claimed it since.  While slots are in use    *)
(* and none of them is unclaimed, the loop sleeps.                         *)
MissPicked(c) ==
  /\ pc[c] = "picked"
  /\ \A s \in Slots : ~Joinable(c, s, tid[c])
  /\ Finish(c, "scan")
  /\ UNCHANGED <<registryVars, heap, os_thread, returned, at,
                 stop_requested, closed>>

(* Mutant: only the threads the loop could join count.                     *)
RemainingUnclaimed == {s \in Slots : Unclaimed(s)}

Remaining == {s \in Slots : runner[s].in_use}

EndShutdown(c) ==
  /\ pc[c] = "scan"
  /\ Remaining = {}
  /\ closed' = TRUE
  /\ Finish(c, "idle")
  /\ UNCHANGED <<registryVars, heap, os_thread, returned, at,
                 stop_requested>>

-----------------------------------------------------------------------------

CreateStep(a) ==
  \/ Acquire(a) \/ AcquireFails(a) \/ StartThread(a) \/ StartFails(a)
  \/ PublishThread(a)

DeleteStep(a) == FreeResources(a) \/ ClearSlot(a) \/ DestroyHost(a)

ShutdownStep(c) ==
  \/ SendStop(c) \/ PickThread(c) \/ JoinPicked(c) \/ MissPicked(c)
  \/ EndShutdown(c)

Next ==
  \/ \E a \in Actors :
       \/ ClaimSlot(a) \/ ClaimFails(a) \/ CreateStep(a)
       \/ ClaimJoin(a) \/ JoinReturns(a) \/ JoinFails(a)
       \/ DeleteStep(a)
  \/ \E c \in Callers :
       EnterModule(c) \/ LeaveModule(c) \/ BeginShutdown(c) \/ ShutdownStep(c)
  \/ \E i \in ThreadIds :
       WorkerReturn(i) \/ ReenterModule(i) \/ ReturnFromReentry(i)

Spec == Init /\ [][Next]_vars

(* Threads that can take a step take it, and a mutex that is released      *)
(* again and again is eventually obtained.  Workers are cooperative: they  *)
(* return from their thread entry once the module has been asked to stop.  *)
(* Guest code that joins nothing returns.  Nobody has to issue a command.  *)
Fairness ==
  /\ \A a \in Actors :
       /\ WF_vars(CreateStep(a))
       /\ WF_vars(JoinReturns(a))
       /\ SF_vars(FreeResources(a))
       /\ WF_vars(ClearSlot(a))
       /\ WF_vars(DestroyHost(a))
  /\ \A c \in Callers :
       /\ WF_vars(LeaveModule(c))
       /\ SF_vars(SendStop(c))
       /\ WF_vars(PickThread(c) \/ JoinPicked(c) \/ MissPicked(c)
                 \/ EndShutdown(c))
  /\ \A i \in ThreadIds :
       /\ WF_vars(stop_requested /\ WorkerReturn(i))
       /\ WF_vars(ReturnFromReentry(i))

FairSpec == Spec /\ Fairness

-----------------------------------------------------------------------------
(* Type invariant.                                                         *)

Runner == [in_use : BOOLEAN, thread_id : 0..MaxId, creating : BOOLEAN,
           joining : BOOLEAN, handle : BOOLEAN,
           thread_reply : Replies \cup {NoReply}]

PcStates == {"idle", "acquire", "publish", "join", "release", "clear",
             "destroy", "notify", "scan", "picked"}

(* Every variable holds a value of its C type: in particular the next      *)
(* thread ID stays within the width of a size_t.                           *)
TypeOK ==
  /\ threads_stopping \in BOOLEAN
  /\ next_thread_id \in 0..MaxId
  /\ runner_count \in Initial..Capacity
  /\ runner \in [Slots -> Runner]
  /\ heap \subseteq ThreadIds \X StepNames
  /\ os_thread \in [ThreadIds -> {"none", "running", "exited"}]
  /\ returned \in [ThreadIds -> Replies \cup {NoReply}]
  /\ at \in [Actors -> InitialRunners \cup Slots \cup {NoRunner}]
  /\ pc \in [Actors -> PcStates]
  /\ job \in [Actors -> {"none", "create", "join", "stop"}]
  /\ slot \in [Actors -> Slots \cup {NoRunner}]
  /\ tid \in [Actors -> 0..MaxId]
  /\ got \in [Actors -> Replies \cup {NoReply}]
  /\ stop_requested \in BOOLEAN
  /\ closed \in BOOLEAN

-----------------------------------------------------------------------------
(* Safety.                                                                 *)

(* While a worker runs, the runner it executes on stays registered under   *)
(* its ID with every resource it was given: no join, failed creation or    *)
(* shutdown releases or hands over a runner in use.                        *)
WorkerRunnerIntact ==
  \A i \in ThreadIds : os_thread[i] = "running" =>
    /\ \A k \in DOMAIN Steps : <<i, Steps[k]>> \in heap
    /\ \E s \in Slots : runner[s].in_use /\ runner[s].thread_id = i

(* A slot is worked on by one actor at a time, whichever mix of creations, *)
(* joins and shutdowns runs: a runner is deleted once.                     *)
ExclusiveSlots ==
  \A a, b \in Actors : slot[a] \in Slots /\ slot[a] = slot[b] => a = b

(* Two registered threads never share an ID, so that a join by ID finds    *)
(* the thread that was meant.                                              *)
UniqueIds ==
  \A s, t \in Slots :
    runner[s].in_use /\ runner[t].in_use /\
    runner[s].thread_id = runner[t].thread_id => s = t

(* Once a join has got through, it has the reply of the thread it joined,  *)
(* and the runner it goes on to delete does not own that reply any more.   *)
ReplyHandedOver ==
  \A a \in Actors :
    pc[a] \in {"release", "clear"} /\ job[a] \in {"join", "stop"} =>
      /\ os_thread[tid[a]] = "exited"
      /\ got[a] = returned[tid[a]]
      /\ runner[slot[a]].thread_reply = NoReply

(* Nothing leaks on any path: a resource that is alive belongs to a thread *)
(* still registered, or to one whose last resources are being destroyed.   *)
NoLeak ==
  \A i \in ThreadIds : Acquired(i) # {} =>
    \/ \E s \in Slots : runner[s].in_use /\ runner[s].thread_id = i
    \/ \E a \in Actors : pc[a] = "destroy" /\ tid[a] = i

(* When wahe_module_join_threads has returned, the module has no thread    *)
(* and never gets one again, whatever creations and joins were under way.  *)
ShutdownIsFinal ==
  closed => /\ \A s \in Slots : ~runner[s].in_use
            /\ \A i \in ThreadIds : os_thread[i] # "running"

-----------------------------------------------------------------------------
(* The inductive invariant behind them.                                    *)

Issued(i) == next_thread_id = 0 \/ i < next_thread_id

Registered(i) == \E s \in Slots : runner[s].in_use /\ runner[s].thread_id = i

Owning    == {"acquire", "publish", "join", "release", "clear"}
Deleting  == {"release", "clear"}

(* An actor working on a slot works on a registered runner, which carries  *)
(* the flag its job has claimed it with.                                   *)
ClaimInv ==
  \A a \in Actors :
    /\ slot[a] \in Slots <=> pc[a] \in Owning
    /\ pc[a] \in Owning =>
         /\ runner[slot[a]].in_use
         /\ runner[slot[a]].thread_id = tid[a]
         /\ runner[slot[a]].creating <=> job[a] = "create"
         /\ runner[slot[a]].joining <=> job[a] # "create"
         /\ job[a] # "none"
    /\ pc[a] \in {"acquire", "publish"} => job[a] = "create"
    /\ pc[a] = "join" => job[a] # "create"
    /\ pc[a] \in {"notify", "scan", "picked"} => job[a] = "stop"

(* Registered threads have IDs issued before.                              *)
IdInv ==
  \A s \in Slots : runner[s].in_use =>
    runner[s].thread_id \in ThreadIds /\ Issued(runner[s].thread_id)

(* Who owns which slot, on its own inductive.                              *)
SlotInv == TypeOK /\ ClaimInv /\ ExclusiveSlots /\ IdInv /\ UniqueIds

(* How far the OS thread is, at each point of a creation or deletion, and  *)
(* once its runner is no longer being created.                             *)
StageInv ==
  /\ \A s \in Slots : runner[s].in_use /\ ~runner[s].creating =>
       os_thread[runner[s].thread_id] # "none"
  /\ \A a \in Actors :
       /\ pc[a] = "acquire" => os_thread[tid[a]] = "none"
       /\ pc[a] = "publish" => os_thread[tid[a]] # "none"
       /\ pc[a] \in Deleting => os_thread[tid[a]] # "running"
       /\ pc[a] = "destroy" =>
            /\ tid[a] \in ThreadIds
            /\ Issued(tid[a])
            /\ ~Registered(tid[a])
            /\ os_thread[tid[a]] # "running"

(* No OS thread has been started under an ID not yet issued.               *)
FreshInv ==
  \A i \in ThreadIds : ~Issued(i) => os_thread[i] = "none"

(* A running worker is on its own runner or has re-entered runner 0.       *)
PlaceInv ==
  \A i \in ThreadIds : os_thread[i] = "running" /\ at[i] \in Slots =>
    runner[at[i]].in_use /\ runner[at[i]].thread_id = i

(* Resources are those of the backend and are released in its order.       *)
HeapInv ==
  /\ \A h \in heap : \E k \in DOMAIN Steps : h[2] = Steps[k]
  /\ \A a \in Actors : pc[a] \in {"clear", "destroy"} =>
       \A x \in FreedBeforeClear : <<tid[a], x>> \notin heap

(* The reply of a thread that has ended waits in its runner for the join.  *)
WaitingReply ==
  \A s \in Slots :
    runner[s].in_use /\ os_thread[runner[s].thread_id] = "exited" =>
      \/ runner[s].thread_reply = returned[runner[s].thread_id]
      \/ \E a \in Actors : slot[a] = s /\ pc[a] \in Deleting

(* A shutdown refuses new threads for as long as it works and for good.    *)
StoppingInv ==
  /\ closed => threads_stopping
  /\ \A a \in Actors : job[a] = "stop" => threads_stopping

IndInv ==
  /\ SlotInv
  /\ StageInv /\ FreshInv /\ PlaceInv /\ HeapInv /\ NoLeak /\ WorkerRunnerIntact
  /\ WaitingReply /\ ReplyHandedOver /\ StoppingInv /\ ShutdownIsFinal

-----------------------------------------------------------------------------
(* Refinement.                                                             *)

LifeOf(i) ==
  CASE os_thread[i] = "running"                   -> "live"
    [] os_thread[i] = "exited" /\ Registered(i)   -> "finished"
    [] os_thread[i] = "exited" /\ ~Registered(i)  -> "joined"
    [] os_thread[i] = "none" /\ Registered(i)     -> "creating"
    [] os_thread[i] = "none" /\ ~Registered(i) /\ Issued(i)  -> "failed"
    [] os_thread[i] = "none" /\ ~Registered(i) /\ ~Issued(i) -> "unborn"

Lifecycle == INSTANCE ThreadLifecycle WITH
  Limit   <- Capacity - Initial,
  life    <- [i \in ThreadIds |-> LifeOf(i)],
  open    <- ~threads_stopping,
  settled <- closed

(* The registry keeps the promise of ThreadLifecycle.                      *)
ImplementsLifecycle == Lifecycle!Spec

-----------------------------------------------------------------------------
(* Liveness.                                                               *)

(* A shutdown returns.                                                     *)
ShutdownReturns == threads_stopping ~> closed

(* A creation succeeds or fails, it does not wait for other threads.       *)
CreationSettles == \A a \in Actors : job[a] = "create" ~> job[a] = "none"

(* The stop request of a shutdown reaches the module.                      *)
StopIsDelivered == \A c \in Callers : pc[c] = "notify" ~> stop_requested

(* No thread waits for itself to end.                                      *)
NoSelfWait == \A i \in ThreadIds : ~(pc[i] = "join" /\ tid[i] = i)

=============================================================================
