# Verification of WAHE's host library

WAHE (`src/wahelib`) is a C library that hosts WebAssembly and native modules,
lets them exchange text messages, and runs them in chains. This directory holds
TLA+ modules of its concurrent and stateful parts, TLC configurations that check
them on small instances, and proofs checked by TLAPS.

## 1. The system

| Component | Source | State it keeps | Operations |
|---|---|---|---|
| Module threads | `wahe_threads.c` | per module: runner registry, `next_thread_id`, `threads_stopping` | create, worker main, join, delete, shut down |
| Module calls | `wahe_core.c` 27-98, 846-1226, `wahe_wamr.c` 242-297 | process-wide failure flag; per runner a recursive mutex; per thread the current runner of each backend | call, callback, trap, report, park, exit |
| Command registry | `wahe_core.c` 1303-1408, 2684-2765 | per group: registrations and their sequence counter | register, unregister, look up, interpret, forward |
| Execution chains | `wahe_execution.c`, `wahe_core.c` 2635-2683 | per chain: `current_eo`, `current_cmd_proc_id`; per order: addresses of its input and return message; per thread: `wahe_cur_chain` | execute, transfer input, call order, process command, run nested chain |
| Host commands | `wahe_host_commands.c` | none of their own | one handler per command |
| Message transfer | `wahe_core.c` 2084-2632 | none | measure, lay out and copy a message with its payloads |
| Module memory | `wahe_core.c` 320-585, `wahe_virtual_memory.c` | per module: reserved, committed and active sizes | initialise, enlarge, shrink, reclaim |
| Runner stacks, TLS | `wahe_core.c` 590-615, 1411-1725 | per runner: a slice of the linear stack or a stack of its own, a TLS block | divide, align, blank |
| Initialisation | `wahe_core.c` 1727-2082, `wahe_wamr.c` 391-570 | the record of the module being loaded and what was acquired for it | load, instantiate, initialise runners, clean up after a failure |
| Group files | `wahe_parser.c` | module slots, symbol tables, chains, orders | parse a file, extend a group, initialise the group |
| Native translation | `wahe_wasm2native.c` | settings, the translator library, cached translations, background builds | choose a backend, look up, build, build in the background |
| Wasm binary parser | `wasm/wasm_binary_parser.c` | none | read the memory, stack pointer and data segments of a binary |
| wasm2c | `wasm2c/` | - | vendored code generator |
| Support | `rl_utils/` | recursive mutexes | lock, unlock |

How they interact. A host thread executes a *chain*; the chain copies a message
into a module's memory and *calls* one of its functions on a *runner*. The guest
code calls back into the host with *commands*: these pass the order's command
processors, are looked up in the *registry* and executed by the host or
forwarded to another module, which is another call on the same thread. Host
commands create and join *threads*, each with a runner of its own, and run other
chains. A call that traps ends the process.

What is hard here, and what makes each component correct:

* **Threads.** Creations, joins and shutdowns interleave on the registry, which
  is locked only for short sections; every step of a creation may fail; workers
  return before they are published; the join that waits holds the mutex of the
  runner it was called from. A runner in use must never be deleted, a runner is
  deleted once, nothing leaks, IDs stay unique across wrap-around, a shutdown
  is final and returns.
* **Calls.** Threads share runners through recursive mutexes, nest calls across
  modules, and trap at any point while others wait for the same mutex. Runners
  must be exclusive, callbacks routed to the runner that issued them, one thread
  must report a failure, and the process must end.
* **Registry.** Registrations change between the lookups of one line. Nothing
  that stays registered is overlooked, each reply allocation has one owner,
  every message ends.
* **Chains.** A running chain's state is kept in the chain and its orders, so
  that nesting matters. Input copies are freed, the thread's chain is restored,
  commands pass all processors.
* **Memory and transfer.** Memories grow and shrink while host threads hold
  sizes and pointers they have checked before. A cached size must be current, what
  is accessed must be backed, addresses must mean the same bytes to the receiver,
  a block is given back if the transfer cannot use it.
* **Loading.** A module is loaded in some twenty steps, of which almost each can
  fail, on three backends, chosen from the file, its options, the host's settings,
  and what an earlier launch has left in a cache. Stacks and TLS blocks of runners
  must be apart, initialisation must not overwrite static data, a failure must
  undo what was done in the right order, a module must run on the backend that
  was asked for, and what refers to a module by position or address must stay
  true while later files extend the group.

The `hazards` of `PROJECT.json` list these at their lines.

## 2. Modules

| Module | Role |
|---|---|
| `ThreadLifecycle` | abstract: an ID is issued once, names one thread through one life, is joined at most once |
| `ThreadRegistry` | `wahe_threads.c` on its three backends; refines `ThreadLifecycle` |
| `ThreadRegistryProofs` | slots and IDs of `ThreadRegistry`, proved |
| `ThreadStagesProofs` | its threads, resources, replies and shutdown, and the refinement, proved |
| `ModuleCalls` | the calling core, its callbacks, and the failure protocol |
| `ModuleCallsProofs` | its safety properties, proved |
| `CommandRegistry` | registrations and the interpretation of messages |
| `CommandRegistryProofs` | its safety properties, proved |
| `ChainExecution` | chains, nested chains and command processors |
| `ChainExecutionProofs` | its safety properties, proved, and when groups have them |
| `ModuleMemory` | the memories of modules, their allocators and the host's view of their sizes |
| `MessageTransfer` | the transfer of a message into a module's memory, on top of `ModuleMemory` |
| `MessageTransferProofs` | the safety properties of memories and transfers, proved |
| `WasmBinary` | what is read from a Wasm binary before it is loaded |
| `RunnerStacks` | the arithmetic of stack slices, blanking and alignment |
| `RunnerStacksProofs` | theorems about that arithmetic |
| `NativeTranslation` | the choice of a backend, the cache and its background builds |
| `ModuleInit` | the initialisation of one module; uses the three above |
| `GroupLoading` | files, the module table and launches of the host; composes `ModuleInit` |
| `GroupLoadingProofs` | the safety properties of loading, proved |
| `MC...` | the small instances TLC checks |

The operators named in comments as *mutants* (`NextIdUnbounded`, `Kept`, ...) are
mutated forms of the definition that follows them. They are used by nothing and
show, when put in its place, that the properties notice.

### ThreadRegistry

`runner` is the array of dynamic runners (`wahe_wasm_decomp_runner_t`, or the
object a slot of `ctx->runner` points to, where `in_use` stands for a non-null
pointer). An *actor* is a host thread (`Callers`) or a worker, named by its thread
ID. `pc`, `job`, `slot`, `tid` and `got` are the locals of the operation the actor
is in; `at` is the runner it executes guest code on, whose mutex it holds.
`heap` is the set of resources alive, each with the thread it was acquired for.

A critical section under `ctx->mutex` is one action; a call into the module is an
action that needs the runner's mutex; the wait for an OS thread is one. So
"Create thread with" is `ClaimSlot`, one `Acquire` per resource, `StartThread`,
`PublishThread`; any of them may instead be `ClaimFails`, `AcquireFails` or
`StartFails`, followed by the deletion `FreeResources`, `ClearSlot`,
`DestroyHost`. "Join thread ID" is `ClaimJoin`, `JoinReturns` or `JoinFails`, and
the deletion. `wahe_module_join_threads` is `BeginShutdown`, `SendStop` and a loop
of `PickThread`, `JoinPicked` or `MissPicked`, ended by `EndShutdown`; the loop's
sleep is the absence of a step. `EnterModule` and `LeaveModule` are a chain's call;
`ReenterModule` is a worker's call of another module that calls back.

Abstractions. The registries of the WebAssembly backends grow without a limit of
their own: `Capacity` bounds them. `MaxId` stands for the largest `size_t`. A stack
size or message the code refuses before it locks anything changes no state and
is not an action. A module is taken to export `module_message_input` (without it a
shutdown sends no request). `stop_requested` and `closed` are history variables.

### ModuleCalls

Per thread, `stack` is the C stack of `call_module_func_core_on_runner` and
`cur_runner` the thread-local current runner, one per backend. `MayCall` says
which runner a call uses: a configured one from a chain, the active one
(`wahe_active_runner_id`) from a callback. The points at which the code looks at
the failure flag differ per backend and are guards: Wasmtime inside the mutex
(`Rechecked`) and after the call, WAMR before the mutex and after the call,
native calls only at their beginning. A parked thread takes no step. `ctx` is the
part of the module records that matters: the backend, and `valid`, which may be
false from the beginning: a module whose initialisation failed.

### CommandRegistry

`cmd_reg` is the registry in the order of registration. `RegisterCommands` is a
module's startup list, in one critical section. `RunCommand` to `ReturnReply` are
one run of `wahe_run_command_core`: `FindRegistration` is one lookup, which copies
the registration; `HostCommand`, `RegisterCommand`, `UnregisterCommand` are the
handlers, whose *verdict* on a line (declined, handled, replied, refused) is part
of the line; `Forward...` the call of the owning module. A command is an abstract
name and a line the set of commands it begins with, so that hashes and words are
abstracted, but not their limit: a command of more than `MaxWords` words is never
found. `live` is the set of reply allocations; `tried` and `lasting` are history
variables.

### ChainExecution

A thread's `stack` holds activations of chains, of order functions and of
command processors. Chains and orders keep `current_eo`, `current_cmd_proc_id`,
`dst_msg` and `ret_msg` as in the code, shared by all activations. `live` is the set
of the input copies made on a thread's behalf. A processor handles its command by
issuing at most one, on which the processors already seen are remembered;
`interpreted` records what had seen the last command that left the processors.
Orders that are not module functions (images, keyboard, display) hold no state
here and are skipped, as in `wahe_execute_chain_from_module`. A group is given by the
constants `Orders`, `Starts` and `Nested`; `Layered` says of one that each chain
belongs to one thread and executes only chains of a higher level, and `EnteredOnce`
of a state that no chain has two activations.

### ModuleMemory

A memory is described by its *active* size, which the runtime or the variable at
`memory_size_addr` knows, its *backed* size, up to which it has pages, and
`memory_size`, the size the host caches. `live` holds the blocks the allocator of
the module has given out; the first one stands for the module's static data,
where its outgoing messages are. The allocator is guest code and external: first
fit, growth on demand, and after each free it may ask for the tail to be given
back while it holds its own lock (`FreeBlock`, then `KeepTail`, `ShrinkTranslated`
or `ShrinkWasmtime`). Shrinking follows `wahe_hcmd_shrink_memory` per kind:
translated memories lose their pages at once, ordinary Wasmtime memories too, in
the mutex of their runner, shared ones only at `Reclaim`. To learn a size, a thread
takes the steps `Ask`, `SampleSize`, `PublishSize`, `ReadSize`, which are
`wahe_refresh_module_memory_size` followed by `wahe_get_module_memory_size`, with
the locks each kind holds in between (`HeldForSample`). `current` is a history
variable: the sizes a memory has had since a thread asked.

### MessageTransfer

One action per stage of `wahe_copy_message_between_modules_on_runner`: `Measure`, a
loop of `Scan`, `Resolve`, `PlaceLocation` and `ReserveText` per location
descriptor, `AlignText` and `PackPayload` for the layout, `AllocateBlock`,
`CheckSize` and `ValidateBlock`, `RewriteText`, `CopyPayloads`. A text is its length
and the list of its descriptors; of a written address the model keeps the length,
which is computed as `%#zx` and `PRIdMAX` do (`AddressLen`), since whether the
rewritten text fits is one of the questions. Addresses have `SizeBytes` bytes, and
host addresses, offsets and tagged host addresses are told apart as in the code;
`Meaning` is the reference they are checked against. A message is processed and
its block freed by the caller (`FreeTransferred`). The checks of the failure flag
at the entry are in `ModuleCalls`.

### WasmBinary, RunnerStacks

Pure operators. A binary is the sequence of its sections, each a number and its
entries; the byte cursor and LEB128 numbers are abstracted. `Section` is
`wasmbin_jump_to_section`, which stops at the first section of a kind;
`ReadMemoryInfo`, `OnlyPassiveData` and `ReadStackPointer` are the functions of
these names. `RunnerStacks` has `Divisible`, the checks that both
`wahe_set_wasmtime_runner_stack` and `wahe_init_translated_runners` make before a
stack is divided, `Slice`, `BlankedRegion` (`wahe_blank_module_stack`) and
`AlignedBlock` (TLS blocks and thread stacks).

### NativeTranslation

`host` is the build and its environment, chosen at the beginning. `settings` and
`lib` are the module-level variables of `wahe_wasm2native.c`; `cache` and `jobs` are
pairs of a directory and a path. `wahe_wasm2native_resolve` is split where it waits
or reads what another thread writes: `DeclineTranslation` (its early returns),
`LookUpTranslation`, and `BuildNow` or `BuildInBackground`. A background build ends
at any time (`BackgroundBuildEnds`), or dies with the process
(`RestartTranslation`). The translator is external: it has a complete translation
or none. Two builds of one path in one directory are one element of `jobs`. The
mode is only set while no build is under way (see 6).

### ModuleInit

`wahe_module_init_with_backend` for the last record of `ctx`. `load.stage` is the
program counter, `load.i` the loop over runners, `held` what has been acquired and
must be given back in an order. After the choice of a backend come `ReadImage` to
`InitWasmtimeRunner` for Wasmtime, `LoadImage` to `CreateEnvironment` for WAMR,
`OpenLibrary` to `TranslatedRunner` for translations and native libraries, and then
what they share: `RuntimeSymbols`, `InitMemory`, `InitTls` per runner, `BlankStack`,
`RegisterModule`. `StepFails` lets every fallible step fail and continues with what
the failing function undoes (`UndoStage`). A module file is a record: its binary,
layout (stack, data, heap) and exports. The addresses WAMR chooses for the
stacks of further environments (`AuxStack`) are external and taken from how the
host reads them. The record fields `self` (the address), `writes` (how often the
static data were written), `blanked`, `shares`, `mode`, `waited`, `backend` and `wide`
are history or derived. The first calls of a module, made while it is
registered, are those of `ModuleCalls` and `CommandRegistry` and not repeated.

### GroupLoading

`wahe_file_parse`, one action per kind of line; `parse` holds its locals and
symbol tables. A line is what it refers to: a module line its name, path,
runners and backend, an order its name, module and runner, and so on; scanning
the text is abstracted, and a line the scanner refuses is `options_valid = FALSE`.
An error the parser goes on from sets `errors`, one it does not go on from
jumps to the end (`GiveUp`). `group.reserved` counts the reservations made for the
module table, so that <<reserved, m>> is the address of a record; `module_as` is
the committed size (`wahe_alloc_stable_module_slots`). `said` remembers the name an
order or processor was given. `GroupInit` is `wahe_group_init` with its CITA index.
`Restart` ends the process at any point, also in the middle of an
initialisation: only `cache` survives.

## 3. Runs

| Run | Checks | Instance |
|---|---|---|
| `ThreadRegistry.cfg` | type, `WorkerRunnerIntact`, `ExclusiveSlots`, `UniqueIds`, `ReplyHandedOver`, `NoLeak`, `ShutdownIsFinal`, refinement of `ThreadLifecycle` | Wasmtime, 2 callers on runners of their own, 2 slots, IDs 1..3, every fault, re-entrant workers that create and join |
| `ThreadShutdown.cfg` | `ShutdownReturns`, `CreationSettles` | translated, 2 callers, 2 slots, 2 IDs, failing creations |
| `ThreadStopRequest.cfg` | `StopIsDelivered` is violated | callers on runner 0 |
| `ThreadSelfJoin.cfg` | `NoSelfWait` is violated | WAMR, a re-entrant worker |
| `ModuleCalls.cfg` | type, `RunnerExclusive`, `RoutedToCaller`, `OneReporter`, `TrappedRunnerStaysOut`, `FailureEndsProcess`, `CallsReturn` | 2 modules, one with 2 runners, 2 threads; both of Wasmtime, or a WAMR module that calls a translated one |
| `DataPath.cfg` | types, `SizeIsCurrent`, `LiveBlocksBacked`, `IdlePagesPending`, `PayloadsSeparate`, `AddressesMean`, `AccessesBacked`, `RefusedForCause`, `BlocksReturned` | 2 modules of 5 pairs of kinds, 12 messages, a transferring thread, a guest thread and a thread that reads sizes |
| `WamrMemorySize.cfg` | `SizeIsCurrent` is violated | the same on a WAMR memory |
| `CommandRegistry.cfg` | type, `NothingOverlooked`, `RepliesOwnedOnce`, `MessagesEnd` | 2 modules, 2 threads, 5 registrations in all |
| `ChainExecution.cfg` | type, `InputsFreed`, `ChainRestored`, `CascadeComplete` | 3 chains, 2 threads, one processor per order |
| `ProcessorCascade.cfg` | `CascadeComplete` is violated | an order with two processors |
| `GroupLoading.cfg` | type, `StaticDataIntact`, `StacksDisjoint`, `CleanedUp`, `ReferencesHold`, `TranslationAsAsked` | hosts with Wasmtime, WAMR or no runtime, five environments, with and without a whole translator; files of one to three modules; 14 module files |
| `DataFirstBlank.cfg` | `StaticDataIntact` is violated | the same with a data-first module that does not export `__data_end` |

Why the bounds suffice. Two slots and three IDs let a slot be reused, the
registry be full, the IDs be exhausted, and three operations race for one
thread; a third slot adds no kind of interference, since operations meet in one
slot. Two threads are the fewest that wait for each other; nested calls are deep
enough for a module to be re-entered below another. The registry's bound leaves
room for two overrides of a host command and their withdrawal while another
thread is between two lookups. In `ChainExecution.cfg` no chain is entered
twice, so that the nesting bound is never met: TLC evaluates the assumption
`GroupsLayered` of `MCChainExecution`, which says that the group is layered. In `DataPath.cfg` addresses have one
byte, so that every sum of the layout can reach `SizeMax`; a memory has one to
three pages of 16 bytes, the fewest with which it can grow, be clamped, shrink to
its minimum and be regrown before it is reclaimed. The messages are chosen for the
branches: each way to refuse a message, none to two payloads, empty ones, one
that no size can hold, host addresses with and without the tag bit, and texts one
byte short of each limit. A faulty allocator returns one address at the end of the
largest memory, where the check of the block must not wrap. TLC evaluates the
hypotheses of the proofs on this instance (`SourcesKept`, `MadeUpOutside`); that no
module runs under WAMR holds of the kinds in `DataPath.cfg`. In `GroupLoading.cfg`
each of the 14 module files takes one branch of the initialisation (stack-first, data-first,
64-bit, shared, active data, uneven stack, missing exports, too small a memory,
no memory, a library, no file), with one or two runners on each backend, and with
three where the division of the stack can go wrong in more than one way. Groups of
up to three modules meet a reservation of `ReserveCount` = 3 slots, which is
committed in two steps, so that the table grows, or the commit fails. Two launches are
the fewest in which a cache entry is used; one directory besides the default one
is the fewest in which an entry is missed. `MaxAuxStacks` is 4, more than
the runners of any file. TLC evaluates the assumptions of the proofs on these files and
hosts (`ImagesAssumption`, `ScenariosAssumption`, `LayoutsAssumption`). All runs check for deadlock; `Ended` is the process that
has exited in `ModuleCalls`, and that is not started again in `GroupLoading`.

What the violated runs show, with the lines they contradict, is under `findings`
in `PROJECT.json`:

1. The stop request of a shutdown is a call on runner 0. A chain on runner 0 that
   joins a worker holds the runner until the worker ends; a worker that runs until
   it is told to stop is never told.
2. The self-join test compares runners. A worker called back through another
   module is on runner 0 and passes it.
3. The size of a WAMR memory is sampled before the lock it is published under, so
   that a stale size can replace a newer one and a valid block be refused.
4. Command processors do not cascade: the first command goes to the first
   processor only, the next one to the second.
5. The data of a data-first module that does not export `__data_end` are
   overwritten when its stack is blanked: an absent export reads as 0, which is
   below the stack's top.

Two deviations need no run of their own. WAMR calls print their exception before
they claim the failure (`PrintException` precedes `ClaimOutside`), so `OneReporter` is
stated of the other backends. A chain that is run again by one of its own
functions overwrites the outer run's `dst_msg`, so that `InputsFreed` fails; it is
proved under `EnteredOnce`, and for layered groups without it (see 5).

## 4. Fairness

Threads that can take a step take it (weak fairness): the operating system
schedules them. A mutex is obtained by a thread that wants it if it is released
again and again (strong fairness on the steps that lock a runner); without that,
no waiting call could be shown to return on any implementation of mutexes.
Guest code is assumed to return from its callbacks, and a worker from its thread
entry *once the module has been asked to stop*, which is the cooperation
`wahe_module_join_threads` relies on. Nobody has to issue a command: no creation,
join or call is fair. `ThreadShutdown.cfg` keeps the callers' chains off runner 0
and lets one worker create and join; with runner 0 in use the shutdown can block
(finding 1). `CallsReturn` and the calls of `ModuleCalls` use an acyclic call
graph: threads entering two modules in opposite orders deadlock, which the code
does not exclude. `OneReporter` and `TrappedRunnerStaysOut` are stated of the
calls whose code promises them, those of Wasmtime and of translated modules.
`DataPath.cfg` and `GroupLoading.cfg` check safety only and assume no fairness: a
guest's allocator, a runtime or a translator may take for ever.

## 5. Proofs

All proofs hold for every value of the constants that satisfies the named
assumptions. Each action has a lemma, with one step per conjunct it disturbs;
the strengthened invariants hold on the instances of the runs: to check, add
`IndInv`, `CallsInv`, `IInv`, and `Linked EnteredOnce InputsLent` to the INVARIANTS of
`ThreadRegistry.cfg`, `ModuleCalls.cfg`, `CommandRegistry.cfg` and
`ChainExecution.cfg`, and to those of `DataPath.cfg` `MemoriesSound ThreadsPlaced
MessagesInHand BlocksHeld LaidOut RoomMade Understood SamplesHeld BlocksKnown
BlockRefused BlocksInside`, to those of `GroupLoading.cfg` `RecordsSound LoadInStage
FilesFollowed LinksFollowed HeldInOrder ChoiceKept`.

**`ThreadRegistry`**, for every backend, any number of callers, slots and IDs and
any set of faults, from `RegistryAssumption`. The invariant has two layers.

`ThreadRegistryProofs` proves the first, `SlotInv`, and from it `TypesInvariant`,
`SlotsExclusive` and `IdsUnique` (`TypeOK`, `ExclusiveSlots`, `UniqueIds`). None of the
three is inductive. Two actors work on one slot only if a claim succeeds on a
slot already worked on; that it cannot follows from `ClaimInv`: an actor on a slot
has marked its runner `creating` or `joining`, and the marks are what `Joinable` and
`FirstFree` exclude. A release by one actor leaves the claim of another alone
because of `ExclusiveSlots` itself, so the two are proved together. `UniqueIds` needs
`IdInv`: a registered ID has been issued before, hence differs from the next one,
also after the counter has stopped at 0.

`ThreadStagesProofs` proves the second, `IndInv`, and from it `RunnersIntact`,
`RepliesHandedOver`, `NothingLeaks` and `ShutdownsFinal`. `StageInv` ties the progress of
an operation to the OS thread under its ID, `PlaceInv` keeps a worker on its own
runner, `HeapInv` orders the release of resources, `WaitingReply` keeps the reply of
an ended thread in its runner, `StoppingInv` keeps a shutdown in force. `FreshInv` is
needed for the step that issues an ID: nothing may run under it yet, which
`StageInv` alone says of registered IDs only.

Its last part proves `LifecycleImplemented`: `Spec => ImplementsLifecycle`. A life is computed from the OS thread, the registration and whether the ID has
been issued (`LifeOf`). `ClaimSlot` is `Issue`, `StartThread` is `Start`,
`WorkerReturn` is `End`, `ClearSlot` is `Join`, or `Abandon` if the thread was never
started, `BeginShutdown` and `EndShutdown` are `Close` and `Settle`; everything else
stutters. `Issue` requires that fewer threads than the capacity are alive; that a
free slot means so is shown by an injection from those threads into the occupied
slots (`RoomForOne`).

**`ModuleCalls`**, for any threads, modules, builds, call graph and depth of nested
calls, from `CallsAssumption` and `NamesAssumption` (the values that stand for "no
runner" and "no thread" are neither). `ModuleCallsProofs` proves `CallsInv` inductive,
and from it every safety property that the run checks. `RunnerExclusive` is not
inductive because the mutexes are recursive: releasing one must not free it while
an outer call is on the runner. `MutexInv` counts: the holder of a mutex holds it as
often as it has calls on that runner, plus one between locking and entering.
`RoutedToCaller` needs what the frames below the innermost one have stored:
`RouteInv` says that the current runner of each backend is that of the innermost
call *of that backend*, and that each frame remembers the one below it, at every
depth (`Innermost`). `ElectInv` says that whoever is past the claim is alone;
`TrapInv` that a runner on which a call has trapped is still occupied by that
call, hence locked, until the failure has been claimed. With the check of the
flag inside the mutex, `TrappedRunnerStaysOut` follows.

**`CommandRegistry`**, for any modules, threads, messages, verdicts and number of
registrations, from its named assumptions. `CommandRegistryProofs` proves `IInv` inductive, and from
it `TypeCorrect`, `LookupsComplete` and `RepliesOwned` (`TypeOK`, `NothingOverlooked`,
`RepliesOwnedOnce`). `NothingOverlooked` is about the gap between two lookups, in
which positions in the registry shift: it survives because a lookup continues
below a sequence *number*, because numbers are given once (`NumbersGiven`), and
because the registration found is the newest of those left, for which a lemma
derives greatest elements from the well-foundedness of `<`. `RepliesAccounted` says
for each point of the interpretation which of `reply` and `previous` are allocated; a
reply is freed twice, or lost, if they are confused on one of the error paths.

**`ChainExecution`**, for any group, threads, number of commands and depth, from
`ChainsAssumption`. A running chain's state is kept in the chain and not in the
activation, and the proofs separate what holds all the same from what does not.
`TypeCorrect` and `ContinuesInItsChain` (`TypeOK`, `ChainRestored`) hold of every group,
also of one whose chains execute themselves: each activation keeps the chain below
it (`Linked`), whatever is done to the chains' own variables. `InputsFreedOnce` and
`ProcessorsPassed` (`InputsFreed`, `CascadeComplete`) are proved of the behaviours in
which no chain is entered again while it runs, `Spec /\ []EnteredOnce`. The first
needs that the copies held by different activations differ and that a function's
input is the one its chain keeps (`InputsLent`); the second that the count of
processors in use is that of the processors on the stack, and one processor per
order at most: with two it is violated (finding 4). Nothing in the code
establishes `EnteredOnce`. `LayersEnterOnce` shows that *groups* do, if their chains
belong to one thread each and execute only chains of a higher level (`Layered`);
for them `LayersFreeInputs` and `LayersPassProcessors` need no hypothesis on
behaviours.

**`RunnerStacks`**, without assumptions: `SlicesApart` and `SlicesUsable` say that the
checks before a division suffice for every size and number of runners;
`AlignedBlockFits` that `size + align - 1` bytes are enough for every alignment;
`BlankingSparesData` that blanking is clear of the data of both layouts *if* a
data-first module tells where its data end, which is the hypothesis finding 5
violates.

**`ModuleMemory` and `MessageTransfer`**, for any modules of any kinds, guests,
readers and transferring threads, any messages, page and address sizes, from
`MemoryAssumption`, `TransferAssumption` and `DigitsAssumption` (three digits are enough
for a byte). `MessageTransferProofs` has a base, `DataPathInv`: the types, what is true
of every memory (`AllSound`: blocks are apart, aligned and within the active and
backed memory), where threads are (`ThreadsPlaced`) and how far transfers have come
(`MessagesInHand`). `TypeCorrect`, `BlocksStayBacked` and `IdlePagesReclaimable`
(`TypeOK`, `LiveBlocksBacked`, `IdlePagesPending`) follow from it. `LiveBlocksBacked` is not
inductive on its own: a shrinking memory keeps the blocks because the target is not
below the end of any, and whole pages, and because the static data keep it from
becoming empty. The other results have an invariant each on top of the base:

* `BlocksGivenBack` (`BlocksReturned`): a thread owns a block exactly at the steps
  between the allocation and its end, and the address it frees is that of the
  block (`BlocksHeld`).
* `PayloadsApart` (`PayloadsSeparate`): the payloads placed so far are apart, aligned
  and below the size so far, of which no sum has wrapped (`LaidOut`).
* `AddressesUnderstood` (`AddressesMean`): what is known of each location at each
  step (`Understood`), for every pair of kinds of modules.
* `SizesCurrent` (`SizeIsCurrent`), *without WAMR*: whoever asks for a size holds a lock
  from its sample to its publication, so that what is published is known to every
  thread that has asked since (`SamplesHeld`). `WamrMemorySize.cfg` shows that the
  hypothesis is needed.
* `RefusalsCaused` (`RefusedForCause`), without WAMR: the size a transfer is told reaches
  beyond its block, also if it was sampled before other threads shrank the memory
  (`BlocksKnown`); and, under no hypothesis (`TextsFit`), the room for the text
  is what was reserved for the locations one by one (`RoomMade`), each of which has
  at least its new address. That the sum of the parts is not larger either is
  shown by the least position where it would be.
* `AccessesStayBacked` (`AccessesBacked`): a block that is written lies in the memory's
  reservation (`BlocksInside`) and is owned, hence backed; a payload is read from
  where the sender keeps it. The hypotheses are `SourcesStatic`, senders keep what
  they send, without which the code does not promise it, and `BadBlocksOutside`, a
  made-up address is outside the memory: inside it, a faulty allocator could hand
  out memory that is given back to the system.

**`GroupLoading`**, with `ModuleInit`, `NativeTranslation` and `WasmBinary`, for any module
files, group files, hosts, directories, sizes of the reservation and numbers of
launches. `ScenariosAssumption` says what a line and a host are, `ImagesAssumption`
what a linker produces (`LaidOut`): the stack below the data or directly above them,
then the heap, stacks aligned to 16 bytes, and a memory that can be shared has at
least that size, in whole pages. None says how many modules, stacks or errors there
are. `GroupLoadingProofs` has a base, proved inductive together: `VariablesTyped`, then
for each module where its stacks and TLS blocks are and what was blanked, as a function of
its file and its number of runners (`RecordsSound`), how far the initialisation in
progress has come at each stage (`LoadInStage`), and that the symbol table in use names
the modules in the table (`FilesFollowed`). `TypesAndBounds` (`TypeOK`) follows: a loop
ends before it runs past the runners. The other results:

* `StacksStayDisjoint` (`StacksDisjoint`). The property compares regions of a module
  without saying how they were computed, so that a step that adds one preserves it
  only if each is known to be the slice, or the WAMR stack, of *its* runner:
  `StacksGiven` says so, and that the checks of the division have been passed. The
  arithmetic is `RunnerStacksProofs`' (`SlicesApart`, `SlicesUsable`, `AlignedBlockFits`).
  TLS blocks are apart because the heap only grows (`TlsGiven`).
* `ReferencesStayValid` (`ReferencesHold`). Addresses stay valid because a reservation is
  made once (`AddressesKept`). That references mean what their lines name needs
  `LinksFollowed` with `FilesFollowed`: a name is looked up in a table of the file in
  progress, which agrees with the module table except for the module being loaded,
  which nothing refers to yet.
* `NothingLeaks` (`CleanedUp`). `HeldInOrder` gives the exact set of objects at each stage
  of each backend, also half way through the clean-up; `CleanedUp` itself says nothing of
  the stages in between.
* `ChoiceIsAsAsked` (`TranslationAsAsked`). Between the look-up and the build the mode
  of the module, its backend and the settings must be those the choice began with
  (`ChoiceKept`), and a translator once found missing or lacking stays so.
* `StaticDataStays` (`StaticDataIntact`), *under `LayoutsTold`*: the stack pointer a file
  declares, if it declares one, is in the linked stack, and a file with data below its stack
  exports `__data_end` and has no memory that can be shared. The first part of the
  latter is what finding 5 violates; the second excludes WAMR's further stacks,
  of which too much is blanked (see 6). Neither is checked by the code, so that both are
  hypotheses of this theorem and not of the module; TLC evaluates them on the files of
  `GroupLoading.cfg` (`LayoutsAssumption`).

Only model-checked: liveness (`ShutdownReturns`, `CreationSettles`, `CallsReturn`,
`FailureEndsProcess`, `MessagesEnd`), which this prover does not handle. Every
safety property of the passing runs is proved.

## 6. Not modelled

* `wasm2c` is vendored. Wasmtime, WAMR, the translator and the dynamic loader are
  external: calls that succeed, fail or trap, with the results the host reads.
* Setting the translation mode while a background build is under way: the build's
  job points to the directory's name, which is freed. The hosts in the repository
  set the mode before they load modules.
* Orders of a later file before its first chain line, which replace orders of the
  default chain (`FilesAssumption` excludes such files).
* A data-first module with several WAMR runners is in no instance. The host blanks
  `stack_base` bytes below the top of each further stack (wahe_wamr.c:416), and in
  that layout `stack_base` is the address of the first stack's top and not the size
  of a stack, so that more than the stack is filled. `ModuleInit` models this as the
  code has it; the data-first module files of `MCGroupLoading` have memories that
  cannot be shared and are refused with more than one runner.
* Of the data path, `wahe_copy_between_memories` and `wahe_load_raw_file`, a bounded copy
  and file access; the failure of a memory's initialisation is a failing step of
  `ModuleInit`; the release of memories at exit.
* Printing, timing, images, keyboard, text scanning, strings and file access:
  sequential input and output without shared state.

## 7. Plan

1. Done: all components that keep state, one module each; the proofs of
   `ThreadRegistry` and its refinement, of `ModuleCalls`, `CommandRegistry`,
   `ChainExecution`, `RunnerStacks`, `ModuleMemory` and `MessageTransfer`, and of
   `GroupLoading` with the modules it uses.
2. Composition: transfers made by chains on runners that trap, with `ModuleCalls`
   as the abstract specification of a call; a group loaded while its modules'
   first calls create threads.
