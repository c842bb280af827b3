----------------------------- MODULE ModuleInit -----------------------------
(***************************************************************************)
(* wahe_module_init_with_backend: how one module is loaded, instantiated   *)
(* on a Wasm runtime, as a translation or as a native library, how its     *)
(* runners get their stacks and TLS, and what is undone when a step fails. *)
(*                                                                         *)
(* The runtimes, the dynamic loader and the allocator of the module are    *)
(* external: they succeed, fail, or give an address.                       *)
(***************************************************************************)
EXTENDS NativeTranslation, RunnerStacks, FiniteSets

CONSTANTS
    MaxAuxStacks,       \* WAHE_WAMR_MAX_THREADS
    Memory64Threads,    \* WAHE_WAMR_MEMORY64_THREADS
    NoName

ASSUME InitAssumption == MaxAuxStacks \in Nat /\ Memory64Threads \in BOOLEAN

(* How a linker lays out a memory: the stack from address zero and the     *)
(* data above it, or the data and directly above them the stack (what is   *)
(* between the two counts as data); then the heap.  Stacks are aligned for *)
(* the guest, and a memory that can be shared has at least its data and    *)
(* stack, in whole pages.                                                  *)
LaidOut(im) ==
    /\ im.data.lo <= im.data.hi
    /\ im.stack_bottom < im.stack_top
    /\ im.stack_bottom % 16 = 0 /\ im.stack_top % 16 = 0
    /\ \/ im.stack_bottom = 0 /\ im.stack_top <= im.data.lo
       \/ im.data.hi = im.stack_bottom
    /\ im.stack_top <= im.heap_base /\ im.data.hi <= im.heap_base
    /\ ReadMemoryInfo(im.binary).shared =>
            im.heap_base <= im.memory_size /\ im.memory_size % 16 = 0

ASSUME ImagesAssumption ==
    \A path \in DOMAIN Image : LET im == Image[path] IN
        /\ {im.wasm, im.library, im.translatable} \subseteq BOOLEAN
        /\ {im.stack_bottom, im.stack_top, im.heap_base, im.memory_size,
            im.tls_size, ReadStackPointer(im.binary)} \subseteq Nat
        /\ im.data \in [lo : Nat, hi : Nat] /\ im.tls_align \in Nat \ {0}
        /\ ReadMemoryInfo(im.binary).shared \in BOOLEAN
        /\ LaidOut(im)

VARIABLES
    ctx,    \* group->module: the records of the modules, in order
    load,   \* the initialisation in progress, of the last record
    held    \* what it has acquired and must release in an order

initVars == <<ctx, load, held>>

Idle == [stage |-> "idle", name |-> NoName, backend |-> "default",
         runners |-> 1, i |-> 0]

cur == ctx[Len(ctx)]
img == Image[cur.image]
info == ReadMemoryInfo(img.binary)

R(kind, i) == [kind |-> kind, i |-> i]

(* The record after the memset and the assignments at the beginning.  The  *)
(* last two fields are history: what the line asked for, and the mode of   *)
(* the host then.                                                          *)
Fresh(path, n, backend, self) ==
    [image |-> path, name |-> NoName, self |-> self, type |-> "none",
     valid |-> FALSE, count |-> IF n = 0 THEN 1 ELSE n, translated |-> FALSE,
     stack_base |-> 0, data_end |-> 0, memory_safe |-> FALSE,
     stacks |-> <<>>, tls |-> <<>>, heap |-> Image[path].heap_base,
     blanked |-> {}, writes |-> 0, shares |-> FALSE,
     mode |-> "off", waited |-> FALSE, backend |-> backend, wide |-> CurrentMode]

SetCtx(record) == ctx' = [ctx EXCEPT ![Len(ctx)] = record]
Goto(stage)    == load' = [load EXCEPT !.stage = stage, !.i = 0]
Loop(stage, i) == load' = [load EXCEPT !.stage = stage, !.i = i]
Again          == load' = [load EXCEPT !.i = @ + 1]
At(stage)      == load.stage = stage

Begin(path, n, backend, name, self) ==
    /\ At("idle")
    /\ ctx' = Append(ctx, Fresh(path, n, backend, self))
    /\ load' = [stage |-> "resolve", name |-> name, backend |-> backend,
                runners |-> n, i |-> 0]
    /\ held' = {}
    /\ UNCHANGED translationVars

-----------------------------------------------------------------------------
(* Choice of the backend                                                   *)

(* The stage in which the module is opened.                                *)
OpeningStage(translated) ==
    IF img.wasm /\ ~translated THEN "image" ELSE "library"

ResolveDeclined ==
    /\ At("resolve")
    /\ IF img.wasm THEN DeclineTranslation(cur.image, load.backend)
                   ELSE UNCHANGED translationVars
    /\ Goto(OpeningStage(FALSE))
    /\ SetCtx([cur EXCEPT !.mode = IF host.wasm2native THEN ModeFor(load.backend)
                                                       ELSE "off"])
    /\ UNCHANGED held

ResolveCached ==
    /\ At("resolve") /\ img.wasm
    /\ LookUpTranslation(cur.image, load.backend)
    /\ LET mode == ModeFor(load.backend) IN
       /\ SetCtx([cur EXCEPT !.translated = Translated(cur.image), !.mode = mode])
       /\ Goto(CASE Translated(cur.image) -> OpeningStage(TRUE)
                 [] ~LibraryLoaded \/ mode = "cached" -> OpeningStage(FALSE)
                 [] OTHER -> "build")
    /\ UNCHANGED held

ResolveBuild ==
    /\ At("build")
    /\ LET translated == cur.mode = "always" /\ img.translatable IN
       /\ IF cur.mode = "always" THEN BuildNow(cur.image)
                                 ELSE BuildInBackground(cur.image)
       /\ SetCtx([cur EXCEPT !.translated = translated,
                             !.waited = cur.mode = "always"])
       /\ Goto(OpeningStage(translated))
    /\ UNCHANGED held

-----------------------------------------------------------------------------
(* What the two runtimes require of the memory                             *)

MemorySafe == IF host.runtime = "wasmtime"
              THEN /\ info.imported /\ info.shared /\ info.maximum_present
                   /\ OnlyPassiveData(img.binary)
              ELSE info.shared /\ info.maximum_present

MemoryAccepted ==
    /\ info.found
    /\ cur.count > 1 => MemorySafe
    /\ IF host.runtime = "wasmtime"
       THEN ~(info.imported /\ ~info.shared)
       ELSE /\ info.shared \/ (info.maximum_present /\ info.max_pages = info.base_pages)
            /\ ~(cur.count > 1 /\ info.memory64 /\ ~Memory64Threads)

ReadImage ==
    /\ At("image") /\ has_runtime
    /\ SetCtx([cur EXCEPT !.type = IF info.found THEN host.runtime ELSE "none",
                          !.stack_base = ReadStackPointer(img.binary),
                          !.shares = info.found /\ info.shared,
                          !.memory_safe = info.found /\ MemorySafe])
    /\ IF MemoryAccepted
       THEN /\ held' = IF host.runtime = "wamr" THEN {R("image", 0)} ELSE {}
            /\ Goto(IF host.runtime = "wamr" THEN "load" ELSE "compile")
       ELSE Goto("failed") /\ UNCHANGED held
    /\ UNCHANGED translationVars

NoRuntime ==
    /\ At("image") /\ ~has_runtime
    /\ Goto("failed")
    /\ UNCHANGED <<ctx, held, translationVars>>

-----------------------------------------------------------------------------
(* Wasmtime                                                                *)

(* The engine, the compiled module and the memory all runners import.      *)
Compile ==
    /\ At("compile")
    /\ Goto("runner")
    /\ UNCHANGED <<ctx, held, translationVars>>

LinkedDataEnd == IF "__data_end" \in img.exports THEN img.data.hi ELSE 0
LinkedStack   == Region(img.stack_bottom, img.stack_top)

(* wahe_set_wasmtime_runner_stack.                                         *)
StackBaseOf(i) == IF i = 0 /\ "__stack_pointer" \in img.exports
                  THEN img.stack_top ELSE cur.stack_base
StackGiven(i) ==
    \/ cur.count = 1
    \/ /\ "__stack_pointer" \in img.exports
       /\ Divisible(StackBaseOf(i), LinkedDataEnd, cur.count)
StackOf(base, i) == IF cur.count = 1 THEN LinkedStack
                                     ELSE Slice(base, cur.count, i)

(* wahe_init_wasmtime_runner.  Active data segments are written by every   *)
(* instance, passive ones by the start function of the first.              *)
InitWasmtimeRunner ==
    /\ At("runner")
    /\ LET i == load.i
           c == [cur EXCEPT
                   !.stack_base = StackBaseOf(i),
                   !.stacks = Append(@, StackOf(StackBaseOf(i), i)),
                   !.writes = IF i = 0 \/ ~OnlyPassiveData(img.binary)
                              THEN @ + 1 ELSE @]
       IN  IF StackGiven(i)
           THEN /\ SetCtx(c)
                /\ IF i + 1 < cur.count THEN Again ELSE Goto("symbols")
           ELSE /\ SetCtx([c EXCEPT !.stacks = cur.stacks])
                /\ Goto("failed")
    /\ UNCHANGED <<held, translationVars>>

-----------------------------------------------------------------------------
(* WAMR: what is acquired must be released children first, and the image   *)
(* last, since the loaded module refers to it                              *)

AppHeapSize ==
    IF cur.memory_safe /\ ~(info.memory64 /\ ~Memory64Threads)
    THEN cur.stack_base * MaxAuxStacks ELSE 0

(* The stack WAMR gives to child i: as large as the linked one, in the     *)
(* heap it adds to the memory, behind 16 bytes of its own.                 *)
AuxSize     == img.stack_top - img.stack_bottom
AuxStack(i) == LET top == img.memory_size + i * (AuxSize + 16)
               IN  Region(top - AuxSize, top)

LoadImage ==
    /\ At("load")
    /\ held' = held \cup {R("module", 0)}
    /\ Goto(IF cur.count > 1 /\ AppHeapSize < cur.stack_base
            THEN "undo_children" ELSE "instantiate")
    /\ UNCHANGED <<ctx, translationVars>>

Instantiate ==
    /\ At("instantiate")
    /\ held' = held \cup {R("instance", 0)}
    /\ SetCtx([cur EXCEPT !.writes = @ + 1])
    /\ Goto("objects")
    /\ UNCHANGED translationVars

AllocateRunners ==
    /\ At("objects")
    /\ held' = held \cup {R("runners", 0)}
    /\ Goto("environment")
    /\ UNCHANGED <<ctx, translationVars>>

(* The execution environment of runner 0, then those of its children.      *)
CreateEnvironment ==
    /\ At("environment")
    /\ LET i == load.i
           room == /\ "__stack_pointer" \in img.exports
                   /\ AuxStack(i).hi <= img.memory_size + AppHeapSize
       IN  IF i = 0 \/ room
           THEN /\ held' = held \cup {R("environment", i)}
                /\ SetCtx([cur EXCEPT !.stacks =
                             Append(@, IF i = 0 THEN LinkedStack ELSE AuxStack(i))])
                /\ IF i + 1 < cur.count THEN Again ELSE Goto("symbols")
           ELSE Goto("undo_children") /\ UNCHANGED <<ctx, held>>
    /\ UNCHANGED translationVars

(* wahe_wamr_cleanup_failed_init, and the release of the image by its      *)
(* caller.                                                                 *)
DestroyChildren ==
    /\ At("undo_children")
    /\ held' = held \ {R("environment", i) : i \in 1 .. cur.count - 1}
    /\ Goto("undo_main")
    /\ UNCHANGED <<ctx, translationVars>>

DestroyMain ==
    /\ At("undo_main")
    /\ IF R("environment", 0) \in held
       THEN held' = held \ {R("environment", 0)} /\ UNCHANGED load
       ELSE held' = held \ {R("instance", 0)} /\ Goto("undo_runners")
    /\ UNCHANGED <<ctx, translationVars>>

ReleaseRunners ==
    /\ At("undo_runners") /\ cur.type = "wamr"
    /\ held' = held \ {R("runners", 0)}
    /\ Goto("undo_module")
    /\ UNCHANGED <<ctx, translationVars>>

UnloadModule ==
    /\ At("undo_module")
    /\ held' = held \ {R("module", 0)}
    /\ Goto("undo_image")
    /\ UNCHANGED <<ctx, translationVars>>

FreeImage ==
    /\ At("undo_image")
    /\ held' = held \ {R("image", 0)}
    /\ Goto("failed")
    /\ UNCHANGED <<ctx, translationVars>>

-----------------------------------------------------------------------------
(* Translations and native libraries                                       *)

(* dynlib_open; a directly compiled library has one runner.                *)
OpenLibrary ==
    /\ At("library")
    /\ LET translated == cur.translated
           opens == translated \/ img.library
       IN  IF opens /\ (translated \/ cur.count = 1)
           THEN /\ SetCtx([cur EXCEPT !.type = IF translated THEN "translated"
                                                             ELSE "native"])
                /\ held' = {R("library", 0)}
                /\ Goto("native_symbols")
           ELSE Goto("failed") /\ UNCHANGED <<ctx, held>>
    /\ UNCHANGED translationVars

(* wahe_init_all_module_symbols of a library: a translation creates its    *)
(* instance, with its memory, and runs its constructors.                   *)
NativeSymbols ==
    /\ At("native_symbols")
    /\ IF cur.type = "native"
       THEN SetCtx([cur EXCEPT !.valid = TRUE]) /\ Goto("memory") /\ UNCHANGED held
       ELSE /\ SetCtx([cur EXCEPT
                         !.valid = TRUE, !.writes = @ + 1,
                         !.shares = info.shared,
                         !.stack_base = IF "__stack_pointer" \in img.exports
                                        THEN img.stack_top ELSE 0,
                         !.data_end = LinkedDataEnd])
            /\ held' = held \cup {R("instance", 0)}
            /\ Goto("divide")
    /\ UNCHANGED translationVars

(* wahe_init_translated_runners: the conditions for several runners, ...   *)
DivideStack ==
    /\ At("divide")
    /\ IF cur.count = 1 \/ (/\ info.shared
                           /\ Divisible(cur.stack_base, cur.data_end, cur.count))
       THEN held' = held \cup {R("runners", 0)} /\ Goto("slices")
       ELSE Goto("failed") /\ UNCHANGED held
    /\ UNCHANGED <<ctx, translationVars>>

(* ... an instance and a slice for each of them, ...                       *)
TranslatedRunner ==
    /\ At("slices")
    /\ held' = held \cup {R("instance", load.i)}
    /\ SetCtx([cur EXCEPT !.stacks = Append(@, StackOf(cur.stack_base, load.i))])
    /\ CASE load.i + 1 < cur.count -> Again
         [] load.i + 1 = cur.count /\ cur.count > 1 -> Loop("tls", 1)
         [] OTHER -> Goto("memory")
    /\ UNCHANGED translationVars

(* ... or none: the instance of the module itself stays.                   *)
ReleaseInstances ==
    /\ At("undo_runners") /\ cur.type = "translated"
    /\ held' = {R("library", 0), R("instance", 0)}
    /\ Goto("failed")
    /\ UNCHANGED <<ctx, translationVars>>

-----------------------------------------------------------------------------
(* What the backends share                                                 *)

(* wahe_init_all_module_symbols on a runtime.                              *)
RuntimeSymbols ==
    /\ At("symbols")
    /\ SetCtx([cur EXCEPT !.valid = TRUE, !.data_end = LinkedDataEnd])
    /\ Goto("memory")
    /\ UNCHANGED <<held, translationVars>>

AfterTls == IF cur.type = "translated" THEN "memory" ELSE "blank"

(* wahe_init_module_memory.                                                *)
InitMemory ==
    /\ At("memory")
    /\ IF cur.type \in {"wasmtime", "wamr"} /\ cur.count > 1
       THEN Loop("tls", 1) ELSE Goto("blank")
    /\ UNCHANGED <<ctx, held, translationVars>>

(* Memory as the host sees it: WAMR adds the heap of the child stacks.     *)
HostMemorySize ==
    img.memory_size + (IF cur.type = "wamr" THEN AppHeapSize ELSE 0)

(* wahe_wamr_blank_aux_stack.                                              *)
AuxBlanked(i) ==
    IF cur.type = "wamr" /\ cur.stack_base # 0
    THEN {Region(cur.stacks[i + 1].hi - cur.stack_base, cur.stacks[i + 1].hi)}
    ELSE {}
AuxFits(i) ==
    \/ cur.type # "wamr"
    \/ cur.stack_base = 0
    \/ /\ cur.stacks[i + 1].hi >= cur.stack_base
       /\ cur.stacks[i + 1].hi <= HostMemorySize

NeedsTls == "__tls_size" \in img.exports /\ img.tls_size > 0
GivesTls == "__tls_align" \in img.exports /\ "__wasm_init_tls" \in img.exports

(* wahe_init_translated_tls, wahe_wamr_init_thread_tls and, for Wasmtime,  *)
(* wahe_init_thread_tls: the block comes from the module's allocator,      *)
(* which may leave a gap but not exceed the memory.                        *)
InitTls ==
    /\ At("tls") /\ AuxFits(load.i) /\ (NeedsTls => GivesTls)
    /\ \E addr \in {cur.heap, cur.heap + 8} :
         LET size == AllocationSize(img.tls_size, img.tls_align)
             c == [cur EXCEPT !.blanked = @ \cup AuxBlanked(load.i)]
         IN  /\ NeedsTls => addr + size <= img.memory_size
             /\ SetCtx(IF ~NeedsTls THEN c
                       ELSE [c EXCEPT
                               !.heap = addr + size,
                               !.tls = Append(@, AlignedBlock(addr, img.tls_size,
                                                              img.tls_align))])
    /\ IF load.i + 1 < cur.count THEN Again ELSE Goto(AfterTls)
    /\ UNCHANGED <<held, translationVars>>

(* A mutant: what exists at the time of the failure is not released first. *)
UndoStageShallow ==
    CASE load.stage = "load" -> "undo_image"
      [] load.stage \in {"instantiate", "objects", "environment"} -> "undo_module"
      [] load.stage = "slices" -> "undo_runners"
      [] load.stage = "tls" /\ cur.type = "translated" -> "undo_runners"
      [] OTHER -> "failed"

(* The stage a failure leads to: what the function that fails has to undo. *)
UndoStage ==
    CASE load.stage = "load" -> "undo_image"
      [] load.stage \in {"instantiate", "objects", "environment"} -> "undo_children"
      [] load.stage = "slices" -> "undo_runners"
      [] load.stage = "tls" /\ cur.type = "translated" -> "undo_runners"
      [] OTHER -> "failed"

Fallible == {"compile", "runner", "load", "instantiate", "objects", "environment",
             "library", "native_symbols", "divide", "slices", "memory", "tls"}

(* A step that the runtime, the loader, the module's allocator or the host *)
(* allocator refuses; the translated instance 0 exists already.            *)
StepFails ==
    /\ load.stage \in Fallible
    /\ ~(At("slices") /\ load.i = 0)
    /\ ~(At("native_symbols") /\ cur.type = "native")
    /\ Goto(UndoStage)
    /\ SetCtx([cur EXCEPT !.valid = FALSE])
    /\ UNCHANGED <<held, translationVars>>

TlsRefused ==
    /\ At("tls")
    /\ ~AuxFits(load.i) \/ (NeedsTls /\ ~GivesTls)
    /\ Goto(UndoStage)
    /\ SetCtx([cur EXCEPT !.valid = FALSE])
    /\ UNCHANGED <<held, translationVars>>

(* wahe_blank_module_stack.                                                *)
BlankStack ==
    /\ At("blank")
    /\ CASE cur.type = "native" \/ cur.stack_base = 0
              -> Goto("register") /\ UNCHANGED ctx
         [] cur.type # "native" /\ cur.stack_base > HostMemorySize
              -> Goto("failed") /\ SetCtx([cur EXCEPT !.valid = FALSE])
         [] OTHER
              -> /\ Goto("register")
                 /\ SetCtx([cur EXCEPT !.blanked =
                              @ \cup {BlankedRegion(cur.stack_base, cur.data_end)}])
    /\ UNCHANGED <<held, translationVars>>

(* The first calls of the module; then the parser stores its name.         *)
RegisterModule ==
    /\ At("register")
    /\ SetCtx([cur EXCEPT !.name = load.name])
    /\ load' = Idle
    /\ UNCHANGED <<held, translationVars>>

InitStep ==
    \/ ResolveDeclined \/ ResolveCached \/ ResolveBuild
    \/ ReadImage \/ NoRuntime \/ Compile \/ InitWasmtimeRunner
    \/ LoadImage \/ Instantiate \/ AllocateRunners \/ CreateEnvironment
    \/ DestroyChildren \/ DestroyMain \/ ReleaseRunners \/ UnloadModule \/ FreeImage
    \/ OpenLibrary \/ NativeSymbols \/ DivideStack \/ TranslatedRunner
    \/ ReleaseInstances
    \/ RuntimeSymbols \/ InitMemory \/ InitTls \/ StepFails \/ TlsRefused
    \/ BlankStack \/ RegisterModule
=============================================================================
