-------------------------- MODULE NativeTranslation --------------------------
(***************************************************************************)
(* The choice between the WebAssembly runtime and a native translation of  *)
(* a Wasm module (wahe_wasm2native.c), the cache of translations and the   *)
(* background threads that fill it for the next launch.                    *)
(*                                                                         *)
(* The translator, wasm2native.dll, is external: it finds a complete       *)
(* translation in the cache directory or not, and building one succeeds    *)
(* for the modules it can translate.                                       *)
(***************************************************************************)
EXTENDS WasmBinary

CONSTANTS
    Image,      \* the module files: a record for each path
    Dirs,       \* the directories a host may name for the cache
    DefaultDir  \* the directory below the user's application data

ASSUME DirsAssumption == DefaultDir \notin Dirs

VARIABLES
    host,       \* the build and the environment of the host; never changes
    settings,   \* wahe_wasm2native_settings
    lib,        \* wahe_wasm2native_lib: "untried", "loaded" or "absent"
    cache,      \* the translations on disk: <<directory, path>>
    jobs        \* the running background builds: <<directory, path>>

translationVars == <<host, settings, lib, cache, jobs>>

Modes    == {"off", "cached", "auto", "always"}
Backends == {"default", "native", "sandboxed"}

has_runtime == host.runtime # "none"

Unset == [mode_set |-> FALSE, mode |-> "off", cache_dir |-> DefaultDir]

(* wahe_wasm2native_mode: the host's choice, else the environment's if it  *)
(* names a mode, else auto; the choice is made once.                       *)
CurrentMode == CASE settings.mode_set -> settings.mode
                 [] ~settings.mode_set /\ host.env \in Modes -> host.env
                 [] OTHER -> "auto"
Chosen == [settings EXCEPT !.mode_set = TRUE, !.mode = CurrentMode]

(* wahe_wasm2native_set_mode.  The threads that build in the background    *)
(* hold a pointer to the directory that is freed here; the host of this    *)
(* model changes its settings while none is running.                       *)
SetMode(mode, dir) ==
    /\ jobs = {}
    /\ settings' = [mode_set |-> TRUE, mode |-> mode, cache_dir |-> dir]
    /\ UNCHANGED <<host, lib, cache, jobs>>

(* The mode that applies to one module.                                    *)
ModeFor(backend) ==
    IF backend = "native" \/ (~has_runtime /\ CurrentMode # "off")
    THEN "always" ELSE CurrentMode

(* wahe_wasm_file_is_memory64.                                             *)
IsMemory64(path) ==
    LET info == ReadMemoryInfo(Image[path].binary)
    IN  info.found /\ info.memory64

(* A mutant: 64-bit modules are treated like others.                       *)
StaysWithoutMemory64(path, backend) ==
    \/ ~host.wasm2native
    \/ backend = "sandboxed"
    \/ ModeFor(backend) = "off"

(* The early returns of wahe_wasm2native_resolve, up to the library.       *)
StaysInRuntime(path, backend) ==
    \/ ~host.wasm2native
    \/ backend = "sandboxed"
    \/ ModeFor(backend) = "off"
    \/ backend # "native" /\ has_runtime /\ IsMemory64(path)

DeclineTranslation(path, backend) ==
    /\ StaysInRuntime(path, backend)
    /\ settings' = IF host.wasm2native /\ backend # "sandboxed"
                   THEN Chosen ELSE settings
    /\ UNCHANGED <<host, lib, cache, jobs>>

(* wahe_wasm2native_load: one attempt in the life of the process; a        *)
(* library that lacks the functions is closed again.                       *)
LibraryLoaded == IF lib = "untried" THEN host.translator = "whole"
                                    ELSE lib = "loaded"

(* The cached translation is looked for, without building one.             *)
LookUpTranslation(path, backend) ==
    /\ ~StaysInRuntime(path, backend)
    /\ settings' = Chosen
    /\ lib' = IF LibraryLoaded THEN "loaded" ELSE "absent"
    /\ UNCHANGED <<host, cache, jobs>>

Translated(path) == LibraryLoaded /\ <<settings.cache_dir, path>> \in cache

(* wahe_wasm2native_compile, with leave to build: the thread that calls it *)
(* waits for the translation.                                              *)
BuildNow(path) ==
    /\ cache' = IF Image[path].translatable
                THEN cache \cup {<<settings.cache_dir, path>>} ELSE cache
    /\ UNCHANGED <<host, settings, lib, jobs>>

(* wahe_wasm2native_build_in_background: a detached thread that owns the   *)
(* names of the module, or none if it cannot be started.                   *)
BuildInBackground(path) ==
    /\ \/ jobs' = jobs \cup {<<settings.cache_dir, path>>}
       \/ jobs' = jobs
    /\ UNCHANGED <<host, settings, lib, cache>>

(* wahe_wasm2native_thread.                                                *)
BackgroundBuildEnds(job) ==
    /\ job \in jobs
    /\ jobs' = jobs \ {job}
    /\ cache' = IF Image[job[2]].translatable THEN cache \cup {job} ELSE cache
    /\ UNCHANGED <<host, settings, lib>>

(* The process has ended and is started again: the settings, the library   *)
(* and the threads are gone, the translations on disk are not.             *)
RestartTranslation ==
    /\ settings' = Unset
    /\ lib' = "untried"
    /\ jobs' = {}
    /\ UNCHANGED <<host, cache>>
=============================================================================
