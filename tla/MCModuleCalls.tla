--------------------------- MODULE MCModuleCalls ---------------------------
(* Two threads and two modules, of which a has two runners and calls b.    *)
EXTENDS ModuleCalls, TLC

CONSTANTS a, b, t1, t2

(* With Wasmtime both are run by it; with WAMR, b is translated.            *)
BothWasmtime  == (a :> "wasmtime") @@ (b :> "wasmtime")
WamrAndNative == (a :> "wamr") @@ (b :> "native")
EitherRuntime == {BothWasmtime, WamrAndNative}
MCRunners     == (a :> 2) @@ (b :> 1)
Layered       == {<<a, a>>, <<a, b>>}
=============================================================================
